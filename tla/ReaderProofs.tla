----------------------------- MODULE ReaderProofs -----------------------------
(***************************************************************************)
(* Safety of the parts of Readers.cfg that have no reader of INI texts:    *)
(* the buffers of bytes, the configuration reader, the packer, the select  *)
(* server, the removal of a directory and the identifiers, for all their   *)
(* sizes, texts, trees and connections.  Each part has an invariant of its *)
(* own, which the steps of the others leave alone.                         *)
(***************************************************************************)
EXTENDS HttpProofs

(***************************************************************************)
(* The buffer of bytes.  Held says what a buffer b of this size holds      *)
(* between from and to.                                                    *)
(***************************************************************************)
Holds(S, size, b, first, end, h) ==
    /\ DOMAIN b = 0 .. size - 1
    /\ first \in Nat /\ end \in Nat /\ first <= end /\ end <= size
    /\ h \in Seq(S) /\ Len(h) = end - first
    /\ \A i \in 1 .. end - first : b[first + (i - 1)] = h[i]

(* The lesser of two numbers, in the buffer alone and in that of the       *)
(* parser.                                                                 *)
LEMMA LesserOf ==
    ASSUME NEW a \in Int, NEW b \in Int, NEW n, n = Node!Min({a, b})
    PROVE  n = IF a <= b THEN a ELSE b
BY DEF Node!Min

(* The same, of the Min that the parser takes.                             *)
LEMMA PipeLesserOf ==
    ASSUME NEW a \in Int, NEW b \in Int, NEW n, n = Min({a, b})
    PROVE  n = IF a <= b THEN a ELSE b
BY DEF Min

(* What a buffer holds is Data.                                            *)
LEMMA HoldsData ==
    ASSUME NEW S, NEW size, NEW b, NEW first, NEW end, NEW h, Holds(S, size, b, first, end, h)
    PROVE  [i \in 1 .. end - first |-> b[first + i - 1]] = h
<1>1. h = [i \in 1 .. end - first |-> h[i]]
  BY DEF Holds
<1>2. \A i \in 1 .. end - first : b[first + i - 1] = h[i]
  BY DEF Holds
<1> QED BY <1>1, <1>2

(* Bytes moved to the front, with some behind them.                        *)
LEMMA PushHolds ==
    ASSUME NEW S, NEW size \in Nat, NEW b, NEW first, NEW end, NEW h,
           Holds(S, size, b, first, end, h),
           NEW src \in Seq(S), NEW n \in Nat, n <= Len(src), NEW len, len = end - first,
           len + n <= size, NEW c, DOMAIN c = DOMAIN b,
           \A i \in DOMAIN b : c[i] = IF i \in len .. len + n - 1 THEN src[i - len + 1]
                                      ELSE IF i < len THEN b[first + i] ELSE b[i]
    PROVE  Holds(S, size, c, 0, len + n, h \o SubSeq(src, 1, n))
<1>1. /\ DOMAIN b = 0 .. size - 1 /\ first \in Nat /\ end \in Nat /\ len \in Nat /\ end <= size
      /\ h \in Seq(S) /\ Len(h) = len
  BY DEF Holds
<1>2. PICK more : more = SubSeq(src, 1, n)
  OBVIOUS
<1>3. more \in Seq(S) /\ Len(more) = n /\ \A i \in 1 .. n : more[i] = src[i]
  BY <1>2
<1>4. PICK t : t = h \o more
  OBVIOUS
<1>5. /\ t \in Seq(S) /\ Len(t) = len + n
      /\ \A i \in 1 .. len + n : t[i] = IF i <= len THEN h[i] ELSE more[i - len]
  <2>1. /\ t \in Seq(S) /\ Len(t) = Len(h) + Len(more)
        /\ \A i \in 1 .. Len(h) + Len(more) : t[i] = IF i <= Len(h) THEN h[i] ELSE more[i - Len(h)]
    BY <1>1, <1>3, <1>4, ConcatProperties
  <2> QED BY <1>1, <1>3, <2>1
<1>6. ASSUME NEW i \in 1 .. len + n PROVE c[0 + (i - 1)] = t[i]
  <2>1. PICK j : j = i - 1
    OBVIOUS
  <2>2. j \in DOMAIN b /\ 0 + (i - 1) = j /\ i \in Nat
    BY <1>1, <2>1
  <2>3. CASE i <= len
    <3>1. c[j] = b[first + j]
      BY <2>1, <2>2, <2>3, <1>1
    <3>2. b[first + j] = h[i]
      <4>1. i \in 1 .. end - first
        BY <2>3, <1>1
      <4> QED BY <4>1, <2>1 DEF Holds
    <3> QED BY <3>1, <3>2, <2>2, <2>3, <1>5
  <2>4. CASE i > len
    <3>1. j \in len .. len + n - 1 /\ j - len + 1 = i - len /\ i - len \in 1 .. n
      BY <2>1, <2>4, <1>1
    <3>2. c[j] = src[i - len]
      BY <2>2, <3>1
    <3>3. t[i] = src[i - len]
      BY <2>4, <3>1, <1>1, <1>3, <1>5
    <3> QED BY <2>2, <3>2, <3>3
  <2> QED BY <2>2, <2>3, <2>4, <1>1
<1>7. len + n \in Nat /\ len + n - 0 = len + n /\ 0 <= len + n
  BY <1>1
<1> QED BY <1>1, <1>2, <1>4, <1>5, <1>6, <1>7 DEF Holds

(* Bytes moved to the front, with nothing behind them.                     *)
LEMMA CompactHolds ==
    ASSUME NEW S, NEW size \in Nat, NEW b, NEW first, NEW end, NEW h,
           Holds(S, size, b, first, end, h), NEW len, len = end - first,
           NEW c, c = [i \in DOMAIN b |-> IF i < len THEN b[first + i] ELSE b[i]]
    PROVE  Holds(S, size, c, 0, len, h)
<1>1. /\ DOMAIN b = 0 .. size - 1 /\ first \in Nat /\ end \in Nat /\ len \in Nat /\ end <= size
      /\ h \in Seq(S) /\ Len(h) = len
  BY DEF Holds
<1>2. ASSUME NEW i \in 1 .. len PROVE c[0 + (i - 1)] = h[i]
  <2>1. PICK j : j = i - 1
    OBVIOUS
  <2>2. j \in DOMAIN b /\ 0 + (i - 1) = j /\ j < len
    BY <1>1, <2>1
  <2>3. b[first + j] = h[i]
    <3>1. i \in 1 .. end - first
      OBVIOUS
    <3> QED BY <3>1, <2>1 DEF Holds
  <2> QED BY <2>2, <2>3
<1>3. len - 0 = len /\ 0 <= len /\ DOMAIN c = DOMAIN b
  BY <1>1
<1> QED BY <1>1, <1>2, <1>3 DEF Holds

(* Some bytes read, at the front, or dropped, at the end.                  *)
LEMMA ReadHolds ==
    ASSUME NEW S, NEW size \in Nat, NEW b, NEW first, NEW end, NEW h,
           Holds(S, size, b, first, end, h), NEW n \in Nat, n <= end - first
    PROVE  Holds(S, size, b, first + n, end, SubSeq(h, n + 1, Len(h)))
<1>1. /\ DOMAIN b = 0 .. size - 1 /\ first \in Nat /\ end \in Nat /\ end <= size
      /\ h \in Seq(S) /\ Len(h) = end - first
  BY DEF Holds
<1>2. PICK t : t = SubSeq(h, n + 1, Len(h))
  OBVIOUS
<1>3. PICK at : at = first + n
  OBVIOUS
<1>4. /\ t \in Seq(S) /\ Len(t) = end - at
      /\ \A i \in 1 .. end - at : t[i] = h[n + i]
  <2>1. PICK l \in Nat : l = Len(h) /\ end - at = l - n /\ n <= l
    BY <1>1, <1>3
  <2>2. t = SubSeq(h, n + 1, l) /\ n + 1 \in 1 .. l + 1 /\ l \in 0 .. Len(h)
    BY <1>2, <2>1
  <2>3. /\ t \in Seq(S)
        /\ Len(t) = IF n + 1 <= l THEN l - (n + 1) + 1 ELSE 0
        /\ \A i \in 1 .. l - (n + 1) + 1 : t[i] = h[(n + 1) + i - 1]
    BY <1>1, <2>1, <2>2, SubSeqProperties
  <2>4. Len(t) = l - n
    BY <2>1, <2>3
  <2>5. ASSUME NEW i \in 1 .. l - n PROVE t[i] = h[n + i]
    <3>1. i \in 1 .. l - (n + 1) + 1 /\ (n + 1) + i - 1 = n + i
      BY <2>1
    <3> QED BY <3>1, <2>3
  <2> QED BY <2>1, <2>3, <2>4, <2>5
<1>5. ASSUME NEW i \in 1 .. end - at PROVE b[at + (i - 1)] = t[i]
  <2>1. n + i \in 1 .. end - first /\ first + ((n + i) - 1) = at + (i - 1)
    BY <1>1, <1>3
  <2>2. b[first + ((n + i) - 1)] = h[n + i]
    BY <2>1 DEF Holds
  <2> QED BY <2>1, <2>2, <1>4
<1>6. at \in Nat /\ at <= end
  BY <1>1, <1>3
<1> QED BY <1>1, <1>2, <1>3, <1>4, <1>5, <1>6 DEF Holds

(* What a buffer holds when bytes are dropped at its end.                  *)
LEMMA ShrinkHolds ==
    ASSUME NEW S, NEW size \in Nat, NEW b, NEW first, NEW end, NEW h,
           Holds(S, size, b, first, end, h), NEW n \in Nat, n <= end - first,
           NEW c, DOMAIN c = DOMAIN b, \A i \in DOMAIN b : i < end - n => c[i] = b[i]
    PROVE  Holds(S, size, c, first, end - n, SubSeq(h, 1, Len(h) - n))
<1>1. /\ DOMAIN b = 0 .. size - 1 /\ first \in Nat /\ end \in Nat /\ end <= size
      /\ h \in Seq(S) /\ Len(h) = end - first
  BY DEF Holds
<1>2. PICK t : t = SubSeq(h, 1, Len(h) - n)
  OBVIOUS
<1>3. PICK at : at = end - n
  OBVIOUS
<1>4. /\ t \in Seq(S) /\ Len(t) = at - first
      /\ \A i \in 1 .. at - first : t[i] = h[i]
  <2>1. PICK l \in Nat : l = Len(h) - n /\ l = at - first
    BY <1>1, <1>3
  <2>2. t = SubSeq(h, 1, l) /\ 1 \in 1 .. Len(h) + 1 /\ l \in 0 .. Len(h)
    BY <1>1, <1>2, <2>1
  <2>3. /\ t \in Seq(S)
        /\ Len(t) = IF 1 <= l THEN l - 1 + 1 ELSE 0
        /\ \A i \in 1 .. l - 1 + 1 : t[i] = h[1 + i - 1]
    BY <1>1, <2>2, SubSeqProperties
  <2>4. Len(t) = l
    BY <2>1, <2>3
  <2>5. ASSUME NEW i \in 1 .. l PROVE t[i] = h[i]
    <3>1. i \in 1 .. l - 1 + 1 /\ 1 + i - 1 = i
      BY <2>1
    <3> QED BY <3>1, <2>3
  <2> QED BY <2>1, <2>3, <2>4, <2>5
<1>5. ASSUME NEW i \in 1 .. at - first PROVE c[first + (i - 1)] = t[i]
  <2>1. i \in 1 .. end - first /\ first + (i - 1) \in DOMAIN b /\ first + (i - 1) < end - n
    BY <1>1, <1>3
  <2>2. b[first + (i - 1)] = h[i]
    BY <2>1 DEF Holds
  <2> QED BY <2>1, <2>2, <1>4
<1>6. at \in Nat /\ first <= at /\ at <= size
  BY <1>1, <1>3
<1> QED BY <1>1, <1>2, <1>3, <1>4, <1>5, <1>6 DEF Holds

(* The buffer alone.                                                       *)
NodeInv == Holds(Bytes, NodeCapacity, n_buff, n_from, n_to, n_held)

(* A new buffer holds nothing.                                             *)
LEMMA NodeInitially == Node!init => NodeInv
<1> SUFFICES ASSUME Node!init PROVE NodeInv
  OBVIOUS
<1>1. /\ DOMAIN n_buff = 0 .. NodeCapacity - 1 /\ n_from = 0 /\ n_to = 0 /\ n_held = << >>
  BY DEF Node!init
<1> QED BY <1>1, NodeAssumption DEF NodeInv, Holds

(* Data that is read, and not peeked at, leaves the queue.                 *)
LEMMA NodeReadKeeps ==
    ASSUME NodeInv, NEW len \in 0 .. NodeMaxLen, NEW peek \in BOOLEAN, Node!ReadData(len, peek)
    PROVE  NodeInv'
<1>1. PICK n : n = Node!Min({len, Node!GetDataLen})
  OBVIOUS
<1>2. n \in Nat /\ n <= n_to - n_from
  <2>1. PICK l \in Int : l = n_to - n_from /\ l = Node!GetDataLen /\ l >= 0
    BY DEF NodeInv, Holds, Node!GetDataLen
  <2>2. n = Node!Min({len, l}) /\ len \in Int /\ len >= 0
    BY <1>1, <2>1, NodeAssumption
  <2>3. n = IF len <= l THEN len ELSE l
    BY <2>2, LesserOf
  <2> QED BY <2>1, <2>2, <2>3
<1>3. CASE peek
  BY <1>3 DEF Node!ReadData, NodeInv
<1>4. CASE ~peek
  <2>1. /\ n_from' = n_from + n /\ n_held' = SubSeq(n_held, n + 1, Len(n_held))
        /\ UNCHANGED <<n_buff, n_to>>
    BY <1>1, <1>4 DEF Node!ReadData
  <2> QED BY <1>2, <2>1, ReadHolds, NodeAssumption DEF NodeInv
<1> QED BY <1>3, <1>4

(* The argument of a call is a sequence of bytes.                          *)
LEMMA BytesOfCall == ASSUME NEW src \in Node!BoundedSeq(Bytes, NodeMaxLen) PROVE src \in Seq(Bytes)
BY NodeAssumption DEF Node!BoundedSeq, Node!SeqOf

(* Data is pushed behind the data moved to the front, or not at all when   *)
(* the space counts as negative.                                           *)
LEMMA NodePushKeeps ==
    ASSUME NodeInv, NEW src \in Seq(Bytes), Node!Push(src)
    PROVE  NodeInv'
<1> DEFINE len == n_to - n_from
<1>1. PICK n : n = Node!Accepted(Len(src))
  OBVIOUS
<1>2. /\ n \in Int /\ n <= Len(src) /\ len + n <= NodeCapacity /\ len \in Nat /\ NodeCapacity \in Nat
  <2>1. len \in Nat /\ NodeCapacity \in Nat /\ Len(src) \in Nat
    BY NodeAssumption DEF NodeInv, Holds
  <2>2. n = Node!Min({Len(src), (NodeCapacity - len) - len})
    BY <1>1 DEF Node!Accepted, Node!GetDataLen
  <2>3. PICK a \in Int, b \in Int : a = Len(src) /\ b = (NodeCapacity - len) - len
    BY <2>1
  <2>4. n = Node!Min({a, b})
    BY <2>2, <2>3
  <2>5. n = IF a <= b THEN a ELSE b
    BY <2>4, LesserOf
  <2> HIDE DEF len
  <2> QED BY <2>1, <2>3, <2>5
<1>3. CASE n < 0
  <2>1. /\ n_from' = 0 /\ n_to' = len /\ n_held' = n_held
        /\ n_buff' = [i \in DOMAIN n_buff |-> IF i < len THEN n_buff[n_from + i] ELSE n_buff[i]]
    BY <1>1, <1>3 DEF Node!Push, Node!Compacted, Node!GetDataLen
  <2> QED BY <1>2, <2>1, CompactHolds DEF NodeInv
<1>4. CASE ~(n < 0)
  <2>1. /\ n_from' = 0 /\ n_to' = len + n /\ n_held' = n_held \o SubSeq(src, 1, n)
        /\ n_buff' = [i \in DOMAIN n_buff |->
               IF i \in len .. len + n - 1 THEN src[i - len + 1] ELSE Node!Compacted[i]]
    BY <1>1, <1>4 DEF Node!Push, Node!GetDataLen
  <2>2. /\ DOMAIN n_buff' = DOMAIN n_buff
        /\ \A i \in DOMAIN n_buff :
              n_buff'[i] = IF i \in len .. len + n - 1 THEN src[i - len + 1]
                           ELSE IF i < len THEN n_buff[n_from + i] ELSE n_buff[i]
    BY <2>1 DEF Node!Compacted, Node!GetDataLen
  <2>3. n \in Nat
    BY <1>2, <1>4
  <2>4. PICK l : l = len
    OBVIOUS
  <2>5. Holds(Bytes, NodeCapacity, n_buff', 0, l + n, n_held \o SubSeq(src, 1, n))
    BY <1>2, <2>2, <2>3, <2>4, PushHolds DEF NodeInv
  <2> QED BY <2>1, <2>4, <2>5 DEF NodeInv
<1> QED BY <1>3, <1>4

(* AdjustLen drops what is behind the new end.                             *)
LEMMA NodeShrinkKeeps ==
    ASSUME NodeInv, NEW diff \in 1 .. NodeMaxLen, Node!Shrink(diff)
    PROVE  NodeInv'
<1>1. PICK n : n = Node!Min({Node!GetDataLen, diff})
  OBVIOUS
<1>2. n \in Nat /\ n <= n_to - n_from
  <2>1. PICK l \in Int : l = n_to - n_from /\ l = Node!GetDataLen /\ l >= 0
    BY DEF NodeInv, Holds, Node!GetDataLen
  <2>2. n = Node!Min({l, diff}) /\ diff \in Int /\ diff >= 0
    BY <1>1, <2>1, NodeAssumption
  <2>3. n = IF l <= diff THEN l ELSE diff
    BY <2>2, LesserOf
  <2> QED BY <2>1, <2>2, <2>3
<1>3. /\ n_from' = n_from /\ n_to' = n_to - n
      /\ n_held' = SubSeq(n_held, 1, Len(n_held) - n)
      /\ n_buff' = Node!Cleared(n_buff, n_to - n)
  BY <1>1 DEF Node!Shrink
<1>4. DOMAIN n_buff' = DOMAIN n_buff /\ \A i \in DOMAIN n_buff : i < n_to - n => n_buff'[i] = n_buff[i]
  BY <1>3 DEF Node!Cleared
<1> QED BY <1>2, <1>3, <1>4, ShrinkHolds, NodeAssumption DEF NodeInv

(* AdjustLen of an empty buffer takes in what was copied into it.          *)
LEMMA NodeFillKeeps ==
    ASSUME NodeInv, NEW src \in Seq(Bytes), Node!Fill(src)
    PROVE  NodeInv'
<1>1. PICK n : n = Node!Min({NodeCapacity, Len(src)})
  OBVIOUS
<1>2. n \in Nat /\ n <= NodeCapacity /\ n <= Len(src)
  <2>1. PICK a \in Nat, b \in Nat : a = NodeCapacity /\ b = Len(src)
    BY NodeAssumption
  <2>2. n = Node!Min({a, b})
    BY <1>1, <2>1
  <2>3. n = IF a <= b THEN a ELSE b
    BY <2>2, LesserOf
  <2> QED BY <2>1, <2>3
<1>3. /\ n_from = 0 /\ n_from' = 0 /\ n_to' = n /\ n_held' = SubSeq(src, 1, n)
      /\ n_buff' = [i \in DOMAIN n_buff |-> IF i < n THEN src[i + 1] ELSE Node!Zero]
  BY <1>1 DEF Node!Fill
<1>4. DOMAIN n_buff' = 0 .. NodeCapacity - 1
  BY <1>3 DEF NodeInv, Holds
<1>5. n_held' \in Seq(Bytes) /\ Len(n_held') = n /\ \A i \in 1 .. n : n_held'[i] = src[i]
  BY <1>2, <1>3
<1>6. ASSUME NEW i \in 1 .. n PROVE n_buff'[0 + (i - 1)] = n_held'[i]
  <2>1. PICK j : j = i - 1
    OBVIOUS
  <2>2. j \in 0 .. NodeCapacity - 1 /\ j < n /\ j + 1 = i /\ 0 + (i - 1) = j
    BY <2>1, <1>2, NodeAssumption
  <2>3. n_buff'[j] = src[j + 1]
    BY <2>2, <1>3, <1>4
  <2> QED BY <2>2, <2>3, <1>5
<1>7. n - 0 = n
  BY <1>2
<1> QED BY <1>2, <1>3, <1>4, <1>5, <1>6, <1>7 DEF NodeInv, Holds

(* So no call of the buffer breaks its invariant.                          *)
LEMMA NodeNextKeeps == NodeInv /\ Node!nNext => NodeInv'
<1> SUFFICES ASSUME NodeInv, Node!nNext PROVE NodeInv'
  OBVIOUS
<1>1. CASE Node!GetSpaceLen
  <2>1. /\ n_from' = 0 /\ n_to' = n_to - n_from /\ n_held' = n_held
        /\ n_buff' = [i \in DOMAIN n_buff |->
                         IF i < n_to - n_from THEN n_buff[n_from + i] ELSE n_buff[i]]
    BY <1>1 DEF Node!GetSpaceLen, Node!Compacted, Node!GetDataLen
  <2> QED BY <2>1, CompactHolds, NodeAssumption DEF NodeInv
<1>2. CASE \E src \in Node!BoundedSeq(Bytes, NodeMaxLen) : Node!Push(src) \/ Node!Fill(src)
  BY <1>2, BytesOfCall, NodePushKeeps, NodeFillKeeps
<1>3. CASE \E len \in 0 .. NodeMaxLen, peek \in BOOLEAN : Node!ReadData(len, peek)
  BY <1>3, NodeReadKeeps
<1>4. CASE \E diff \in 1 .. NodeMaxLen : Node!Shrink(diff)
  BY <1>4, NodeShrinkKeeps
<1> QED BY <1>1, <1>2, <1>3, <1>4 DEF Node!nNext

(* The invariant says that the bytes are in order.                         *)
LEMMA NodeInOrder == NodeInv => Node!BytesInOrder
BY HoldsData DEF NodeInv, Holds, Node!BytesInOrder, Node!Data, Node!GetDataLen

\* the members that Parse goes on from
Parsed == [status |-> m_hStatus, handled |-> m_nHandledEnd, code |-> m_nHttpCode,
           headers |-> m_mHeaders, bodys |-> m_mBodys, unlucky |-> unlucky]

\* the state s is right for the n symbols d of what r says
RightSoFar(r, n, d, s) ==
    Pushed(Text(r), n, d) /\ \E Q : Laid(Text(r), r, Q) /\ Good(s, Text(r), r, Q, n)

(* The buffer of the response parser, and what was parsed of it.           *)
PipeInv ==
    /\ Holds(Symbols, Capacity, buff, from, to, held)
    /\ response \in Responses /\ sent \in Nat
    /\ RightSoFar(response, sent, held, Parsed)
    /\ (parsed /\ sent = Len(Text(response)) /\ response.complete) => m_hStatus = "End"

(* The parser starts with an empty buffer and a response to be sent.       *)
LEMMA PipeInitially == HttpInit => PipeInv
<1> SUFFICES ASSUME HttpInit PROVE PipeInv
  OBVIOUS
<1>1. /\ DOMAIN buff = 0 .. Capacity - 1 /\ from = 0 /\ to = 0 /\ held = << >>
      /\ response \in Responses /\ sent = 0 /\ m_hStatus = "Start" /\ m_mBodys = << >> /\ ~parsed
  BY DEF HttpInit, init
<1>2. Holds(Symbols, Capacity, buff, from, to, held)
  BY <1>1, BytesAssumption DEF Holds
<1>3. Sendable(response)
  BY <1>1, ResponsesSendable
<1>4. PICK T : T = Text(response)
  OBVIOUS
<1>5. PICK Q : Laid(T, response, Q)
  BY <1>3, <1>4, TextLaid DEF Sendable
<1>6. Pushed(T, 0, << >>)
  <2>1. T \in Seq(Symbols)
    BY <1>5 DEF Laid
  <2>2. 0 \in 0 .. Len(T) /\ << >> \in Seq(Symbols) /\ Len(<< >>) = 0
    BY <2>1, EmptySeq
  <2> QED BY <2>2 DEF Pushed
<1>7. Good(Parsed, T, response, Q, 0)
  BY <1>1 DEF Good, IsState, Parsed
<1> QED BY <1>1, <1>2, <1>4, <1>5, <1>6, <1>7 DEF PipeInv, RightSoFar

\* the buffer takes in the first m symbols of src, which are e
Accepts(src, m, e) == m \in 0 .. Len(src) /\ PartOf(Symbols, src, 0, m, e)

(* What is pushed enters the buffer behind what it holds, as far as it is  *)
(* accepted.                                                               *)
LEMMA PushEnters ==
    ASSUME Holds(Symbols, Capacity, buff, from, to, held), NEW src \in Seq(Symbols), Push(src)
    PROVE  /\ Holds(Symbols, Capacity, buff', from', to', held')
           /\ \E m, e : Accepts(src, m, e) /\ held' = held \o e
<1> DEFINE len == to - from
<1>2. PICK n : n = Accepted(Len(src))
  OBVIOUS
<1>3. /\ n \in Int /\ n <= Len(src) /\ len + n <= Capacity /\ len \in Nat /\ Capacity \in Nat
  <2>1. len \in Nat /\ Capacity \in Nat /\ Len(src) \in Nat
    BY BytesAssumption DEF Holds
  <2>2. n = Min({Len(src), (Capacity - len) - len})
    BY <1>2 DEF Accepted, GetDataLen
  <2>3. PICK a \in Int, b \in Int : a = Len(src) /\ b = (Capacity - len) - len
    BY <2>1
  <2>4. n = Min({a, b})
    BY <2>2, <2>3
  <2>5. n = IF a <= b THEN a ELSE b
    BY <2>4, PipeLesserOf
  <2> HIDE DEF len
  <2> QED BY <2>1, <2>3, <2>5
<1>4. CASE n < 0
  <2>1. /\ from' = 0 /\ to' = len /\ held' = held
        /\ buff' = [i \in DOMAIN buff |-> IF i < len THEN buff[from + i] ELSE buff[i]]
    BY <1>2, <1>4 DEF Push, Compacted, GetDataLen
  <2>3. Holds(Symbols, Capacity, buff', 0, len, held)
    BY <1>3, <2>1, CompactHolds
  <2>4. PICK e : e = << >>
    OBVIOUS
  <2>5. Accepts(src, 0, e)
    <3>1. SubSeq(src, 0 + 1, 0 + 0) = << >> /\ 0 + 0 <= Len(src) /\ 0 \in 0 .. Len(src)
      BY SubSeqEmpty
    <3> QED BY <2>4, <3>1 DEF Accepts, PartOf
  <2>6. held \o e = held
    BY <2>4 DEF Holds
  <2> QED BY <2>1, <2>3, <2>5, <2>6
<1>5. CASE ~(n < 0)
  <2>1. /\ from' = 0 /\ to' = len + n /\ held' = held \o SubSeq(src, 1, n)
        /\ buff' = [i \in DOMAIN buff |->
               IF i \in len .. len + n - 1 THEN src[i - len + 1] ELSE Compacted[i]]
    BY <1>2, <1>5 DEF Push, GetDataLen
  <2>2. /\ DOMAIN buff' = DOMAIN buff
        /\ \A i \in DOMAIN buff :
              buff'[i] = IF i \in len .. len + n - 1 THEN src[i - len + 1]
                         ELSE IF i < len THEN buff[from + i] ELSE buff[i]
    BY <2>1 DEF Compacted, GetDataLen
  <2>3. n \in Nat
    BY <1>3, <1>5
  <2>4. PICK l : l = len
    OBVIOUS
  <2>5. Holds(Symbols, Capacity, buff', 0, l + n, held \o SubSeq(src, 1, n))
    BY <1>3, <2>2, <2>3, <2>4, PushHolds
  <2>6. PICK e : e = SubSeq(src, 1, n)
    OBVIOUS
  <2>7. Accepts(src, n, e)
    <3>1. 0 + 1 = 1 /\ 0 + n = n /\ n <= Len(src) /\ n \in 0 .. Len(src)
      BY <1>3, <2>3
    <3> QED BY <2>6, <3>1 DEF Accepts, PartOf
  <2>8. held' = held \o e
    BY <2>1, <2>6
  <2> QED BY <2>1, <2>4, <2>5, <2>7, <2>8
<1> QED BY <1>4, <1>5

(* The next symbols of the response enter the buffer of the parser.        *)
LEMMA PushDataKeeps ==
    ASSUME PipeInv, NEW k \in 1 .. Len(Text(response)), PushData(k)
    PROVE  PipeInv'
<1>1. PICK T : T = Text(response)
  OBVIOUS
<1>2. PICK Q : Laid(T, response, Q) /\ Good(Parsed, T, response, Q, sent) /\ Pushed(T, sent, held)
  BY <1>1 DEF PipeInv, RightSoFar
<1>3. PICK n, h : n \in Nat /\ n = sent /\ h = held /\ Pushed(T, n, h) /\ Good(Parsed, T, response, Q, n)
  BY <1>2 DEF PipeInv
<1>4. PICK j \in Nat : j = k
  OBVIOUS
<1>5. PICK src : src = SubSeq(T, n + 1, n + j)
  OBVIOUS
<1>6. PartOf(Symbols, T, n, j, src)
  <2>1. n + j <= Len(T)
    BY <1>1, <1>3, <1>4 DEF PushData
  <2>2. T \in Seq(Symbols)
    BY <1>2 DEF Laid
  <2> QED BY <1>5, <2>1, <2>2 DEF PartOf
<1>7. PartPlaced(Symbols, T, n, j, src)
  BY <1>3, <1>6, PartPlaces
<1>8. src \in Seq(Symbols) /\ Len(src) = j
  BY <1>7 DEF PartPlaced
<1>9. Push(src)
  BY <1>1, <1>3, <1>4, <1>5 DEF PushData
<1>10. /\ sent' = n + Len(held') - Len(h) /\ ~parsed' /\ response' = response /\ Parsed' = Parsed
  BY <1>3 DEF PushData, Parsed
<1>11. Holds(Symbols, Capacity, buff', from', to', held')
  BY <1>8, <1>9, PushEnters DEF PipeInv
<1>12. PICK m, e : Accepts(src, m, e) /\ held' = h \o e
  BY <1>3, <1>8, <1>9, PushEnters DEF PipeInv
<1>13. m \in 0 .. j /\ PartOf(Symbols, src, 0, m, e)
  BY <1>8, <1>12 DEF Accepts
<1>14. PICK c : c = held'
  OBVIOUS
<1>15. Pushed(T, n + m, c)
  BY <1>3, <1>6, <1>12, <1>13, <1>14, PushedMore
<1>16. PICK x \in Nat : x = n + m /\ n <= x /\ x <= Len(T)
  BY <1>3, <1>13, <1>15 DEF Pushed
<1>17. sent' = x
  <2>1. Len(c) = n + m /\ Len(h) = n
    BY <1>3, <1>15 DEF Pushed
  <2> QED BY <1>10, <1>14, <1>16, <2>1
<1>18. Good(Parsed, T, response, Q, x)
  <2>1. Order(T, response, Q, HeadLen(response), Len(response.chunks))
    BY <1>2, ResponsesSendable, LaidOrder DEF Sendable, PipeInv
  <2>2. x \in n .. Len(T)
    <3>1. T \in Seq(Symbols)
      BY <1>2 DEF Laid
    <3> QED BY <1>16, <3>1
  <2> QED BY <1>3, <2>1, <2>2, MoreIsGood
<1>19. RightSoFar(response, sent, held, Parsed)'
  BY <1>1, <1>2, <1>10, <1>14, <1>15, <1>16, <1>17, <1>18 DEF RightSoFar
<1> QED BY <1>10, <1>11, <1>16, <1>17, <1>19 DEF PipeInv

(* What Parse makes of the state s.                                        *)
ParsedLine(s) == IF s.status = "Start" THEN parseResponse(s) ELSE s
ParsedHead(s) == IF s.status = "Response" THEN parseHeaders(s) ELSE s
ParsedBody(s, beyond) == IF s.status = "Headers" THEN parseBody(s, beyond) ELSE s

(* Parse is these three phases.                                            *)
LEMMA ParseSteps ==
    ASSUME NEW beyond, Parse(beyond)
    PROVE  LET t == ParsedBody(ParsedHead(ParsedLine(Parsed)), beyond)
           IN  /\ m_hStatus' = t.status /\ m_nHandledEnd' = t.handled /\ m_nHttpCode' = t.code
               /\ m_mHeaders' = t.headers /\ m_mBodys' = t.bodys /\ unlucky' = t.unlucky
BY Zenon DEF Parse, Parsed, ParsedLine, ParsedHead, ParsedBody

(* Parse reads the buffer, and goes on from where it was.                  *)
LEMMA ParseKeeps ==
    ASSUME PipeInv, NEW beyond, Parse(beyond)
    PROVE  PipeInv'
<1>1. PICK r, n, d : r = response /\ n = sent /\ d = held
  OBVIOUS
<1>2. Sendable(r) /\ n \in Nat
  BY <1>1, ResponsesSendable DEF PipeInv
<1>3. PICK T : T = Text(r)
  OBVIOUS
<1>4. PICK Q : Laid(T, r, Q) /\ Good(Parsed, T, r, Q, n) /\ Pushed(T, n, d)
  BY <1>1, <1>3 DEF PipeInv, RightSoFar
<1>5. d = Data
  BY <1>1, HoldsData DEF PipeInv, Data, GetDataLen
<1>6. PICK s : s = Parsed
  OBVIOUS
<1>7. PICK s1 : s1 = ParsedLine(s)
  OBVIOUS
<1>8. PICK s2 : s2 = ParsedHead(s1)
  OBVIOUS
<1>9. PICK t : t = ParsedBody(s2, beyond)
  OBVIOUS
<1>10. Good(s1, T, r, Q, n) /\ (n >= 3 => s1.status # "Start")
  <2>1. s1 = IF s.status = "Start" THEN parseResponse(s) ELSE s
    BY <1>7 DEF ParsedLine
  <2> QED BY <1>2, <1>4, <1>5, <1>6, <2>1, LineParsed
<1>11. /\ Good(s2, T, r, Q, n)
       /\ (s1.status # "Start" /\ r.headers # << >> /\ HeadLen(r) <= n) => s2.status \in {"Headers", "End"}
  <2>1. s2 = IF s1.status = "Response" THEN parseHeaders(s1) ELSE s1
    BY <1>8 DEF ParsedHead
  <2> QED BY <1>2, <1>4, <1>5, <1>10, <2>1, HeadParsed
<1>12. /\ Good(t, T, r, Q, n)
       /\ (r.complete /\ n = Len(T) /\ s2.status \in {"Headers", "End"}) => t.status = "End"
  <2>1. t = IF s2.status = "Headers" THEN parseBody(s2, beyond) ELSE s2
    BY <1>9 DEF ParsedBody
  <2> QED BY <1>2, <1>4, <1>5, <1>11, <2>1, BodyParsed
<1>13. Order(T, r, Q, HeadLen(r), Len(r.chunks))
  BY <1>2, <1>4, LaidOrder DEF Sendable
<1>14. (r.complete /\ n = Len(T)) => t.status = "End"
  <2>1. r.complete => r.headers # << >>
    BY <1>2 DEF Sendable
  <2>2. HeadLen(r) <= Len(T) /\ HeadLen(r) >= 3 /\ HeadLen(r) \in Nat /\ Len(T) \in Nat
    BY <1>13 DEF Order
  <2> QED BY <1>10, <1>11, <1>12, <2>1, <2>2
<1>15. /\ m_hStatus' = t.status /\ m_nHandledEnd' = t.handled /\ m_nHttpCode' = t.code
       /\ m_mHeaders' = t.headers /\ m_mBodys' = t.bodys /\ unlucky' = t.unlucky
  BY <1>6, <1>7, <1>8, <1>9, ParseSteps
<1>16. Parsed' = t
  BY <1>12, <1>15 DEF Parsed, Good, IsState
<1>17. UNCHANGED <<buff, from, to, held, response, sent>>
  BY DEF Parse, nvars
<1>18. RightSoFar(r, n, d, t)
  BY <1>3, <1>4, <1>12 DEF RightSoFar
<1>19. RightSoFar(response, sent, held, Parsed)'
  BY <1>1, <1>16, <1>17, <1>18
<1> QED BY <1>1, <1>3, <1>14, <1>15, <1>17, <1>19 DEF PipeInv

(* No step of the parser breaks its invariant.                             *)
LEMMA HttpNextKeeps == PipeInv /\ HttpNext => PipeInv'
<1> SUFFICES ASSUME PipeInv, HttpNext PROVE PipeInv'
  OBVIOUS
<1>1. CASE \E k \in 1 .. Len(Text(response)) : PushData(k)
  BY <1>1, PushDataKeeps
<1>2. CASE \E beyond \in BOOLEAN : Parse(beyond)
  BY <1>2, ParseKeeps
<1> QED BY <1>1, <1>2 DEF HttpNext

(* The invariant says that the bytes of the parser are in order.           *)
LEMMA PipeInOrder == PipeInv => BytesInOrder
BY HoldsData DEF PipeInv, Holds, BytesInOrder, Data, GetDataLen

(* It says that the pieces are those that were sent.                       *)
LEMMA PipePieces == PipeInv => PiecesAsSent
<1> SUFFICES ASSUME PipeInv PROVE PiecesAsSent
  OBVIOUS
<1>1. PICK r, n : r = response /\ n = sent
  OBVIOUS
<1>2. Sendable(r) /\ n \in Nat
  BY <1>1, ResponsesSendable DEF PipeInv
<1>3. PICK T : T = Text(r)
  OBVIOUS
<1>4. PICK Q : Laid(T, r, Q) /\ Good(Parsed, T, r, Q, n)
  BY <1>1, <1>3 DEF PipeInv, RightSoFar
<1>5. /\ Parsed.status = m_hStatus /\ Parsed.code = m_nHttpCode /\ Parsed.headers = m_mHeaders
      /\ Parsed.bodys = m_mBodys
  BY DEF Parsed
<1>6. m_hStatus # "Start" => m_nHttpCode = CodeOf[r.line]
  BY <1>4, <1>5 DEF Good
<1>7. m_hStatus \in {"Start", "Response", "Headers", "End"}
  BY <1>4, <1>5 DEF Good
<1>8. r.headers \in Seq(DOMAIN NameOf) /\ r.chunks \in Seq(Seq(STRING))
  BY <1>2 DEF Sendable, Typed
<1>9. ASSUME m_hStatus \notin {"Start", "Response"}, NEW i \in DOMAIN r.headers,
             \A j \in 1 .. i - 1 : NameOf[r.headers[j]] # NameOf[r.headers[i]]
      PROVE  NameOf[r.headers[i]] \in DOMAIN m_mHeaders /\ m_mHeaders[NameOf[r.headers[i]]] = r.headers[i]
  <2>1. r.headers # << >> /\ i \in 1 .. Len(r.headers)
    BY <1>8
  <2>2. HeadersKept(r, m_mHeaders)
    BY <1>4, <1>5, <1>7, <1>9, <2>1 DEF Good, HasHead
  <2> QED BY <1>9, <2>1, <2>2 DEF HeadersKept
<1>10. ASSUME r.chunks # << >> PROVE IsPrefix(m_mBodys, r.chunks)
  <2>1. PICK k \in 0 .. Len(r.chunks) : m_mBodys = SubSeq(r.chunks, 1, k)
    <3>1. CASE m_hStatus \in {"Headers", "End"}
      <4>1. HasChunks(Parsed, r, Q, n)
        BY <1>4, <1>5, <1>10, <3>1 DEF Good
      <4> QED BY <1>5, <1>8, <4>1 DEF HasChunks, Taken
    <3>2. CASE m_hStatus \in {"Start", "Response"}
      <4>1. m_mBodys = << >>
        BY <1>4, <1>5, <3>2 DEF Good
      <4>2. SubSeq(r.chunks, 1, 0) = << >>
        BY SubSeqEmpty
      <4>3. Len(r.chunks) \in Nat /\ 0 \in 0 .. Len(r.chunks)
        BY <1>8
      <4> QED BY <4>1, <4>2, <4>3
    <3> QED BY <1>7, <3>1, <3>2
  <2>2. PICK cs \in Seq(Seq(STRING)) : cs = r.chunks
    BY <1>8
  <2>3. PICK b : b = SubSeq(cs, 1, k)
    OBVIOUS
  <2>4. b \in Seq(Seq(STRING)) /\ Len(b) = k /\ \A i \in 1 .. k : b[i] = cs[i]
    BY <2>1, <2>2, <2>3
  <2>5. Len(b) <= Len(cs) /\ SubSeq(cs, 1, Len(b)) = b
    BY <2>1, <2>2, <2>3, <2>4
  <2> QED BY <2>1, <2>2, <2>3, <2>5 DEF IsPrefix
<1> QED BY <1>1, <1>6, <1>9, <1>10 DEF PiecesAsSent

(* It says that the end is found with the whole body.                      *)
LEMMA PipeEnds == PipeInv => EndIsComplete
<1> SUFFICES ASSUME PipeInv PROVE EndIsComplete
  OBVIOUS
<1>1. PICK T : T = Text(response)
  OBVIOUS
<1>2. PICK Q : Good(Parsed, T, response, Q, sent)
  BY <1>1 DEF PipeInv, RightSoFar
<1>3. /\ Parsed.status = m_hStatus /\ Parsed.headers = m_mHeaders /\ Parsed.bodys = m_mBodys
      /\ Parsed.unlucky = unlucky
  BY DEF Parsed
<1>4. (response.complete /\ m_hStatus = "End" /\ ~unlucky) => Complete(Parsed, T, response, sent)
  BY <1>2, <1>3 DEF Good
<1>5. (parsed /\ sent = Len(T) /\ response.complete) => m_hStatus = "End"
  BY <1>1 DEF PipeInv
<1> QED BY <1>1, <1>3, <1>4, <1>5 DEF EndIsComplete, Complete

BuffersInv == (which = "node" => NodeInv) /\ (which = "http" => PipeInv)

(* The buffers stay as they are while other parts move.                    *)
LEMMA BuffersStay ==
    /\ NodeInv /\ UNCHANGED n_vars => NodeInv'
    /\ PipeInv /\ UNCHANGED h_vars => PipeInv'
<1>1. NodeInv /\ UNCHANGED n_vars => NodeInv'
  BY DEF NodeInv, n_vars
<1>2. ASSUME PipeInv, UNCHANGED h_vars PROVE PipeInv'
  <2>1. UNCHANGED <<buff, from, to, held, response, sent, parsed, m_hStatus>> /\ Parsed' = Parsed
    BY <1>2 DEF h_vars, nvars, hvars, Parsed
  <2>2. RightSoFar(response, sent, held, Parsed)'
    BY <1>2, <2>1 DEF PipeInv
  <2> QED BY <1>2, <2>1, <2>2 DEF PipeInv
<1> QED BY <1>1, <1>2

(* No step of any part breaks the invariant of the buffers.                *)
LEMMA BuffersStepKeep ==
    ASSUME BuffersInv,
           [AllNext]_all_vars
    PROVE  BuffersInv'
<1>1. CASE NodeStep
  BY <1>1, NodeNextKeeps DEF NodeStep, BuffersInv
<1>2. CASE HttpStep
  BY <1>2, HttpNextKeeps DEF HttpStep, BuffersInv
<1>3. CASE \/ PlusStep \/ IniStep \/ CfgStep \/ SelectStep \/ RemovalStep \/ UuidsStep \/ PackerStep
           \/ UNCHANGED all_vars
  <2>1. which' = which /\ UNCHANGED <<n_vars, h_vars>>
    BY <1>3 DEF PlusStep, IniStep, CfgStep, SelectStep, RemovalStep, UuidsStep, PackerStep, all_vars
  <2> QED BY <2>1, BuffersStay DEF BuffersInv
<1> QED BY <1>1, <1>2, <1>3 DEF AllNext

(* DataNode is a queue of the bytes it accepted, inside its memory, for    *)
(* every capacity, alone and under the response parser                     *)
(* (DataNode.cpp:45-139).                                                  *)
THEOREM BuffersStayQueues == AllSpec => []NodeBytesInOrder
<1>1. AllInit => BuffersInv
  BY NodeInitially, PipeInitially DEF AllInit, BuffersInv
<1>2. BuffersInv => NodeBytesInOrder
  BY NodeInOrder, PipeInOrder DEF NodeBytesInOrder, BuffersInv
<1> QED BY <1>1, <1>2, BuffersStepKeep, PTL DEF AllSpec

(* However a response was cut, the parser gives its code, its headers and  *)
(* its chunks as they were sent (HttpResponseParse.cpp:112-386).           *)
THEOREM ResponsesComeAsSent == AllSpec => []HttpPiecesAsSent
<1>1. AllInit => BuffersInv
  BY NodeInitially, PipeInitially DEF AllInit, BuffersInv
<1>2. BuffersInv => HttpPiecesAsSent
  BY PipePieces DEF HttpPiecesAsSent, BuffersInv
<1> QED BY <1>1, <1>2, BuffersStepKeep, PTL DEF AllSpec

(* The end of a response that has one is found when it was pushed whole    *)
(* and then parsed, with its whole body, and not before, but for the cuts  *)
(* that EndIsComplete names (HttpResponseParse.cpp:302-386).               *)
THEOREM ResponsesEndWhole == AllSpec => []HttpEndIsComplete
<1>1. AllInit => BuffersInv
  BY NodeInitially, PipeInitially DEF AllInit, BuffersInv
<1>2. BuffersInv => HttpEndIsComplete
  BY PipeEnds DEF HttpEndIsComplete, BuffersInv
<1> QED BY <1>1, <1>2, BuffersStepKeep, PTL DEF AllSpec

-----------------------------------------------------------------------------
(***************************************************************************)
(* The configuration reader.  Each scan adds the first values of the keys  *)
(* it reads for the first time, so that FirstRead is kept by each scan.    *)
(***************************************************************************)
LEMMA CfgMin ==
    ASSUME NEW T \in SUBSET Nat, T # {}
    PROVE  Cfg!Min(T) \in T /\ \A m \in T : Cfg!Min(T) <= m
BY LeastNumber DEF Cfg!Min

(* The lines of a text that give a key of a section a value.               *)
Giving(text, section, key) ==
    {i \in DOMAIN text : /\ text[i].kind = "field" /\ text[i].name = key
                         /\ Cfg!SectionAt(text, i) = section}

(* What a text says of a key is on the first line that gives it a value.   *)
LEMMA SaysFirst ==
    ASSUME NEW text, DOMAIN text \subseteq Nat, NEW section, NEW key
    PROVE  /\ Giving(text, section, key) = {} => Cfg!Says(text, section, key) = {}
           /\ Giving(text, section, key) # {} =>
                 /\ Cfg!Min(Giving(text, section, key)) \in Giving(text, section, key)
                 /\ Cfg!Says(text, section, key) = {text[Cfg!Min(Giving(text, section, key))].val}
<1>1. PICK at : at = Giving(text, section, key)
  OBVIOUS
<1>2. /\ at \in SUBSET Nat /\ at \subseteq DOMAIN text
      /\ Cfg!Says(text, section, key) = {text[i].val : i \in {j \in at : \A x \in at : j <= x}}
  BY <1>1 DEF Giving, Cfg!Says
<1>3. CASE at = {}
  BY <1>1, <1>2, <1>3
<1>4. CASE at # {}
  <2>1. PICK m : m = Cfg!Min(at)
    OBVIOUS
  <2>2. m \in at /\ \A x \in at : m <= x
    BY <1>2, <1>4, <2>1, CfgMin
  <2>3. {j \in at : \A x \in at : j <= x} = {m}
    <3>1. \A j \in at : (\A x \in at : j <= x) => j = m
      BY <1>2, <2>2
    <3> QED BY <2>2, <3>1
  <2>4. Cfg!Says(text, section, key) = {text[m].val}
    BY <1>2, <2>3
  <2> QED BY <1>1, <1>4, <2>1, <2>2, <2>4
<1> QED BY <1>3, <1>4

(* The lines of a scan are some of those of the text.                      *)
LEMMA ReadLines ==
    ASSUME NEW text \in CfgTexts
    PROVE  /\ Cfg!LinesRead(text) \in Seq([kind : STRING, name : STRING, val : STRING])
           /\ \A i \in DOMAIN Cfg!LinesRead(text) :
                 Cfg!LinesRead(text)[i].kind = "field" => Cfg!LinesRead(text)[i].val # None
           /\ Cfg!Ends(text) = {} => Cfg!LinesRead(text) = text
<1>1. PICK TextLines : TextLines = [kind : STRING, name : STRING, val : STRING]
  OBVIOUS
<1>2. /\ text \in Seq(TextLines) /\ Len(text) \in Nat /\ DOMAIN text = 1 .. Len(text)
      /\ \A i \in DOMAIN text : text[i].kind = "field" => text[i].val # None
  BY <1>1, CfgAssumption
<1>3. PICK n : n = IF Cfg!Ends(text) = {} THEN Len(text) ELSE Cfg!Min(Cfg!Ends(text)) - 1
  OBVIOUS
<1>4. n \in 0 .. Len(text) /\ (Cfg!Ends(text) = {} => n = Len(text))
  <2>1. CASE Cfg!Ends(text) = {}
    BY <2>1, <1>2, <1>3
  <2>2. CASE Cfg!Ends(text) # {}
    <3>1. Cfg!Ends(text) \in SUBSET Nat /\ Cfg!Ends(text) \subseteq 1 .. Len(text)
      BY <1>2 DEF Cfg!Ends
    <3>2. Cfg!Min(Cfg!Ends(text)) \in 1 .. Len(text)
      BY <2>2, <3>1, CfgMin
    <3> QED BY <2>2, <3>2, <1>2, <1>3
  <2> QED BY <2>1, <2>2
<1>5. PICK lines : lines = SubSeq(text, 1, n)
  OBVIOUS
<1>6. /\ lines \in Seq(TextLines) /\ Len(lines) = n /\ DOMAIN lines = 1 .. n
      /\ \A i \in 1 .. n : lines[i] = text[i] /\ i \in DOMAIN text
  <2>1. 1 \in 1 .. Len(text) + 1 /\ n \in 0 .. Len(text)
    <3>1. PICK l \in Nat : l = Len(text)
      BY <1>2
    <3>2. 1 \in 1 .. l + 1
      OBVIOUS
    <3> QED BY <3>1, <3>2, <1>4
  <2>2. /\ lines \in Seq(TextLines)
        /\ Len(lines) = IF 1 <= n THEN n - 1 + 1 ELSE 0
        /\ \A i \in 1 .. n - 1 + 1 : lines[i] = text[1 + i - 1]
    BY <1>2, <1>5, <2>1, SubSeqProperties
  <2>3. Len(lines) = n /\ DOMAIN lines = 1 .. n
    BY <2>1, <2>2
  <2>4. ASSUME NEW i \in 1 .. n PROVE lines[i] = text[i] /\ i \in DOMAIN text
    <3>1. i \in 1 .. n - 1 + 1 /\ 1 + i - 1 = i /\ i \in 1 .. Len(text)
      BY <2>1, <1>2
    <3> QED BY <3>1, <2>2, <1>2
  <2> QED BY <2>2, <2>3, <2>4
<1>7. n = Len(text) => lines = text
  <2>1. lines = [i \in 1 .. n |-> lines[i]] /\ text = [i \in 1 .. Len(text) |-> text[i]]
    BY <1>2, <1>6
  <2> QED BY <2>1, <1>6
<1>8. Cfg!LinesRead(text) = lines
  BY <1>3, <1>5 DEF Cfg!LinesRead
<1> QED BY <1>1, <1>2, <1>4, <1>6, <1>7, <1>8

(* A scan adds the first values of the keys that it reads and that are not *)
(* there.                                                                  *)
LEMMA InsertedFirst ==
    ASSUME NEW dict, NEW text \in CfgTexts, NEW section, NEW key,
           NEW p, p = <<section, key>>, NEW lines, lines = Cfg!LinesRead(text),
           NEW now, now = Cfg!Inserted(dict, text)
    PROVE  /\ (p \in DOMAIN now) = (p \in DOMAIN dict \/ Cfg!Says(lines, section, key) # {})
           /\ p \in DOMAIN dict => now[p] = dict[p]
           /\ p \in DOMAIN now \ DOMAIN dict => Cfg!Says(lines, section, key) = {now[p]} /\ now[p] # None
<1>1. DOMAIN lines \subseteq Nat /\ \A i \in DOMAIN lines : lines[i].kind = "field" => lines[i].val # None
  BY ReadLines
<1>2. PICK fields : fields = {i \in DOMAIN lines : lines[i].kind = "field"}
  OBVIOUS
<1>3. /\ DOMAIN now = DOMAIN dict \cup {Cfg!At(lines, i) : i \in fields}
      /\ \A q \in DOMAIN now : now[q] = IF q \in DOMAIN dict THEN dict[q]
                               ELSE lines[Cfg!Min({i \in fields : Cfg!At(lines, i) = q})].val
  BY <1>2 DEF Cfg!Inserted
<1>4. PICK at : at = Giving(lines, section, key)
  OBVIOUS
<1>5. at = {i \in fields : Cfg!At(lines, i) = p} /\ at \subseteq DOMAIN lines
  BY <1>2, <1>4 DEF Giving, Cfg!At
<1>6. (p \in DOMAIN now) = (p \in DOMAIN dict \/ at # {})
  BY <1>3, <1>5
<1>7. /\ at = {} => Cfg!Says(lines, section, key) = {}
      /\ at # {} => Cfg!Min(at) \in at /\ Cfg!Says(lines, section, key) = {lines[Cfg!Min(at)].val}
  BY <1>1, <1>4, SaysFirst
<1>8. p \in DOMAIN dict => now[p] = dict[p]
  BY <1>3
<1>9. ASSUME p \in DOMAIN now \ DOMAIN dict
      PROVE  Cfg!Says(lines, section, key) = {now[p]} /\ now[p] # None
  <2>1. at # {}
    BY <1>6, <1>9
  <2>2. now[p] = lines[Cfg!Min(at)].val
    BY <1>3, <1>5, <1>9
  <2>3. lines[Cfg!Min(at)].val # None
    BY <2>1, <1>1, <1>2, <1>5, <1>7
  <2> QED BY <2>1, <2>2, <2>3, <1>7
<1> QED BY <1>6, <1>7, <1>8, <1>9

(* The scans that read a value of a key.                                   *)
Reading(scans, section, key) ==
    {i \in DOMAIN scans : Cfg!Says(Cfg!LinesRead(scans[i]), section, key) # {}}

FirstRead(dict, scans, section, key) ==
    /\ (<<section, key>> \in DOMAIN dict) = (Reading(scans, section, key) # {})
    /\ <<section, key>> \in DOMAIN dict =>
          /\ Cfg!Says(Cfg!LinesRead(scans[Cfg!Min(Reading(scans, section, key))]), section, key)
                 = {dict[<<section, key>>]}
          /\ dict[<<section, key>>] # None

(* One more scan keeps the first values first, and adds the new ones.      *)
LEMMA ScanKeepsFirst ==
    ASSUME NEW dict, NEW scans \in Seq(CfgTexts), NEW text \in CfgTexts, NEW section, NEW key,
           FirstRead(dict, scans, section, key)
    PROVE  FirstRead(Cfg!Inserted(dict, text), Append(scans, text), section, key)
<1>1. PICK now : now = Cfg!Inserted(dict, text)
  OBVIOUS
<1>2. PICK more : more = Append(scans, text)
  OBVIOUS
<1>3. PICK n \in Nat : n = Len(scans)
  OBVIOUS
<1>4. /\ DOMAIN scans = 1 .. n /\ DOMAIN more = 1 .. n + 1 /\ more[n + 1] = text
      /\ \A i \in 1 .. n : more[i] = scans[i] /\ i \in 1 .. n + 1
  BY <1>2, <1>3
<1>5. PICK p : p = <<section, key>>
  OBVIOUS
<1>6. PICK lines : lines = Cfg!LinesRead(text)
  OBVIOUS
<1>7. /\ (p \in DOMAIN now) = (p \in DOMAIN dict \/ Cfg!Says(lines, section, key) # {})
      /\ p \in DOMAIN dict => now[p] = dict[p]
      /\ p \in DOMAIN now \ DOMAIN dict => Cfg!Says(lines, section, key) = {now[p]} /\ now[p] # None
  BY <1>1, <1>5, <1>6, InsertedFirst
<1>8. PICK A, B : A = Reading(scans, section, key) /\ B = Reading(more, section, key)
  OBVIOUS
<1>9. /\ A \in SUBSET Nat /\ A \subseteq 1 .. n /\ B \in SUBSET Nat
      /\ B = A \cup (IF Cfg!Says(lines, section, key) # {} THEN {n + 1} ELSE {})
  <2>1. \A i \in 1 .. n + 1 : i \in 1 .. n \/ i = n + 1
    OBVIOUS
  <2>2. \A i : i \in A <=> i \in 1 .. n /\ Cfg!Says(Cfg!LinesRead(scans[i]), section, key) # {}
    BY <1>4, <1>8 DEF Reading
  <2>3. \A i : i \in B <=> i \in 1 .. n + 1 /\ Cfg!Says(Cfg!LinesRead(more[i]), section, key) # {}
    BY <1>4, <1>8 DEF Reading
  <2>4. n + 1 \notin 1 .. n /\ n + 1 \in 1 .. n + 1
    OBVIOUS
  <2>5. \A i \in 1 .. n : i \in A <=> i \in B
    BY <2>2, <2>3, <1>4
  <2>6. n + 1 \in B <=> Cfg!Says(lines, section, key) # {}
    BY <2>3, <2>4, <1>4, <1>6
  <2>7. A \subseteq 1 .. n /\ B \subseteq 1 .. n + 1
    BY <2>2, <2>3
  <2>8. B = A \cup (IF Cfg!Says(lines, section, key) # {} THEN {n + 1} ELSE {})
    BY <2>1, <2>4, <2>5, <2>6, <2>7
  <2> QED BY <2>7, <2>8
<1>10. /\ (p \in DOMAIN dict) = (A # {})
       /\ p \in DOMAIN dict => /\ Cfg!Says(Cfg!LinesRead(scans[Cfg!Min(A)]), section, key) = {dict[p]}
                               /\ dict[p] # None
  BY <1>5, <1>8 DEF FirstRead
<1>11. (p \in DOMAIN now) = (B # {})
  BY <1>7, <1>9, <1>10
<1>12. ASSUME p \in DOMAIN now
       PROVE  Cfg!Says(Cfg!LinesRead(more[Cfg!Min(B)]), section, key) = {now[p]} /\ now[p] # None
  <2>1. CASE p \in DOMAIN dict
    <3>1. Cfg!Min(A) \in A /\ \A i \in A : Cfg!Min(A) <= i
      BY <2>1, <1>9, <1>10, CfgMin
    <3>2. Cfg!Min(B) \in B /\ \A i \in B : Cfg!Min(B) <= i
      BY <1>9, <1>11, <1>12, CfgMin
    <3>3. Cfg!Min(A) = Cfg!Min(B)
      <4>1. PICK a, b : a = Cfg!Min(A) /\ b = Cfg!Min(B)
        OBVIOUS
      <4>2. a \in A /\ a \in B /\ a \in 1 .. n /\ b \in Nat /\ b <= a /\ b \in B
        BY <4>1, <3>1, <3>2, <1>9
      <4>3. b \in A
        BY <4>2, <1>9
      <4>4. a <= b
        BY <4>1, <4>3, <3>1
      <4> QED BY <4>1, <4>2, <4>4
    <3>4. more[Cfg!Min(B)] = scans[Cfg!Min(A)]
      BY <3>1, <3>3, <1>4, <1>9
    <3> QED BY <2>1, <3>4, <1>7, <1>10
  <2>2. CASE p \notin DOMAIN dict
    <3>1. B = {n + 1}
      BY <2>2, <1>7, <1>9, <1>10, <1>12
    <3>2. Cfg!Min(B) = n + 1
      BY <3>1, <1>9, CfgMin
    <3> QED BY <2>2, <3>2, <1>4, <1>6, <1>7, <1>12
  <2> QED BY <2>1, <2>2
<1> QED BY <1>1, <1>2, <1>5, <1>8, <1>11, <1>12 DEF FirstRead

CfgInv ==
    /\ c_file \in CfgTexts /\ c_scans \in Seq(CfgTexts)
    /\ \A section, key : FirstRead(c_cfgdict, c_scans, section, key)
    /\ c_bscan => c_scans # << >> /\ Cfg!EndsWell(Cfg!Last(c_scans))

(* Before the first scan there are no answers.                             *)
LEMMA CfgInitially == Cfg!Init => CfgInv
<1> SUFFICES ASSUME Cfg!Init PROVE CfgInv
  OBVIOUS
<1>1. c_file \in CfgTexts /\ c_scans = << >> /\ c_cfgdict = << >> /\ ~c_bscan
  BY DEF Cfg!Init
<1>2. \A section, key : FirstRead(<< >>, << >>, section, key)
  BY DEF FirstRead, Reading
<1> QED BY <1>1, <1>2 DEF CfgInv

(* A lookup scans, or not, and others change only the file.                *)
LEMMA CfgNextKeeps == CfgInv /\ Cfg!Next => CfgInv'
<1> SUFFICES ASSUME CfgInv, Cfg!Next PROVE CfgInv'
  OBVIOUS
<1>1. CASE UNCHANGED <<c_cfgdict, c_bscan, c_scans>> /\ c_file' \in CfgTexts
  BY <1>1 DEF CfgInv
<1>2. CASE /\ c_cfgdict' = Cfg!Inserted(c_cfgdict, c_file) /\ c_bscan' = Cfg!EndsWell(c_file)
           /\ c_scans' = Append(c_scans, c_file) /\ c_file' = c_file
  <2>1. \A section, key : FirstRead(c_cfgdict', c_scans', section, key)
    BY <1>2, ScanKeepsFirst DEF CfgInv
  <2>2. c_scans' \in Seq(CfgTexts) /\ c_scans' # << >> /\ Cfg!Last(c_scans') = c_file
    BY <1>2 DEF CfgInv, Cfg!Last
  <2> QED BY <1>2, <2>1, <2>2 DEF CfgInv
<1> QED BY <1>1, <1>2 DEF Cfg!Next, Cfg!GetValue, Cfg!ScanCfgFile, Cfg!Others, CfgInv

(* The invariant gives the answers.                                        *)
LEMMA CfgFirst == CfgInv => Cfg!AnswersAreFirstRead
<1> SUFFICES ASSUME CfgInv, NEW section \in CfgSections, NEW key \in CfgKeys
    PROVE  /\ Cfg!FirstValues(section, key) = {} => Cfg!GetOptValue(section, key, Cfg!None) = Cfg!None
           /\ Cfg!FirstValues(section, key) # {} =>
                 Cfg!FirstValues(section, key) = {Cfg!Answer(section, key)}
           /\ (c_bscan /\ \A i \in DOMAIN Cfg!Last(c_scans) : Cfg!Last(c_scans)[i].kind # "long") =>
                 Cfg!Says(Cfg!Last(c_scans), section, key) = {} \/ Cfg!FirstValues(section, key) # {}
           /\ (Cfg!GetOptValue(section, key, Cfg!None) = Cfg!None /\ Cfg!FirstValues(section, key) # {}) =>
                 Cfg!FirstValues(section, key) = {""}
  BY DEF Cfg!AnswersAreFirstRead
<1>1. PICK p : p = <<section, key>>
  OBVIOUS
<1>2. PICK A : A = Reading(c_scans, section, key)
  OBVIOUS
<1>3. PICK first : first = Cfg!FirstValues(section, key)
  OBVIOUS
<1>4. /\ (p \in DOMAIN c_cfgdict) = (A # {})
      /\ p \in DOMAIN c_cfgdict =>
            /\ Cfg!Says(Cfg!LinesRead(c_scans[Cfg!Min(A)]), section, key) = {c_cfgdict[p]}
            /\ c_cfgdict[p] # None
  BY <1>1, <1>2 DEF CfgInv, FirstRead
<1>5. first = IF A = {} THEN {} ELSE Cfg!Says(Cfg!LinesRead(c_scans[Cfg!Min(A)]), section, key)
  BY <1>2, <1>3 DEF Cfg!FirstValues, Reading
<1>6. Cfg!Answer(section, key) = IF p \in DOMAIN c_cfgdict THEN c_cfgdict[p] ELSE ""
  BY <1>1 DEF Cfg!Answer
<1>7. Cfg!None = None
  BY DEF Cfg!None, None
<1>8. ASSUME c_bscan, \A i \in DOMAIN Cfg!Last(c_scans) : Cfg!Last(c_scans)[i].kind # "long"
      PROVE  Cfg!Says(Cfg!Last(c_scans), section, key) = {} \/ first # {}
  <2>1. PICK text : text = Cfg!Last(c_scans)
    OBVIOUS
  <2>2. /\ c_scans \in Seq(CfgTexts) /\ c_scans # << >> /\ Len(c_scans) \in DOMAIN c_scans
        /\ text = c_scans[Len(c_scans)] /\ text \in CfgTexts
    BY <1>8, <2>1 DEF CfgInv, Cfg!Last
  <2>3. Cfg!Ends(text) = {}
    <3>1. text \in Seq([kind : STRING, name : STRING, val : STRING])
      BY <2>2, CfgAssumption
    <3>2. Cfg!Ends(text) \in SUBSET Nat /\ Cfg!Ends(text) \subseteq DOMAIN text
      BY <3>1 DEF Cfg!Ends
    <3>3. Cfg!EndsWell(text)
      BY <1>8, <2>1 DEF CfgInv
    <3>4. Cfg!Ends(text) # {} => Cfg!Min(Cfg!Ends(text)) \in DOMAIN text
      BY <3>2, CfgMin
    <3> QED BY <1>8, <2>1, <3>3, <3>4 DEF Cfg!EndsWell
  <2>4. Cfg!LinesRead(text) = text
    BY <2>2, <2>3, ReadLines
  <2>5. CASE Cfg!Says(text, section, key) # {}
    <3>1. Len(c_scans) \in A
      BY <1>2, <2>2, <2>4, <2>5 DEF Reading
    <3>2. first = {c_cfgdict[p]}
      BY <3>1, <1>4, <1>5
    <3> QED BY <3>2
  <2> QED BY <2>1, <2>5
<1>9. first = {} => Cfg!GetOptValue(section, key, Cfg!None) = Cfg!None
  BY <1>4, <1>5, <1>6 DEF Cfg!GetOptValue
<1>10. first # {} => first = {Cfg!Answer(section, key)} /\ Cfg!Answer(section, key) # Cfg!None
  BY <1>4, <1>5, <1>6, <1>7
<1>11. (Cfg!GetOptValue(section, key, Cfg!None) = Cfg!None /\ first # {}) => first = {""}
  BY <1>10 DEF Cfg!GetOptValue
<1> QED BY <1>3, <1>8, <1>9, <1>10, <1>11

(* No step of any part breaks the invariant of the reader.                 *)
LEMMA CfgStepKeeps ==
    ASSUME which = "cfg" => CfgInv,
           [AllNext]_all_vars
    PROVE  (which = "cfg" => CfgInv)'
<1>1. CASE CfgStep
  BY <1>1, CfgNextKeeps DEF CfgStep
<1>2. CASE \/ HttpStep \/ PlusStep \/ IniStep \/ RemovalStep \/ NodeStep \/ SelectStep \/ UuidsStep \/ PackerStep
           \/ UNCHANGED all_vars
  <2>1. which' = which /\ UNCHANGED c_vars
    BY <1>2 DEF HttpStep, PlusStep, IniStep, RemovalStep, NodeStep, SelectStep, UuidsStep, PackerStep, all_vars
  <2> QED BY <2>1 DEF CfgInv, c_vars
<1> QED BY <1>1, <1>2 DEF AllNext

(* CfgReader answers with the first values in the texts it scanned, for    *)
(* any texts and any changes of the file (cfg_reader.cpp:32-103).          *)
THEOREM AnswersStayFirstRead == AllSpec => []CfgAnswersAreFirstRead
<1> DEFINE Inv == which = "cfg" => CfgInv
<1>1. AllInit => Inv
  BY CfgInitially DEF AllInit
<1>2. Inv /\ [AllNext]_all_vars => Inv'
  BY CfgStepKeeps
<1>3. Inv => CfgAnswersAreFirstRead
  BY CfgFirst DEF CfgAnswersAreFirstRead
<1> QED BY <1>1, <1>2, <1>3, PTL DEF AllSpec

-----------------------------------------------------------------------------
(***************************************************************************)
(* The packer of requests: the counting pass and the writing pass agree,   *)
(* and the blocks are those that the members name.                         *)
(***************************************************************************)
PackTypes ==
    /\ k_sMethod \in Nat /\ k_sUrl \in Nat /\ k_sVersion \in Nat /\ k_spos \in Nat
    /\ k_eBody \in [buf : 0 .. 3, size : Nat] /\ k_eHole \in [buf : 0 .. 3, size : Nat]
    /\ k_heap = [b \in DOMAIN k_heap |-> k_heap[b]]
    /\ k_state \in {"alive", "destroyed", "crashed"}

PackInv == PackTypes /\ Packer!FillsItsBlocks

(* There is an address that is not in use.                                 *)
AtMost(blocks, other) == other \in 0 .. 3 /\ DOMAIN blocks \subseteq {other}

(* malloc gives an address that is not in use.                             *)
LEMMA NewBlock ==
    ASSUME NEW blocks, NEW other, AtMost(blocks, other), NEW size,
           NEW new, new = Packer!Block(blocks, size)
    PROVE  /\ new.buf \in 1 .. 3 \ DOMAIN blocks
           /\ new.heap = [x \in DOMAIN blocks \cup {new.buf} |-> IF x = new.buf THEN size ELSE blocks[x]]
<1>1. PICK b : b = CHOOSE c \in 1 .. 3 : c \notin DOMAIN blocks
  OBVIOUS
<1>2. b \in 1 .. 3 /\ b \notin DOMAIN blocks
  <2>1. \E c \in 1 .. 3 : c \notin DOMAIN blocks
    <3>1. 1 \notin DOMAIN blocks \/ 2 \notin DOMAIN blocks
      BY DEF AtMost
    <3> QED BY <3>1
  <2> QED BY <1>1, <2>1
<1>3. new = [buf |-> b, heap |-> [x \in DOMAIN blocks \cup {b} |-> IF x = b THEN size ELSE blocks[x]]]
  BY <1>1 DEF Packer!Block
<1> QED BY <1>2, <1>3

(* A length has a number of digits.                                        *)
LEMMA DigitsNatural == ASSUME NEW n PROVE Packer!Digits(n) \in Nat
<1>1. PICK low \in Int, high \in Int : low = 0 /\ high = 9
  OBVIOUS
<1>2. PICK shorter : shorter = {k \in low .. high : 10 ^ k <= n}
  OBVIOUS
<1>3. IsFiniteSet(low .. high)
  BY FS_Interval
<1>4. IsFiniteSet(shorter)
  BY <1>2, <1>3, FS_Subset
<1>5. Cardinality(shorter) \in Nat
  BY <1>4, FS_CardinalityType
<1>6. Packer!Digits(n) = Packer!Cardinality(shorter)
  BY <1>1, <1>2 DEF Packer!Digits
<1>7. Packer!Cardinality(shorter) = Cardinality(shorter)
  BY DEF Packer!Cardinality, Cardinality
<1> QED BY <1>5, <1>6, <1>7

(* The second pass writes what the first has counted.                      *)
LEMMA PassesAgree ==
    ASSUME PackTypes
    PROVE  Packer!Copied = Packer!calcTotalLen /\ Packer!calcTotalLen \in Nat
<1>1. PICK digits \in Nat : digits = Packer!Digits(k_eBody.size)
  BY DigitsNatural
<1>2. PICK size \in Nat : size = k_eBody.size
  BY DEF PackTypes
<1>3. PICK buf \in 0 .. 3 : buf = k_eBody.buf
  BY DEF PackTypes
<1>4. PICK method \in Nat, url \in Nat, version \in Nat :
          method = k_sMethod /\ url = k_sUrl /\ version = k_sVersion
  BY DEF PackTypes
<1>5. Packer!calcTotalLen =
          method + 1 + url + 1 + 5 + version + 2 + 2
              + (IF buf # 0 /\ size # 0 THEN 14 + 1 + digits + 2 ELSE 0)
              + (IF buf # 0 THEN size ELSE 0)
  BY <1>1, <1>2, <1>3, <1>4 DEF Packer!calcTotalLen, Packer!HasBody, Packer!NULL
<1>6. Packer!Copied =
          (method + 1 + url + 1 + 5 + version + 2)
              + (IF buf # 0 /\ size # 0 THEN 14 + 1 + digits + 2 ELSE 0) + 2
              + (IF buf # 0 /\ size # 0 THEN size ELSE 0)
  BY <1>1, <1>2, <1>3, <1>4 DEF Packer!Copied, Packer!HasBody, Packer!NULL
<1> QED BY <1>5, <1>6

(* A new packer has no blocks.                                             *)
LEMMA PackInitially == Packer!Init => PackInv
BY DEF Packer!Init, PackInv, PackTypes, Packer!FillsItsBlocks, Packer!Nothing, Packer!NULL

(* Method, address and version are no blocks of the packer's own.          *)
LEMMA SetLineKeeps == ASSUME PackInv, k_state = "alive", Packer!SetLine PROVE PackInv'
<1>1. PackTypes'
  BY PackerAssumption DEF Packer!SetLine, PackInv, PackTypes
<1>2. Packer!FillsItsBlocks'
  BY DEF Packer!SetLine, PackInv, Packer!FillsItsBlocks
<1> QED BY <1>1, <1>2 DEF PackInv

(* SetBody frees the old body before it allocates the new one.             *)
LEMMA SetBodyKeeps ==
    ASSUME PackInv, k_state = "alive", NEW len \in PackBodies, Packer!SetBody(len)
    PROVE  PackInv'
<1>1. PICK freed : freed = Packer!Without(k_heap, k_eBody.buf)
  OBVIOUS
<1>2. PICK new : new = Packer!Block(freed, len)
  OBVIOUS
<1>3. /\ k_eBody \in [buf : 0 .. 3, size : Nat] /\ k_eHole \in [buf : 0 .. 3, size : Nat] /\ len \in Int
      /\ DOMAIN k_heap = {k_eBody.buf, k_eHole.buf} \ {0}
      /\ k_eBody.buf # 0 => k_eBody.buf # k_eHole.buf /\ k_heap[k_eBody.buf] = k_eBody.size
      /\ k_eHole.buf # 0 => k_heap[k_eHole.buf] = k_eHole.size /\ k_spos = k_eHole.size
  BY PackerAssumption DEF PackInv, PackTypes, Packer!FillsItsBlocks, Packer!NULL
<1>4. /\ DOMAIN freed = {k_eHole.buf} \ {0} /\ freed = [b \in DOMAIN freed |-> freed[b]]
      /\ k_eHole.buf # 0 => freed[k_eHole.buf] = k_eHole.size
  BY <1>1, <1>3 DEF Packer!Without
<1>5. UNCHANGED <<k_sMethod, k_sUrl, k_sVersion, k_eHole, k_spos>>
  BY DEF Packer!SetBody
<1>6. CASE UNCHANGED <<k_eBody, k_heap, k_state>>
  BY <1>5, <1>6 DEF PackInv, PackTypes, Packer!FillsItsBlocks
<1>7. CASE len > 0 /\ k_heap' = new.heap /\ k_eBody' = [buf |-> new.buf, size |-> len] /\ k_state' = k_state
  <2>1. PICK hole \in 0 .. 3 : hole = k_eHole.buf
    BY <1>3
  <2>2. AtMost(freed, hole)
    BY <1>4, <2>1 DEF AtMost
  <2>3. /\ new.buf \in 1 .. 3 \ DOMAIN freed
        /\ new.heap = [x \in DOMAIN freed \cup {new.buf} |-> IF x = new.buf THEN len ELSE freed[x]]
    BY <1>2, <2>1, <2>2, NewBlock
  <2>4. PICK b : b = new.buf
    OBVIOUS
  <2>5. /\ b \in 1 .. 3 /\ b \notin DOMAIN freed /\ b # k_eHole.buf
        /\ k_eBody' = [buf |-> b, size |-> len] /\ k_eBody'.buf = b /\ k_eBody'.size = len
        /\ k_heap' = [x \in DOMAIN freed \cup {b} |-> IF x = b THEN len ELSE freed[x]]
    BY <1>4, <1>7, <2>3, <2>4
  <2>6. /\ DOMAIN k_heap' = {b, k_eHole.buf} \ {0} /\ k_heap'[b] = len
        /\ k_eHole.buf # 0 => k_heap'[k_eHole.buf] = k_eHole.size
        /\ k_heap' = [x \in DOMAIN k_heap' |-> k_heap'[x]]
    BY <1>4, <2>5
  <2>7. PackTypes'
    BY <1>3, <1>5, <1>7, <2>5, <2>6 DEF PackInv, PackTypes
  <2>8. Packer!FillsItsBlocks'
    BY <1>3, <1>5, <1>7, <2>5, <2>6 DEF Packer!FillsItsBlocks, Packer!NULL
  <2> QED BY <2>7, <2>8 DEF PackInv
<1>8. CASE len > 0 /\ k_heap' = freed /\ k_eBody' = [buf |-> 0, size |-> len] /\ k_state' = "crashed"
  BY <1>3, <1>4, <1>5, <1>8 DEF PackInv, PackTypes, Packer!FillsItsBlocks
<1> QED BY <1>1, <1>2, <1>6, <1>7, <1>8 DEF Packer!SetBody, Packer!NULL

(* Pack frees the old block before it allocates the new one.               *)
LEMMA PackKeeps == ASSUME PackInv, k_state = "alive", Packer!Pack PROVE PackInv'
<1>0. PICK size : size = Packer!calcTotalLen
  OBVIOUS
<1>1. PICK freed : freed = Packer!Without(k_heap, k_eHole.buf)
  OBVIOUS
<1>2. PICK new : new = Packer!Block(freed, size)
  OBVIOUS
<1>3. /\ k_eBody \in [buf : 0 .. 3, size : Nat] /\ k_eHole \in [buf : 0 .. 3, size : Nat]
      /\ size \in Nat /\ size = Packer!Copied
      /\ DOMAIN k_heap = {k_eBody.buf, k_eHole.buf} \ {0}
      /\ k_eBody.buf # 0 => k_eBody.buf # k_eHole.buf /\ k_heap[k_eBody.buf] = k_eBody.size
  BY <1>0, PassesAgree DEF PackInv, PackTypes, Packer!FillsItsBlocks, Packer!NULL
<1>4. /\ DOMAIN freed = {k_eBody.buf} \ {0} /\ freed = [b \in DOMAIN freed |-> freed[b]]
      /\ k_eBody.buf # 0 => freed[k_eBody.buf] = k_eBody.size
  BY <1>1, <1>3 DEF Packer!Without
<1>5. UNCHANGED <<k_sMethod, k_sUrl, k_sVersion, k_eBody, k_state>>
  BY DEF Packer!Pack
<1>7. CASE k_heap' = new.heap /\ k_eHole' = [buf |-> new.buf, size |-> size] /\ k_spos' = size
  <2>1. PICK body \in 0 .. 3 : body = k_eBody.buf
    BY <1>3
  <2>2. AtMost(freed, body)
    BY <1>4, <2>1 DEF AtMost
  <2>3. /\ new.buf \in 1 .. 3 \ DOMAIN freed
        /\ new.heap = [x \in DOMAIN freed \cup {new.buf} |-> IF x = new.buf THEN size ELSE freed[x]]
    BY <1>2, <2>1, <2>2, NewBlock
  <2>4. PICK b : b = new.buf
    OBVIOUS
  <2>5. /\ b \in 1 .. 3 /\ b \notin DOMAIN freed /\ b # k_eBody.buf
        /\ k_eHole' = [buf |-> b, size |-> size] /\ k_eHole'.buf = b /\ k_eHole'.size = size
        /\ k_heap' = [x \in DOMAIN freed \cup {b} |-> IF x = b THEN size ELSE freed[x]]
    BY <1>4, <1>7, <2>3, <2>4
  <2>6. /\ DOMAIN k_heap' = {k_eBody.buf, b} \ {0} /\ k_heap'[b] = size
        /\ k_eBody.buf # 0 => k_heap'[k_eBody.buf] = k_eBody.size
        /\ k_heap' = [x \in DOMAIN k_heap' |-> k_heap'[x]]
    BY <1>4, <2>5
  <2>7. PackTypes'
    BY <1>3, <1>5, <1>7, <2>5, <2>6 DEF PackInv, PackTypes
  <2>8. Packer!FillsItsBlocks'
    BY <1>3, <1>5, <1>7, <2>5, <2>6 DEF Packer!FillsItsBlocks, Packer!NULL
  <2> QED BY <2>7, <2>8 DEF PackInv
<1>8. CASE k_heap' = freed /\ k_eHole' = [buf |-> 0, size |-> size] /\ k_spos' = 0
  <2>1. k_eHole'.buf = 0
    BY <1>8
  <2>2. PackTypes'
    BY <1>3, <1>4, <1>5, <1>8 DEF PackInv, PackTypes
  <2>3. Packer!FillsItsBlocks'
    BY <1>3, <1>4, <1>5, <1>8, <2>1 DEF Packer!FillsItsBlocks, Packer!NULL
  <2> QED BY <2>2, <2>3 DEF PackInv
<1> QED BY <1>0, <1>1, <1>2, <1>3, <1>7, <1>8 DEF Packer!Pack, Packer!NULL

(* The destructor frees the two blocks there may be.                       *)
LEMMA DestroyKeeps == ASSUME PackInv, k_state = "alive", Packer!Destroy PROVE PackInv'
<1>1. DOMAIN k_heap = {k_eBody.buf, k_eHole.buf} \ {0}
  BY DEF PackInv, Packer!FillsItsBlocks, Packer!NULL
<1>2. k_heap' = [b \in (DOMAIN k_heap \ {k_eBody.buf}) \ {k_eHole.buf} |-> k_heap[b]]
  BY DEF Packer!Destroy, Packer!Without
<1>3. (DOMAIN k_heap \ {k_eBody.buf}) \ {k_eHole.buf} = {}
  BY <1>1
<1>4. k_heap' = << >>
  BY <1>2, <1>3
<1>5. k_heap' = [b \in DOMAIN k_heap' |-> k_heap'[b]]
  BY <1>2
<1> QED BY <1>4, <1>5 DEF Packer!Destroy, PackInv, PackTypes, Packer!FillsItsBlocks

(* So no call of the packer breaks its invariant.                          *)
LEMMA PackNextKeeps == PackInv /\ Packer!Next => PackInv'
BY SetLineKeeps, SetBodyKeeps, PackKeeps, DestroyKeeps DEF Packer!Next

(* No step of any part breaks the invariant of the packer.                 *)
LEMMA PackStepKeeps ==
    ASSUME which = "pack" => PackInv,
           [AllNext]_all_vars
    PROVE  (which = "pack" => PackInv)'
<1>1. CASE PackerStep
  BY <1>1, PackNextKeeps DEF PackerStep
<1>2. CASE \/ HttpStep \/ PlusStep \/ IniStep \/ RemovalStep \/ NodeStep \/ SelectStep \/ UuidsStep \/ CfgStep
           \/ UNCHANGED all_vars
  <2>1. which' = which /\ UNCHANGED k_vars
    BY <1>2 DEF HttpStep, PlusStep, IniStep, RemovalStep, NodeStep, SelectStep, UuidsStep, CfgStep, all_vars
  <2> QED BY <2>1 DEF PackInv, PackTypes, Packer!FillsItsBlocks, k_vars
<1> QED BY <1>1, <1>2 DEF AllNext

(* HttpPacker writes as many bytes as it counted and loses no block, for   *)
(* texts and bodies of every length (HttpPacker.cpp:52-222).               *)
THEOREM BlocksStayFilled == AllSpec => []PackerFillsItsBlocks
<1> DEFINE Inv == which = "pack" => PackInv
<1>1. AllInit => Inv
  BY PackInitially DEF AllInit
<1>2. Inv /\ [AllNext]_all_vars => Inv'
  BY PackStepKeeps
<1>3. Inv => PackerFillsItsBlocks
  BY DEF PackerFillsItsBlocks, PackInv
<1> QED BY <1>1, <1>2, <1>3, PTL DEF AllSpec

-----------------------------------------------------------------------------
(***************************************************************************)
(* The select server.                                                      *)
(***************************************************************************)
Holders == Conns \cup {"std", "listen", "free"}

\* what a descriptor is open for, and the connections of the backlog
Descriptors ==
    /\ s_desc \in [Select!Fds -> Holders]
    /\ s_desc[ServerListen] = "listen"
    /\ s_desc[ServerSize + 1] = "free"
    /\ \A f, g \in Select!Fds : s_desc[f] = s_desc[g] /\ s_desc[f] \in Conns => f = g

\* a connection is new, waits in the backlog once, or was accepted
Arrivals ==
    /\ s_peer \in [Conns -> {"new", "connected", "closed"}]
    /\ s_backlog \in Seq(Conns) /\ NoneTwice(s_backlog)
    /\ ServerListen \in s_rfds => s_backlog # << >>
    /\ \A c \in Elements(s_backlog) : s_peer[c] # "new"
    /\ \A c \in Elements(s_backlog) \cup {c \in Conns : s_peer[c] = "new"} :
          c \notin s_ended /\ \A f \in Select!Fds : s_desc[f] # c

SelectInv ==
    /\ Descriptors
    /\ Arrivals
    /\ s_client \in [Select!Slots -> Int]
    /\ Select!TableIsConnections

(* The descriptors and the slots of the table.                             *)
LEMMA Numbers ==
    /\ ServerSize \in Nat /\ ServerListen \in Int /\ ServerListen >= 3 /\ ServerListen <= ServerSize
    /\ Select!Fds = 0 .. ServerSize + 1 /\ Select!Slots = 0 .. ServerSize - 1
    /\ Select!Slots \subseteq Select!Fds
    /\ 1 \in Select!Slots /\ 1 \in Select!Fds /\ ServerListen \in Select!Fds
    /\ ServerSize + 1 \in Select!Fds /\ ServerSize + 1 \notin Select!Slots
    /\ 1 # ServerListen /\ 1 # ServerSize + 1 /\ ServerListen # ServerSize + 1
BY ServerAssumption DEF Select!Fds, Select!Slots

(* A descriptor that is taken for something else is no connection.         *)
LEMMA NotConns == \A c \in Conns : c # "std" /\ c # "listen" /\ c # "free"
BY ServerAssumption

(* The server starts with an empty table.                                  *)
LEMMA SelectInitially == Select!Init => SelectInv
<1> SUFFICES ASSUME Select!Init PROVE SelectInv
  OBVIOUS
<1>1. /\ s_desc = [fd \in Select!Fds |-> CASE fd < 3 -> "std"
                                           [] fd = ServerListen -> "listen"
                                           [] OTHER -> "free"]
      /\ s_client = [i \in Select!Slots |-> -1]
      /\ s_rfds = {} /\ s_backlog = << >> /\ s_peer = [c \in Conns |-> "new"]
      /\ s_stopped = "no" /\ s_ended = {}
  BY DEF Select!Init
<1>2. \A fd \in Select!Fds : s_desc[fd] \in {"std", "listen", "free"}
  BY <1>1
<1>3. Descriptors
  <2>1. s_desc[ServerListen] = "listen" /\ s_desc[ServerSize + 1] = "free"
    BY <1>1, Numbers
  <2>2. s_desc \in [Select!Fds -> Holders]
    BY <1>1, <1>2 DEF Holders
  <2> QED BY <1>2, <2>1, <2>2, NotConns DEF Descriptors
<1>4. Arrivals
  <2>1. Elements(s_backlog) = {} /\ NoneTwice(s_backlog) /\ s_backlog \in Seq(Conns)
    BY <1>1 DEF Elements, NoneTwice
  <2> QED BY <1>1, <1>2, <2>1, NotConns DEF Arrivals
<1>5. s_client \in [Select!Slots -> Int] /\ \A i \in Select!Slots : s_client[i] = -1
  BY <1>1
<1>6. Select!TableIsConnections
  BY <1>1, <1>2, <1>5, NotConns, Numbers DEF Select!TableIsConnections
<1> QED BY <1>3, <1>4, <1>5, <1>6 DEF SelectInv

(* The descriptor that accept takes.                                       *)
LEMMA LowestFree ==
    ASSUME Descriptors, NEW fd, fd = Select!Min({f \in Select!Fds : s_desc[f] = "free"})
    PROVE  fd \in Select!Fds /\ s_desc[fd] = "free"
<1> DEFINE F == {f \in Select!Fds : s_desc[f] = "free"}
<1>1. F \subseteq Nat /\ F # {}
  BY Numbers DEF Descriptors, Select!Fds
<1>2. \E f \in F : \A g \in F : f <= g
  BY <1>1, LeastNumber
<1> QED BY <1>2 DEF Select!Min

(* A peer that connects waits in the backlog.                              *)
LEMMA ConnectKeeps == ASSUME SelectInv, NEW c \in Conns, Select!Connect(c) PROVE SelectInv'
<1>1. /\ s_peer[c] = "new" /\ s_peer' = [s_peer EXCEPT ![c] = "connected"]
      /\ s_backlog' = Append(s_backlog, c)
      /\ UNCHANGED <<s_desc, s_client, s_rfds, s_data, s_stopped, s_ended>>
  BY DEF Select!Connect
<1>2. c \notin Elements(s_backlog) /\ c \notin s_ended /\ \A f \in Select!Fds : s_desc[f] # c
  BY <1>1 DEF SelectInv, Arrivals
<1>3. /\ s_backlog' \in Seq(Conns) /\ NoneTwice(s_backlog')
      /\ Elements(s_backlog') = Elements(s_backlog) \cup {c} /\ s_backlog' # << >>
  <2>1. /\ s_backlog \in Seq(Conns) /\ NoneTwice(s_backlog) /\ Len(s_backlog) \in Nat
        /\ \A i \in 1 .. Len(s_backlog) : s_backlog[i] # c
    BY <1>2 DEF SelectInv, Arrivals, Elements
  <2>2. /\ s_backlog' \in Seq(Conns) /\ Len(s_backlog') = Len(s_backlog) + 1
        /\ \A i \in 1 .. Len(s_backlog) : s_backlog'[i] = s_backlog[i]
        /\ s_backlog'[Len(s_backlog) + 1] = c
    BY <1>1, <2>1
  <2> QED BY <2>1, <2>2 DEF NoneTwice, Elements
<1>4. Arrivals'
  BY <1>1, <1>2, <1>3 DEF SelectInv, Arrivals
<1>5. Descriptors'
  BY <1>1 DEF SelectInv, Descriptors, Holders
<1>6. Select!TableIsConnections'
  BY <1>1 DEF SelectInv, Select!TableIsConnections
<1> QED BY <1>1, <1>4, <1>5, <1>6 DEF SelectInv

(* What a peer sends or ends changes no descriptor.                        *)
LEMMA PeerKeeps ==
    ASSUME SelectInv, NEW c \in Conns, Select!Send(c) \/ Select!Close(c)
    PROVE  SelectInv'
<1>1. /\ s_peer' = s_peer \/ (s_peer[c] # "new" /\ s_peer' = [s_peer EXCEPT ![c] = "closed"])
      /\ UNCHANGED <<s_desc, s_client, s_rfds, s_backlog, s_stopped, s_ended>>
  BY DEF Select!Send, Select!Close
<1>2. Arrivals'
  <2>1. /\ s_peer' \in [Conns -> {"new", "connected", "closed"}]
        /\ \A d \in Conns : s_peer'[d] = "new" <=> s_peer[d] = "new"
    BY <1>1 DEF SelectInv, Arrivals
  <2>2. Elements(s_backlog) \subseteq Conns
    BY DEF SelectInv, Arrivals, Elements
  <2> QED BY <1>1, <2>1, <2>2 DEF SelectInv, Arrivals
<1>3. Descriptors' /\ Select!TableIsConnections'
  BY <1>1 DEF SelectInv, Descriptors, Holders, Select!TableIsConnections
<1> QED BY <1>1, <1>2, <1>3 DEF SelectInv

(* The end of the server changes nothing but what ended it.                *)
LEMMA StopsKeeps ==
    ASSUME SelectInv, NEW reason, Select!Stops(reason),
           reason = "badfd" => s_client[1] = 1 /\ s_desc[1] = "free"
    PROVE  SelectInv'
<1>1. s_stopped' = reason /\ UNCHANGED <<s_desc, s_client, s_rfds, s_backlog, s_peer, s_data, s_ended>>
  BY DEF Select!Stops
<1> QED BY <1>1 DEF SelectInv, Descriptors, Arrivals, Holders, Select!TableIsConnections

(* select finds descriptors that are ready.                                *)
LEMMA SelectKeeps == ASSUME SelectInv, Select!Select PROVE SelectInv'
<1>1. CASE (\E fd \in Select!Watched : s_desc[fd] = "free") /\ Select!Stops("badfd")
  <2>1. s_client[1] = 1 /\ s_desc[1] = "free"
    <3>1. PICK j \in Select!Slots : s_client[j] > 0 /\ s_desc[s_client[j]] = "free"
      BY <1>1 DEF Select!Watched
    <3>2. s_client[j] # -1
      BY <3>1 DEF SelectInv
    <3>3. s_client[j] = j /\ (s_desc[j] \in Conns \ s_ended \/ (j = 1 /\ s_desc[1] = "free"))
      BY <3>1, <3>2 DEF SelectInv, Select!TableIsConnections
    <3> QED BY <3>1, <3>3, NotConns
  <2> QED BY <1>1, <2>1, StopsKeeps
<1>2. CASE Select!Stops("select")
  BY <1>2, StopsKeeps
<1>3. CASE /\ s_rfds' = {fd \in Select!Watched \cup {ServerListen} : Select!Readable(fd)}
           /\ UNCHANGED <<s_desc, s_client, s_backlog, s_peer, s_data, s_stopped, s_ended>>
  <2>1. ServerListen \in s_rfds' => s_backlog # << >>
    <3> SUFFICES ASSUME ServerListen \in s_rfds' PROVE s_backlog # << >>
      OBVIOUS
    <3>1. Select!Readable(ServerListen) /\ s_desc[ServerListen] \notin Conns
      BY <1>3, NotConns DEF SelectInv, Descriptors
    <3> QED BY <3>1 DEF Select!Readable
  <2> QED BY <1>3, <2>1 DEF SelectInv, Descriptors, Arrivals, Holders, Select!TableIsConnections
<1> QED BY <1>1, <1>2, <1>3 DEF Select!Select

(* accept takes the lowest free descriptor, which is entered, is too large *)
(* and refused, or is 1 while standard output is closed.                   *)
LEMMA AcceptKeeps == ASSUME SelectInv, s_stopped = "no", Select!Accept, ~Select!Stops("accept") PROVE SelectInv'
<1>1. PICK sockfd : sockfd = Select!Min({fd \in Select!Fds : s_desc[fd] = "free"})
  OBVIOUS
<1>2. /\ ServerListen \in s_rfds /\ s_rfds' = s_rfds \ {ServerListen}
      /\ s_backlog' = Tail(s_backlog)
      /\ s_desc' = IF sockfd > ServerSize THEN s_desc
                   ELSE [s_desc EXCEPT ![sockfd] = Head(s_backlog)]
      /\ s_client' = IF sockfd < ServerSize THEN Select!Entered(sockfd) ELSE s_client
      /\ UNCHANGED <<s_peer, s_data, s_stopped, s_ended>>
  BY <1>1 DEF Select!Accept
<1>3. sockfd \in Select!Fds /\ s_desc[sockfd] = "free" /\ sockfd \in Int /\ sockfd # ServerListen
  BY <1>1, LowestFree, Numbers DEF SelectInv, Descriptors, Select!Fds
<1> DEFINE c == Head(s_backlog)
<1>4. /\ c \in Conns /\ c \in Elements(s_backlog) /\ s_backlog' \in Seq(Conns)
      /\ NoneTwice(s_backlog') /\ Elements(s_backlog') \subseteq Elements(s_backlog) \ {c}
  <2>1. s_backlog \in Seq(Conns) /\ s_backlog # << >> /\ NoneTwice(s_backlog)
    BY <1>2 DEF SelectInv, Arrivals
  <2>2. /\ Len(s_backlog) \in Nat \ {0} /\ c = s_backlog[1] /\ c \in Conns
        /\ s_backlog' \in Seq(Conns) /\ Len(s_backlog') = Len(s_backlog) - 1
        /\ \A i \in 1 .. Len(s_backlog) - 1 : s_backlog'[i] = s_backlog[i + 1]
    BY <1>2, <2>1
  <2>3. \A i \in 1 .. Len(s_backlog) - 1 : i + 1 \in 1 .. Len(s_backlog) /\ i + 1 # 1
    BY <2>2
  <2> HIDE DEF c
  <2>4. c \in Elements(s_backlog)
    BY <2>2 DEF Elements
  <2>5. ASSUME NEW i \in 1 .. Len(s_backlog) - 1
        PROVE  s_backlog'[i] \in Elements(s_backlog) /\ s_backlog'[i] # c
    <3>1. i + 1 \in 1 .. Len(s_backlog) /\ 1 \in 1 .. Len(s_backlog) /\ i + 1 # 1
      BY <2>2
    <3> QED BY <2>1, <2>2, <3>1 DEF NoneTwice, Elements
  <2>6. NoneTwice(s_backlog')
    <3> SUFFICES ASSUME NEW i \in 1 .. Len(s_backlog) - 1, NEW j \in 1 .. Len(s_backlog) - 1,
                        s_backlog'[i] = s_backlog'[j]
                 PROVE  i = j
      BY <2>2 DEF NoneTwice
    <3>1. i + 1 \in 1 .. Len(s_backlog) /\ j + 1 \in 1 .. Len(s_backlog)
      BY <2>2
    <3>2. i + 1 = j + 1
      BY <2>1, <2>2, <3>1 DEF NoneTwice
    <3> QED BY <3>2
  <2> QED BY <2>2, <2>4, <2>5, <2>6 DEF Elements
<1>5. c \notin s_ended /\ s_peer[c] # "new" /\ \A f \in Select!Fds : s_desc[f] # c
  BY <1>4 DEF SelectInv, Arrivals
<1> HIDE DEF c
<1>6. ASSUME NEW f \in Select!Fds PROVE s_desc'[f] = s_desc[f] \/ (f = sockfd /\ s_desc'[f] = c)
  BY <1>2, <1>3 DEF c, SelectInv, Descriptors
<1>7. Descriptors'
  <2>1. s_desc' \in [Select!Fds -> Holders]
    BY <1>2, <1>4 DEF c, SelectInv, Descriptors, Holders
  <2>2. s_desc'[ServerListen] = "listen"
    BY <1>3, <1>6, Numbers DEF SelectInv, Descriptors
  <2>3. s_desc'[ServerSize + 1] = "free"
    BY <1>2, <1>3, Numbers DEF SelectInv, Descriptors
  <2>4. \A f, g \in Select!Fds : s_desc'[f] = s_desc'[g] /\ s_desc'[f] \in Conns => f = g
    BY <1>5, <1>6 DEF SelectInv, Descriptors
  <2> QED BY <2>1, <2>2, <2>3, <2>4 DEF Descriptors, Holders
<1>8. Arrivals'
  BY <1>2, <1>4, <1>5, <1>6 DEF SelectInv, Arrivals
<1>9. /\ s_client' \in [Select!Slots -> Int]
      /\ \A i \in Select!Slots : s_client'[i] = s_client[i]
                                 \/ (i = sockfd /\ s_client[i] = -1 /\ s_client'[i] = sockfd)
      /\ sockfd \in Select!Slots => s_client'[sockfd] = sockfd
  <2>1. sockfd < ServerSize <=> sockfd \in Select!Slots
    BY <1>3, Numbers
  <2>2. sockfd \in Select!Slots /\ s_client[sockfd] # -1 => s_client[sockfd] = sockfd
    BY DEF SelectInv, Select!TableIsConnections
  <2> QED BY <1>2, <1>3, <2>1, <2>2 DEF SelectInv, Select!Entered
<1>10. Select!TableIsConnections'
  <2>1. ASSUME NEW i \in Select!Slots, s_client'[i] # -1
        PROVE  s_client'[i] = i /\ (s_desc'[i] \in Conns \ s_ended' \/ (i = 1 /\ s_desc'[1] = "free"))
    <3>1. i \in Select!Fds /\ s_desc[i] # c
      BY <1>5, Numbers
    <3>2. CASE i = sockfd
      <4>1. s_desc'[i] = c
        BY <3>2, <1>2, <1>3, Numbers DEF c, SelectInv, Descriptors
      <4> QED BY <4>1, <3>2, <1>2, <1>4, <1>5, <1>9
    <3>3. CASE i # sockfd
      <4>1. s_client'[i] = s_client[i] /\ s_desc'[i] = s_desc[i]
        BY <3>1, <3>3, <1>6, <1>9
      <4> QED BY <2>1, <4>1, <1>2 DEF SelectInv, Select!TableIsConnections
    <3> QED BY <3>2, <3>3
  <2>2. ASSUME NEW fd \in Select!Slots, s_desc'[fd] \in Conns \ s_ended'
        PROVE  s_client'[fd] = fd
    <3>1. fd \in Select!Fds
      BY Numbers
    <3>2. CASE fd = sockfd
      BY <3>2, <1>9
    <3>3. CASE fd # sockfd
      <4>1. s_desc'[fd] = s_desc[fd] /\ s_client'[fd] = s_client[fd]
        BY <3>1, <3>3, <1>6, <1>9
      <4> QED BY <2>2, <4>1, <1>2 DEF SelectInv, Select!TableIsConnections
    <3> QED BY <3>2, <3>3
  <2> QED BY <2>1, <2>2, <1>2 DEF Select!TableIsConnections
<1> QED BY <1>7, <1>8, <1>9, <1>10 DEF SelectInv

(* recv of nothing closes the descriptor and clears its slot.              *)
LEMMA RecvKeeps ==
    ASSUME SelectInv, s_stopped = "no", NEW i \in Select!Slots \ {ServerListen}, Select!Recv(i),
           ~Select!BrokenPipe(i)
    PROVE  SelectInv'
<1>1. s_rfds' = s_rfds \ {i} /\ ServerListen \notin s_rfds' /\ UNCHANGED <<s_backlog, s_peer, s_stopped>>
  BY DEF Select!Recv
<1>2. CASE UNCHANGED <<s_desc, s_client, s_ended>>
  BY <1>1, <1>2 DEF SelectInv, Descriptors, Arrivals, Holders, Select!TableIsConnections
<1>3. CASE /\ s_desc[i] \in Conns
           /\ s_client' = [s_client EXCEPT ![i] = -1]
           /\ s_desc' = [s_desc EXCEPT ![1] = "free"]
           /\ s_ended' = s_ended \cup {s_desc[i]}
  <2>1. /\ i \in Select!Fds
        /\ s_desc' \in [Select!Fds -> Holders]
        /\ s_desc'[1] = "free" /\ \A f \in Select!Fds \ {1} : s_desc'[f] = s_desc[f]
    BY <1>3, Numbers DEF SelectInv, Descriptors, Holders
  <2>2. Descriptors'
    <3>1. \A f, g \in Select!Fds : s_desc'[f] = s_desc'[g] /\ s_desc'[f] \in Conns => f = g
      BY <2>1, NotConns DEF SelectInv, Descriptors
    <3> QED BY <2>1, <3>1, Numbers DEF SelectInv, Descriptors, Holders
  <2>3. Arrivals'
    <3>1. ASSUME NEW c \in Elements(s_backlog) \cup {c \in Conns : s_peer[c] = "new"}
          PROVE  c \notin s_ended' /\ \A f \in Select!Fds : s_desc'[f] # c
      <4>1. c \in Conns
        BY DEF SelectInv, Arrivals, Elements
      <4> QED BY <4>1, <1>3, <2>1, NotConns DEF SelectInv, Arrivals
    <3> QED BY <3>1, <1>1 DEF SelectInv, Arrivals
  <2>4. /\ s_client' \in [Select!Slots -> Int] /\ s_client'[i] = -1
        /\ \A j \in Select!Slots \ {i} : s_client'[j] = s_client[j]
    BY <1>3 DEF SelectInv
  <2>5. ASSUME NEW j \in Select!Slots, s_client'[j] # -1
        PROVE  s_client'[j] = j /\ (s_desc'[j] \in Conns \ s_ended' \/ (j = 1 /\ s_desc'[1] = "free"))
    <3>1. j # i /\ s_client[j] = j /\ j \in Select!Fds
          /\ (s_desc[j] \in Conns \ s_ended \/ (j = 1 /\ s_desc[1] = "free"))
      BY <2>4, <2>5, Numbers DEF SelectInv, Select!TableIsConnections
    <3>2. CASE j = 1
      BY <3>1, <3>2, <2>1, <2>4
    <3>3. CASE j # 1
      <4>1. s_desc[j] # s_desc[i]
        BY <3>1, <2>1, <1>3 DEF SelectInv, Descriptors
      <4> QED BY <4>1, <3>1, <3>3, <2>1, <2>4, <1>3
    <3> QED BY <3>2, <3>3
  <2>6. ASSUME NEW fd \in Select!Slots, s_desc'[fd] \in Conns \ s_ended'
        PROVE  s_client'[fd] = fd
    <3>1. fd # 1 /\ fd \in Select!Fds
      BY <2>1, <2>6, NotConns, Numbers
    <3>2. s_desc'[fd] = s_desc[fd] /\ fd # i
      BY <3>1, <2>1, <2>6, <1>3
    <3> QED BY <3>2, <2>4, <2>6, <1>3 DEF SelectInv, Select!TableIsConnections
  <2>7. Select!TableIsConnections'
    BY <2>5, <2>6, <1>1 DEF Select!TableIsConnections
  <2> QED BY <2>2, <2>3, <2>4, <2>7 DEF SelectInv
<1> QED BY <1>2, <1>3 DEF Select!Recv

(* So no step of server or peers breaks the invariant.                     *)
LEMMA SelectNextKeeps == SelectInv /\ Select!Next => SelectInv'
<1> SUFFICES ASSUME SelectInv, Select!Next PROVE SelectInv'
  OBVIOUS
<1>1. CASE \E c \in Conns : Select!Connect(c) \/ Select!Send(c) \/ Select!Close(c)
  BY <1>1, ConnectKeeps, PeerKeeps
<1>2. CASE Select!Select
  BY <1>2, SelectKeeps
<1>3. CASE s_stopped = "no" /\ Select!Accept
  BY <1>3, AcceptKeeps, StopsKeeps
<1>4. CASE s_stopped = "no" /\ \E i \in Select!Slots \ {ServerListen} : Select!Recv(i)
  <2>1. PICK i \in Select!Slots \ {ServerListen} : Select!Recv(i)
    BY <1>4
  <2>2. CASE Select!BrokenPipe(i)
    BY <2>2, StopsKeeps DEF Select!BrokenPipe
  <2> QED BY <1>4, <2>1, <2>2, RecvKeeps
<1>5. CASE Select!Flush
  BY <1>5, StopsKeeps DEF Select!Flush, Select!BrokenPipe
<1> QED BY <1>1, <1>2, <1>3, <1>4, <1>5 DEF Select!Next

(* The server stays as it is while other parts move.                       *)
LEMMA SelectStays == SelectInv /\ UNCHANGED s_vars => SelectInv'
BY DEF SelectInv, s_vars, Descriptors, Arrivals, Holders, Select!TableIsConnections

(* No step of any part breaks the invariant of the server.                 *)
LEMMA SelectStepKeeps ==
    ASSUME which = "select" => SelectInv,
           [AllNext]_all_vars
    PROVE  (which = "select" => SelectInv)'
<1>1. CASE SelectStep
  BY <1>1, SelectNextKeeps DEF SelectStep
<1>2. CASE \/ HttpStep \/ PlusStep \/ IniStep \/ CfgStep \/ NodeStep \/ RemovalStep \/ UuidsStep \/ PackerStep
           \/ UNCHANGED all_vars
  <2>1. which' = which /\ UNCHANGED s_vars
    BY <1>2 DEF HttpStep, PlusStep, IniStep, CfgStep, NodeStep, RemovalStep, UuidsStep, PackerStep, all_vars
  <2> QED BY <2>1, SelectStays
<1> QED BY <1>1, <1>2 DEF AllNext

(* The table of the select server and the descriptors it holds agree, for  *)
(* any number of connections and any size of the table.                    *)
THEOREM ServerTableStaysRight == AllSpec => []SelectTableIsConnections
<1>1. AllInit => (which = "select" => SelectInv)
  BY SelectInitially DEF AllInit
<1>2. (which = "select" => SelectInv) => SelectTableIsConnections
  BY DEF SelectTableIsConnections, SelectInv
<1> QED BY <1>1, <1>2, SelectStepKeeps, PTL DEF AllSpec

-----------------------------------------------------------------------------
(***************************************************************************)
(* The removal of a directory.  What still exists has a reason to stay, is *)
(* being visited, or is within an entry that a call has yet to be given:   *)
(* Covered, which needs that the calls are a path from the root.           *)
(***************************************************************************)
Above(n, around) == n \in around /\ \A x \in around \ {TreeRoot} : TreeParent[x] \in around

(* The tree: the nodes below its root have parents in it.                  *)
LEMMA TreeNodes ==
    /\ Removal!Below = DOMAIN TreeParent /\ Removal!Nodes = DOMAIN TreeParent \cup {TreeRoot}
    /\ TreeRoot \notin Removal!Below
    /\ \A n \in Removal!Below : TreeParent[n] \in Removal!Nodes /\ Removal!Within(n, TreeRoot)
    /\ \A d : Removal!Children(d) \subseteq Removal!Below
BY TreeAssumption DEF Removal!Below, Removal!Nodes, Removal!Children

(* What is around a node: a closed set with it.                            *)
LEMMA WithinClosed ==
    ASSUME NEW n, NEW m, Removal!Within(n, m), NEW around \in SUBSET Removal!Nodes, Above(n, around)
    PROVE  m \in around
BY DEF Removal!Within, Above

(* A node is within itself.                                                *)
LEMMA WithinSelf == ASSUME NEW n PROVE Removal!Within(n, n)
BY DEF Removal!Within

(* What is within a node is within its directory.                          *)
LEMMA WithinParent ==
    ASSUME NEW n, NEW m \in Removal!Below, Removal!Within(n, m)
    PROVE  Removal!Within(n, TreeParent[m])
BY TreeNodes DEF Removal!Within

(* A node in a directory is the directory or in one of its entries.        *)
LEMMA WithinEntry ==
    ASSUME NEW n \in Removal!Nodes, NEW d, Removal!Within(n, d), n # d
    PROVE  \E c \in Removal!Children(d) : Removal!Within(n, c)
<1> SUFFICES ASSUME \A c \in Removal!Children(d) : ~Removal!Within(n, c) PROVE FALSE
  OBVIOUS
<1>1. PICK around : around = {m \in Removal!Nodes : Removal!Within(n, m) /\ m # d}
  OBVIOUS
<1>2. n \in around
  BY <1>1, WithinSelf
<1>3. ASSUME NEW x \in around \ {TreeRoot} PROVE TreeParent[x] \in around
  <2>1. x \in Removal!Below /\ Removal!Within(n, x)
    BY <1>1, TreeNodes
  <2>2. TreeParent[x] \in Removal!Nodes /\ Removal!Within(n, TreeParent[x])
    BY <2>1, TreeNodes, WithinParent
  <2>3. TreeParent[x] # d
    BY <2>1 DEF Removal!Children
  <2> QED BY <1>1, <2>2, <2>3
<1>4. Above(n, around) /\ around \in SUBSET Removal!Nodes
  BY <1>1, <1>2, <1>3 DEF Above
<1>5. d \in around
  BY <1>4, WithinClosed
<1> QED BY <1>1, <1>5

(* The tree: what exists is in directories that exist.                     *)
TreeRight(kind) ==
    /\ kind \in [Removal!Nodes -> {"dir", "file", "other", "none"}]
    /\ \A n \in Removal!Below : /\ kind[n] # "none" => kind[TreeParent[n]] = "dir"
                                /\ kind[n] = "dir" => n \in TreeDirs
                                /\ kind[n] \in {"file", "other"} => n \notin TreeDirs

(* What exists is within directories only, itself left aside.              *)
LEMMA ExistingWithin ==
    ASSUME NEW kind, TreeRight(kind), NEW n \in Removal!Below, kind[n] # "none",
           NEW m, Removal!Within(n, m)
    PROVE  m = n \/ kind[m] = "dir"
<1>1. PICK around : around = {x \in Removal!Nodes : x = n \/ kind[x] = "dir"}
  OBVIOUS
<1>2. ASSUME NEW x \in around \ {TreeRoot} PROVE TreeParent[x] \in around
  <2>1. x \in Removal!Below /\ (x = n \/ kind[x] = "dir")
    BY <1>1, TreeNodes
  <2>2. kind[x] # "none"
    BY <2>1
  <2> QED BY <1>1, <2>1, <2>2, TreeNodes DEF TreeRight
<1>3. Above(n, around) /\ around \in SUBSET Removal!Nodes
  BY <1>1, <1>2, TreeNodes DEF Above
<1>4. m \in around
  BY <1>3, WithinClosed
<1> QED BY <1>1, <1>4

(* What is in a directory that others made is theirs, too.                 *)
OthersRight(kind, others) ==
    \A n \in Removal!Below : kind[n] # "none" /\ TreeParent[n] \in others => n \in others

LEMMA WithinOthers ==
    ASSUME NEW kind, TreeRight(kind), NEW others, OthersRight(kind, others),
           NEW n \in Removal!Below, kind[n] # "none", NEW m \in others, Removal!Within(n, m)
    PROVE  n \in others
<1> SUFFICES ASSUME n \notin others PROVE FALSE
  OBVIOUS
<1>1. PICK around : around = {x \in Removal!Nodes : kind[x] # "none" /\ x \notin others}
  OBVIOUS
<1>2. ASSUME NEW x \in around \ {TreeRoot} PROVE TreeParent[x] \in around
  <2>1. x \in Removal!Below /\ kind[x] # "none" /\ x \notin others
    BY <1>1, TreeNodes
  <2>2. TreeParent[x] \in Removal!Nodes /\ kind[TreeParent[x]] = "dir" /\ TreeParent[x] \notin others
    BY <2>1, TreeNodes DEF TreeRight, OthersRight
  <2> QED BY <1>1, <2>2
<1>3. Above(n, around) /\ around \in SUBSET Removal!Nodes
  BY <1>1, <1>2, TreeNodes DEF Above
<1>4. m \in around
  BY <1>3, WithinClosed
<1> QED BY <1>1, <1>4

(* The calls: each for an entry of the directory before, that was given.   *)
Frames == [dir : Removal!Nodes, todo : SUBSET Removal!Below, given : SUBSET Removal!Below]

CallsRight(stack) ==
    /\ stack \in Seq(Frames)
    /\ Len(stack) > 0 => stack[1].dir = TreeRoot
    /\ \A i \in 1 .. Len(stack) :
          /\ stack[i].dir \in TreeDirs \cup {TreeRoot}
          /\ stack[i].todo \subseteq Removal!Children(stack[i].dir)
    /\ \A i \in 1 .. Len(stack), j \in 1 .. Len(stack) :
          /\ stack[i].dir = stack[j].dir => i = j
          /\ j = i + 1 => /\ stack[j].dir \in Removal!Below \ stack[i].todo
                          /\ TreeParent[stack[j].dir] = stack[i].dir

(* Who is yet to be met.                                                   *)
ToCome(stack, n) ==
    \E i \in 1 .. Len(stack) :
        n = stack[i].dir \/ \E c \in stack[i].todo : Removal!Within(n, c)

Explained(n) == \E m \in Removal!Below : Removal!Within(m, n) /\ Removal!Excused(m)

Covered == \A n \in Removal!Below : r_kind[n] # "none" => Explained(n) \/ ToCome(r_stack, n)

RemovalInv ==
    /\ TreeRight(r_kind) /\ OthersRight(r_kind, r_others) /\ CallsRight(r_stack)
    /\ r_ret \in {"none", "0", "-1"} /\ r_self \in BOOLEAN
    /\ (r_ret = "none") = (r_stack # << >>)
    /\ (r_ret = "-1" /\ r_closed # {}) \/ Covered
    /\ r_ret = "none" => r_kind[TreeRoot] = "dir" \/ TreeRoot \in r_others
    /\ r_ret = "0" => IF r_self THEN r_kind[TreeRoot] = "none"
                      ELSE r_kind[TreeRoot] = "dir" \/ TreeRoot \in r_others
    /\ r_ret = "-1" =>
          \/ r_closed # {}
          \/ r_self /\ (TreeRoot \in r_refused \cup r_others \/ Removal!Existing(TreeRoot) # {})

(* At the end there are no calls, and what is left has its reason.         *)
LEMMA RemovalExplains == RemovalInv => Removal!RestIsExplained
<1> SUFFICES ASSUME RemovalInv PROVE Removal!RestIsExplained
  OBVIOUS
<1>1. r_ret # "none" => \A n : ~ToCome(r_stack, n)
  BY DEF RemovalInv, ToCome
<1> QED BY <1>1 DEF RemovalInv, Covered, Explained, Removal!RestIsExplained

(* Above a new call there are only the calls before it.                    *)
LEMMA AboveTop ==
    ASSUME NEW stack, CallsRight(stack), Len(stack) > 0,
           NEW x \in Removal!Below, TreeParent[x] = stack[Len(stack)].dir,
           NEW c, Removal!Within(x, c)
    PROVE  c = x \/ \E i \in 1 .. Len(stack) : c = stack[i].dir
<1>0. Len(stack) \in Nat /\ \A i \in 1 .. Len(stack) : stack[i] \in Frames /\ stack[i].dir \in Removal!Nodes
  <2>1. Len(stack) \in Nat /\ \A i \in 1 .. Len(stack) : stack[i] \in Frames
    BY DEF CallsRight
  <2> QED BY <2>1 DEF Frames
<1>1. PICK around : around = {x} \cup {stack[i].dir : i \in 1 .. Len(stack)}
  OBVIOUS
<1>2. ASSUME NEW y \in around \ {TreeRoot} PROVE TreeParent[y] \in around
  <2>1. CASE y = x
    <3>1. Len(stack) \in 1 .. Len(stack)
      BY <1>0
    <3> QED BY <2>1, <3>1, <1>1
  <2>2. CASE y # x
    <3>1. PICK j \in 1 .. Len(stack) : y = stack[j].dir
      BY <1>1, <2>2
    <3>2. j # 1
      BY <3>1 DEF CallsRight
    <3>3. PICK i \in 1 .. Len(stack) : j = i + 1
      <4>1. j - 1 \in 1 .. Len(stack) /\ j = (j - 1) + 1
        BY <3>2, <1>0
      <4> QED BY <4>1
    <3> QED BY <3>1, <3>3, <1>1 DEF CallsRight
  <2> QED BY <2>1, <2>2
<1>3. Above(x, around) /\ around \in SUBSET Removal!Nodes
  BY <1>0, <1>1, <1>2, TreeNodes DEF Above
<1>4. c \in around
  BY <1>3, WithinClosed
<1> QED BY <1>1, <1>4

(* It is not one of the calls, nor in what they have yet to be given.      *)
LEMMA TopEntries ==
    ASSUME NEW stack, CallsRight(stack), Len(stack) > 0,
           NEW x \in Removal!Below, TreeParent[x] = stack[Len(stack)].dir
    PROVE  \A i \in 1 .. Len(stack) :
               /\ x # stack[i].dir
               /\ i # Len(stack) => \A c \in stack[i].todo : ~Removal!Within(x, c)
<1> SUFFICES ASSUME NEW i \in 1 .. Len(stack)
             PROVE  /\ x # stack[i].dir
                    /\ i # Len(stack) => \A c \in stack[i].todo : ~Removal!Within(x, c)
  OBVIOUS
<1>0. Len(stack) \in Nat /\ Len(stack) \in 1 .. Len(stack)
  BY DEF CallsRight
<1>1. x # stack[i].dir
  <2> SUFFICES ASSUME x = stack[i].dir PROVE FALSE
    OBVIOUS
  <2>1. i # 1
    BY TreeNodes DEF CallsRight
  <2>2. PICK h \in 1 .. Len(stack) : i = h + 1
    <3>1. i - 1 \in 1 .. Len(stack) /\ i = (i - 1) + 1
      BY <2>1, <1>0
    <3> QED BY <3>1
  <2>3. stack[h].dir = stack[Len(stack)].dir
    BY <2>2 DEF CallsRight
  <2>4. h = Len(stack)
    BY <2>3, <1>0 DEF CallsRight
  <2> QED BY <2>2, <2>4, <1>0
<1>2. ASSUME i # Len(stack), NEW c \in stack[i].todo, Removal!Within(x, c) PROVE FALSE
  <2>1. c \in Removal!Below /\ TreeParent[c] = stack[i].dir
    BY DEF CallsRight, Removal!Children
  <2>2. c # x
    BY <1>0, <1>2, <2>1 DEF CallsRight
  <2>3. PICK j \in 1 .. Len(stack) : c = stack[j].dir
    BY <1>2, <2>2, AboveTop
  <2>4. j # 1
    BY <2>1, <2>3, TreeNodes DEF CallsRight
  <2>5. PICK h \in 1 .. Len(stack) : j = h + 1
    <3>1. j - 1 \in 1 .. Len(stack) /\ j = (j - 1) + 1
      BY <2>4, <1>0
    <3> QED BY <3>1
  <2>6. stack[h].dir = stack[i].dir /\ stack[j].dir \notin stack[h].todo
    BY <2>1, <2>3, <2>5 DEF CallsRight
  <2>7. h = i
    BY <2>6 DEF CallsRight
  <2> QED BY <2>3, <2>6, <2>7
<1> QED BY <1>1, <1>2

(* The calls after an entry was given to the last one.                     *)
AsGiven(stack, n, now) ==
    now = [stack EXCEPT ![Len(stack)].given = @ \cup {n}, ![Len(stack)].todo = @ \ {n}]

(* The calls after the last one has returned.                              *)
LEMMA CallsReturned ==
    ASSUME NEW stack, CallsRight(stack), Len(stack) > 0,
           NEW rest, rest = SubSeq(stack, 1, Len(stack) - 1)
    PROVE  /\ CallsRight(rest)
           /\ \A n : ToCome(stack, n) => \/ ToCome(rest, n) \/ n = stack[Len(stack)].dir
                                         \/ \E c \in stack[Len(stack)].todo : Removal!Within(n, c)
<1>1. PICK k \in Nat : k = Len(stack)
  BY DEF CallsRight
<1>2. /\ rest \in Seq(Frames) /\ Len(rest) = k - 1
      /\ \A i \in 1 .. k - 1 : rest[i] = stack[i] /\ i \in 1 .. k /\ i # k
  BY <1>1 DEF CallsRight
<1>5. CallsRight(rest)
  <2>1. Len(rest) > 0 => rest[1].dir = TreeRoot
    BY <1>1, <1>2 DEF CallsRight
  <2>2. \A i \in 1 .. k - 1 :
          rest[i].dir \in TreeDirs \cup {TreeRoot} /\ rest[i].todo \subseteq Removal!Children(rest[i].dir)
    BY <1>1, <1>2 DEF CallsRight
  <2>3. ASSUME NEW i \in 1 .. k - 1, NEW j \in 1 .. k - 1
        PROVE  /\ rest[i].dir = rest[j].dir => i = j
               /\ j = i + 1 => /\ rest[j].dir \in Removal!Below \ rest[i].todo
                               /\ TreeParent[rest[j].dir] = rest[i].dir
    <3>1. /\ i \in 1 .. Len(stack) /\ j \in 1 .. Len(stack)
          /\ rest[i] = stack[i] /\ rest[j] = stack[j]
      BY <1>1, <1>2
    <3>2. /\ stack[i].dir = stack[j].dir => i = j
          /\ j = i + 1 => /\ stack[j].dir \in Removal!Below \ stack[i].todo
                          /\ TreeParent[stack[j].dir] = stack[i].dir
      BY <3>1 DEF CallsRight
    <3> QED BY <3>1, <3>2
  <2> QED BY <1>2, <2>1, <2>2, <2>3 DEF CallsRight
<1>6. ASSUME NEW n, ToCome(stack, n)
      PROVE  \/ ToCome(rest, n) \/ n = stack[k].dir \/ \E c \in stack[k].todo : Removal!Within(n, c)
  <2>1. PICK i \in 1 .. k : n = stack[i].dir \/ \E c \in stack[i].todo : Removal!Within(n, c)
    BY <1>1, <1>6 DEF ToCome
  <2>2. CASE i = k
    BY <2>1, <2>2
  <2>3. CASE i # k
    <3>1. i \in 1 .. k - 1 /\ i \in 1 .. Len(rest) /\ rest[i] = stack[i]
      BY <2>3, <1>2
    <3> QED BY <2>1, <3>1 DEF ToCome
  <2> QED BY <2>2, <2>3
<1> QED BY <1>1, <1>5, <1>6

(* The calls after an entry was given to the last one.                     *)
LEMMA CallsGiven ==
    ASSUME NEW stack, CallsRight(stack), Len(stack) > 0, NEW n \in Removal!Below,
           NEW now, AsGiven(stack, n, now)
    PROVE  /\ CallsRight(now) /\ Len(now) = Len(stack)
           /\ now[Len(stack)].dir = stack[Len(stack)].dir /\ n \notin now[Len(stack)].todo
           /\ \A x : ToCome(stack, x) => ToCome(now, x) \/ Removal!Within(x, n)
<1>1. PICK k \in Nat : k = Len(stack)
  BY DEF CallsRight
<1>2. k \in 1 .. k /\ \A i \in 1 .. k : stack[i] \in Frames /\ stack[i].dir \in Removal!Nodes
  <2>1. \A i \in 1 .. k : stack[i] \in Frames
    BY <1>1 DEF CallsRight
  <2> QED BY <1>1, <2>1 DEF Frames
<1>3. PICK f : f = stack[k]
  OBVIOUS
<1>4. PICK g : g = [dir |-> f.dir, todo |-> f.todo \ {n}, given |-> f.given \cup {n}]
  OBVIOUS
<1>5. /\ now \in Seq(Frames) /\ Len(now) = k
      /\ \A i \in 1 .. k : now[i].dir = stack[i].dir /\ now[i].todo = stack[i].todo \ (IF i = k THEN {n} ELSE {})
  <2>1. f \in Frames /\ g \in Frames /\ g = [f EXCEPT !.given = @ \cup {n}, !.todo = @ \ {n}]
    <3>1. f \in Frames
      BY <1>2, <1>3
    <3>2. PICK d \in Removal!Nodes, t \in SUBSET Removal!Below, h \in SUBSET Removal!Below :
            f = [dir |-> d, todo |-> t, given |-> h]
      BY <3>1 DEF Frames
    <3>3. g = [dir |-> d, todo |-> t \ {n}, given |-> h \cup {n}]
      BY <3>2, <1>4
    <3>4. g \in Frames
      BY <3>3 DEF Frames
    <3>5. g = [f EXCEPT !.given = @ \cup {n}, !.todo = @ \ {n}]
      <4>1. PICK e : e = [f EXCEPT !.given = f.given \cup {n}, !.todo = f.todo \ {n}]
        OBVIOUS
      <4>2. DOMAIN f = {"dir", "todo", "given"} /\ f.todo = t /\ f.given = h /\ f.dir = d
        BY <3>2
      <4>3. DOMAIN e = {"dir", "todo", "given"} /\ e.dir = d /\ e.todo = t \ {n} /\ e.given = h \cup {n}
        BY <4>1, <4>2
      <4>4. e = [i \in {"dir", "todo", "given"} |-> e[i]]
        BY <4>1, <4>2
      <4>5. g = [i \in {"dir", "todo", "given"} |-> g[i]] /\ g.dir = d /\ g.todo = t \ {n} /\ g.given = h \cup {n}
        BY <3>3
      <4>6. \A i \in {"dir", "todo", "given"} : g[i] = e[i]
        BY <4>3, <4>5
      <4>7. g = e
        BY <4>4, <4>5, <4>6
      <4> QED BY <4>1, <4>7
    <3> QED BY <3>1, <3>4, <3>5
  <2>2. stack \in [1 .. k -> Frames] /\ DOMAIN stack = 1 .. k
    BY <1>1, <1>2 DEF CallsRight
  <2>3. now = [stack EXCEPT ![k] = g]
    BY <1>1, <1>2, <1>3, <2>1, <2>2 DEF AsGiven
  <2>4. now \in [1 .. k -> Frames] /\ \A i \in 1 .. k : now[i] = IF i = k THEN g ELSE stack[i]
    BY <1>2, <2>1, <2>2, <2>3
  <2>5. now \in Seq(Frames) /\ Len(now) = k
    <3>1. now \in Seq(Frames)
      BY <2>4, SeqDef
    <3>2. DOMAIN now = 1 .. k
      BY <2>4
    <3>3. DOMAIN now = 1 .. Len(now) /\ Len(now) \in Nat
      BY <3>1, LenProperties
    <3> QED BY <3>1, <3>2, <3>3
  <2>6. g.dir = stack[k].dir /\ g.todo = stack[k].todo \ {n}
    BY <1>3, <1>4
  <2> QED BY <2>4, <2>5, <2>6
<1>6. CallsRight(now)
  <2>2. \A i \in 1 .. k : now[i].todo \subseteq stack[i].todo
    BY <1>5
  <2>3. Len(now) > 0 => now[1].dir = TreeRoot
    BY <1>1, <1>5 DEF CallsRight
  <2>4. \A i \in 1 .. k :
          now[i].dir \in TreeDirs \cup {TreeRoot} /\ now[i].todo \subseteq Removal!Children(now[i].dir)
    BY <1>1, <1>5, <2>2 DEF CallsRight
  <2>5. ASSUME NEW i \in 1 .. k, NEW j \in 1 .. k
        PROVE  /\ now[i].dir = now[j].dir => i = j
               /\ j = i + 1 => /\ now[j].dir \in Removal!Below \ now[i].todo
                               /\ TreeParent[now[j].dir] = now[i].dir
    <3>1. /\ i \in 1 .. Len(stack) /\ j \in 1 .. Len(stack)
          /\ now[i].dir = stack[i].dir /\ now[j].dir = stack[j].dir /\ now[i].todo \subseteq stack[i].todo
      BY <1>1, <1>5, <2>2
    <3> QED BY <3>1 DEF CallsRight
  <2> QED BY <1>5, <2>3, <2>4, <2>5 DEF CallsRight
<1>7. ASSUME NEW x, ToCome(stack, x) PROVE ToCome(now, x) \/ Removal!Within(x, n)
  <2>1. PICK i \in 1 .. k : x = stack[i].dir \/ \E c \in stack[i].todo : Removal!Within(x, c)
    BY <1>1, <1>7 DEF ToCome
  <2>2. CASE x = stack[i].dir
    BY <2>1, <2>2, <1>5 DEF ToCome
  <2>3. CASE \E c \in stack[i].todo : Removal!Within(x, c)
    <3>1. PICK c \in stack[i].todo : Removal!Within(x, c)
      BY <2>3
    <3>2. c = n \/ c \in now[i].todo
      BY <1>5, <3>1
    <3> QED BY <3>1, <3>2, <1>5 DEF ToCome
  <2> QED BY <2>1, <2>2, <2>3
<1> QED BY <1>1, <1>2, <1>5, <1>6, <1>7

(* The calls after a directory was entered: all its entries are to come.   *)
LEMMA CallsEntered ==
    ASSUME NEW kind, TreeRight(kind), NEW stack, CallsRight(stack), Len(stack) > 0,
           NEW n \in Removal!Below, TreeParent[n] = stack[Len(stack)].dir,
           n \notin stack[Len(stack)].todo, kind[n] = "dir", NEW f \in Frames,
           f.dir = n, f.todo = {c \in Removal!Children(n) : kind[c] # "none"},
           NEW now, now = Append(stack, f)
    PROVE  /\ CallsRight(now)
           /\ \A x \in Removal!Below : kind[x] # "none" =>
                 (ToCome(stack, x) \/ Removal!Within(x, n) => ToCome(now, x))
<1>1. PICK k \in Nat : k = Len(stack)
  BY DEF CallsRight
<1>2. /\ now \in Seq(Frames) /\ Len(now) = k + 1 /\ now[k + 1] = f
      /\ \A i \in 1 .. k : now[i] = stack[i]
  BY <1>1 DEF CallsRight
<1>3. \A i \in 1 .. k + 1 : i \in 1 .. k \/ i = k + 1
  OBVIOUS
<1>4. \A i \in 1 .. k : n # stack[i].dir
  BY <1>1, TopEntries
<1>5. CallsRight(now)
  <2>1. Len(now) > 0 => now[1].dir = TreeRoot
    <3>1. 1 \in 1 .. k
      BY <1>1
    <3> QED BY <1>1, <1>2, <3>1 DEF CallsRight
  <2>2. \A i \in 1 .. k + 1 :
          now[i].dir \in TreeDirs \cup {TreeRoot} /\ now[i].todo \subseteq Removal!Children(now[i].dir)
    BY <1>1, <1>2, <1>3 DEF CallsRight, TreeRight
  <2>3. ASSUME NEW i \in 1 .. k + 1, NEW j \in 1 .. k + 1
        PROVE  /\ now[i].dir = now[j].dir => i = j
               /\ j = i + 1 => /\ now[j].dir \in Removal!Below \ now[i].todo
                               /\ TreeParent[now[j].dir] = now[i].dir
    <3>1. CASE i \in 1 .. k /\ j \in 1 .. k
      BY <3>1, <1>1, <1>2 DEF CallsRight
    <3>2. CASE i = k + 1 /\ j = k + 1
      BY <3>2
    <3>3. CASE i = k + 1 /\ j \in 1 .. k
      BY <3>3, <1>2, <1>4
    <3>4. CASE i \in 1 .. k /\ j = k + 1
      <4>1. j = i + 1 => i = k
        BY <3>4
      <4>2. now[j] = f /\ now[i] = stack[i]
        BY <3>4, <1>2
      <4> QED BY <3>4, <4>1, <4>2, <1>1, <1>4
    <3> QED BY <3>1, <3>2, <3>3, <3>4, <1>3
  <2> QED BY <1>2, <2>1, <2>2, <2>3 DEF CallsRight
<1>6. ASSUME NEW x \in Removal!Below, kind[x] # "none", ToCome(stack, x)
      PROVE  ToCome(now, x)
  <2>1. PICK i \in 1 .. k : x = stack[i].dir \/ \E c \in stack[i].todo : Removal!Within(x, c)
    BY <1>1, <1>6 DEF ToCome
  <2>2. i \in 1 .. k + 1 /\ now[i] = stack[i]
    BY <1>2
  <2> QED BY <2>1, <2>2, <1>2 DEF ToCome
<1>7. ASSUME NEW x \in Removal!Below, kind[x] # "none", Removal!Within(x, n)
      PROVE  ToCome(now, x)
  <2>1. k + 1 \in 1 .. Len(now)
    BY <1>2
  <2>2. CASE x = n
    BY <2>1, <2>2, <1>2 DEF ToCome
  <2>3. CASE x # n
    <3>1. PICK c \in Removal!Children(n) : Removal!Within(x, c)
      BY <1>7, <2>3, WithinEntry, TreeNodes
    <3>2. kind[c] # "none"
      BY <3>1, <1>7, ExistingWithin
    <3> QED BY <2>1, <3>1, <3>2, <1>2 DEF ToCome
  <2> QED BY <2>2, <2>3
<1> QED BY <1>5, <1>6, <1>7

(* A reason stays one.                                                     *)
LEMMA StaysExplained ==
    ASSUME r_refused \subseteq r_refused', r_others \subseteq r_others', r_left \subseteq r_left',
           \A n \in Removal!Below : r_kind[n] = "other" => r_kind'[n] = "other" \/ n \in r_others',
           NEW n \in Removal!Below, Explained(n)
    PROVE  Explained(n)'
<1>1. PICK m \in Removal!Below : Removal!Within(m, n) /\ Removal!Excused(m)
  BY DEF Explained
<1>2. Removal!Excused(m)'
  BY <1>1 DEF Removal!Excused
<1> QED BY <1>1, <1>2 DEF Explained

(* What becomes of a directory when its call has returned.                 *)
AfterCall(k, d) ==
    \/ r_kind' = r_kind /\ r_refused' = r_refused /\ (k = 1 \/ r_kind[d] # "dir" \/ Removal!Existing(d) # {})
    \/ r_kind' = r_kind /\ r_refused' = r_refused \cup {d}
    \/ /\ r_kind[d] = "dir" /\ Removal!Existing(d) = {}
       /\ r_kind' = [r_kind EXCEPT ![d] = "none"] /\ r_refused' = r_refused

(* What a call leaves behind when it returns at the end of its directory   *)
(* or before.                                                              *)
LEMMA ReturnLeavesCovered ==
    ASSUME RemovalInv, NEW k \in Nat, k = Len(r_stack), k > 0, NEW d, d = r_stack[k].dir,
           NEW rest, r_stack' = rest, rest = SubSeq(r_stack, 1, k - 1), r_others' = r_others,
           \/ r_stack[k].todo \cap Removal!Existing(d) \subseteq r_others /\ r_left' = r_left
           \/ r_left' = r_left \cup {d},
           AfterCall(k, d)
    PROVE  Covered'
<1>1. /\ TreeRight(r_kind) /\ OthersRight(r_kind, r_others) /\ CallsRight(r_stack) /\ Covered
      /\ k \in 1 .. k /\ d \in Removal!Nodes
  <2>1. r_stack # << >>
    OBVIOUS
  <2>2. r_ret = "none" /\ CallsRight(r_stack)
    BY <2>1 DEF RemovalInv
  <2>3. k \in 1 .. k /\ r_stack[k] \in Frames
    BY <2>2 DEF CallsRight
  <2> QED BY <2>2, <2>3 DEF RemovalInv, Frames
<1>2. \A n \in Removal!Nodes : r_kind'[n] # "none" => r_kind[n] # "none"
  BY <1>1 DEF TreeRight, AfterCall
<1>3. \A n \in Removal!Below : r_kind[n] = "other" => r_kind'[n] = "other"
  BY <1>1, TreeNodes DEF TreeRight, AfterCall
<1>4. \A n \in Removal!Below : Explained(n) => Explained(n)'
  <2> TAKE n \in Removal!Below
  <2>1. r_refused \subseteq r_refused' /\ r_others \subseteq r_others' /\ r_left \subseteq r_left'
    BY DEF AfterCall
  <2> QED BY <1>3, <2>1, StaysExplained
<1>5. ASSUME NEW n \in Removal!Below, r_kind[n] # "none", NEW c \in r_stack[k].todo, Removal!Within(n, c)
      PROVE  Explained(n)'
  <2>1. c \in Removal!Children(d)
    BY <1>1 DEF CallsRight
  <2>2. c \in Removal!Existing(d)
    <3>1. c = n \/ r_kind[c] = "dir"
      BY <1>1, <1>5, ExistingWithin
    <3> QED BY <2>1, <3>1, <1>5 DEF Removal!Existing
  <2>3. CASE c \in r_others
    <3>1. n \in r_others'
      BY <1>1, <1>5, <2>3, WithinOthers
    <3>2. Removal!Excused(n)'
      BY <3>1 DEF Removal!Excused
    <3> QED BY <3>2, WithinSelf DEF Explained
  <2>4. CASE d \in r_left'
    <3>1. c \in Removal!Below /\ TreeParent[c] = d
      BY <2>1, TreeNodes DEF Removal!Children
    <3>2. Removal!Excused(n)'
      BY <1>5, <2>4, <3>1 DEF Removal!Excused
    <3> QED BY <3>2, WithinSelf DEF Explained
  <2> QED BY <2>2, <2>3, <2>4
<1>6. ASSUME d \in Removal!Below, r_kind'[d] # "none" PROVE Explained(d)'
  <2>1. k # 1
    BY <1>6, <1>1, TreeNodes DEF CallsRight
  <2>2. CASE d \in r_refused'
    <3>1. Removal!Excused(d)'
      BY <2>2 DEF Removal!Excused
    <3> QED BY <1>6, <3>1, WithinSelf DEF Explained
  <2>3. CASE Removal!Existing(d) # {}
    <3>1. PICK x \in Removal!Below : TreeParent[x] = d /\ r_kind[x] # "none"
      BY <2>3, TreeNodes DEF Removal!Existing, Removal!Children
    <3>2. Explained(x)'
      <4>1. CASE Explained(x)
        BY <4>1, <1>4
      <4>2. CASE ToCome(r_stack, x)
        <5>1. PICK i \in 1 .. k : x = r_stack[i].dir \/ \E c \in r_stack[i].todo : Removal!Within(x, c)
          BY <4>2 DEF ToCome
        <5>2. /\ x # r_stack[i].dir
              /\ i # k => \A c \in r_stack[i].todo : ~Removal!Within(x, c)
          BY <1>1, <3>1, TopEntries
        <5>3. PICK c \in r_stack[k].todo : Removal!Within(x, c)
          BY <5>1, <5>2
        <5> QED BY <5>3, <3>1, <1>5
      <4> QED BY <4>1, <4>2, <3>1, <1>1 DEF Covered
    <3>3. PICK m \in Removal!Below : Removal!Within(m, x) /\ Removal!Excused(m)'
      BY <3>2 DEF Explained
    <3>4. Removal!Within(m, d)
      BY <3>1, <3>3, WithinParent
    <3> QED BY <3>3, <3>4 DEF Explained
  <2>4. d \in r_refused' \/ Removal!Existing(d) # {}
    <3>1. r_kind'[d] = r_kind[d] => r_kind[d] = "dir"
      <4>1. d \in TreeDirs
        BY <1>1, <1>6, TreeNodes DEF CallsRight
      <4> QED BY <4>1, <1>1, <1>6, TreeNodes DEF TreeRight
    <3> QED BY <2>1, <3>1, <1>1, <1>6 DEF AfterCall, TreeRight
  <2> QED BY <2>2, <2>3, <2>4
<1>7. ASSUME NEW n \in Removal!Below, r_kind'[n] # "none" PROVE Explained(n)' \/ ToCome(rest, n)
  <2>1. r_kind[n] # "none"
    BY <1>2, <1>7, TreeNodes
  <2>2. Explained(n) \/ ToCome(r_stack, n)
    BY <2>1, <1>1 DEF Covered
  <2>3. ToCome(r_stack, n) => \/ ToCome(rest, n) \/ n = d \/ \E c \in r_stack[k].todo : Removal!Within(n, c)
    BY <1>1, CallsReturned
  <2>4. CASE \E c \in r_stack[k].todo : Removal!Within(n, c)
    BY <2>1, <2>4, <1>5
  <2> QED BY <2>2, <2>3, <2>4, <1>4, <1>6, <1>7
<1> QED BY <1>7 DEF Covered

(* A call returns, and its caller removes the directory if it can.         *)
LEMMA ReturnKeeps ==
    ASSUME RemovalInv, Removal!Return, r_stack # << >>, NEW d, d = Removal!Top.dir,
           \/ Removal!Top.todo \cap Removal!Existing(d) \subseteq r_others /\ r_left' = r_left
           \/ r_left' = r_left \cup {d}
    PROVE  RemovalInv'
<1>1. PICK k \in Nat : k = Len(r_stack) /\ k > 0
  <2>1. r_stack \in Seq(Frames)
    BY DEF RemovalInv, CallsRight
  <2> QED BY <2>1
<1>2. PICK rest : rest = SubSeq(r_stack, 1, k - 1)
  OBVIOUS
<1>3. /\ r_stack' = rest /\ Removal!Top = r_stack[k] /\ d = r_stack[k].dir
      /\ r_ret' = IF k > 1 THEN r_ret
                  ELSE IF r_self /\ (r_kind[TreeRoot] = "none" \/ r_kind'[TreeRoot] # "none") THEN "-1" ELSE "0"
      /\ IF k > 1 \/ r_self THEN Removal!Rmdir(d) ELSE UNCHANGED <<r_kind, r_refused>>
      /\ r_closed' = r_closed /\ r_self' = r_self /\ r_others' = r_others
  BY <1>1, <1>2 DEF Removal!Return, Removal!Top, Last, Front, Removal!Last, Removal!Front
<1>4. /\ TreeRight(r_kind) /\ OthersRight(r_kind, r_others) /\ CallsRight(r_stack)
      /\ r_ret = "none" /\ r_self \in BOOLEAN /\ d \in Removal!Nodes
      /\ r_kind[TreeRoot] = "dir" \/ TreeRoot \in r_others
  <2>1. CallsRight(r_stack) /\ k \in 1 .. k
    BY <1>1 DEF RemovalInv
  <2>2. r_stack[k] \in Frames
    BY <1>1, <1>3, <2>1 DEF CallsRight
  <2> QED BY <2>1, <2>2, <1>3 DEF RemovalInv, Frames
<1>5. d = TreeRoot <=> k = 1
  <2>1. 1 \in 1 .. Len(r_stack) /\ k \in 1 .. Len(r_stack)
    BY <1>1
  <2> QED BY <2>1, <1>1, <1>3, <1>4 DEF CallsRight
<1>6. /\ AfterCall(k, d)
      /\ k = 1 /\ r_self /\ r_kind' = r_kind =>
            d \in r_refused' \/ r_kind[d] # "dir" \/ Removal!Existing(d) # {}
      /\ k = 1 /\ ~r_self => r_kind' = r_kind
  <2>1. CASE ~(k > 1 \/ r_self)
    BY <2>1, <1>1, <1>3 DEF AfterCall
  <2>2. CASE k > 1 \/ r_self
    <3>1. CASE r_kind[d] = "dir" /\ Removal!Existing(d) = {} /\ r_kind' = Removal!Removed(d) /\ UNCHANGED r_refused
      <4>1. r_kind' = [r_kind EXCEPT ![d] = "none"] /\ r_kind'[d] = "none"
        BY <3>1, <1>4 DEF Removal!Removed, TreeRight
      <4>2. r_kind' # r_kind
        BY <3>1, <4>1
      <4>3. AfterCall(k, d)
        BY <3>1, <4>1 DEF AfterCall
      <4>4. k > 1 \/ r_self => ~(k = 1 /\ ~r_self)
        BY <1>1
      <4> QED BY <2>2, <4>2, <4>3, <4>4
    <3>2. CASE r_refused' = r_refused \cup {d} /\ UNCHANGED r_kind
      BY <2>2, <3>2, <1>1 DEF AfterCall
    <3>3. CASE (r_kind[d] # "dir" \/ Removal!Existing(d) # {}) /\ UNCHANGED <<r_kind, r_refused>>
      BY <2>2, <3>3, <1>1 DEF AfterCall
    <3> QED BY <2>2, <3>1, <3>2, <3>3, <1>3 DEF Removal!Rmdir
  <2> QED BY <2>1, <2>2
<1>7. \/ r_kind' = r_kind
      \/ Removal!Existing(d) = {} /\ r_kind' = [r_kind EXCEPT ![d] = "none"]
  BY <1>6 DEF AfterCall
<1>8. TreeRight(r_kind') /\ OthersRight(r_kind', r_others')
  <2>1. CASE r_kind' = r_kind
    BY <2>1, <1>3, <1>4
  <2>2. CASE Removal!Existing(d) = {} /\ r_kind' = [r_kind EXCEPT ![d] = "none"]
    <3>1. \A n \in Removal!Below : r_kind[n] # "none" => TreeParent[n] # d
      BY <2>2, TreeNodes DEF Removal!Existing, Removal!Children
    <3> QED BY <2>2, <3>1, <1>3, <1>4, TreeNodes DEF TreeRight, OthersRight
  <2> QED BY <2>1, <2>2, <1>7
<1>9. CallsRight(rest)
  BY <1>1, <1>2, <1>4, CallsReturned
<1>10. Covered'
  BY <1>1, <1>2, <1>3, <1>6, ReturnLeavesCovered
<1>11. (r_ret' = "none") = (rest # << >>)
  <2>1. r_stack \in Seq(Frames)
    BY <1>4 DEF CallsRight
  <2>2. rest \in Seq(Frames) /\ Len(rest) = k - 1
    BY <2>1, <1>1, <1>2
  <2>3. CASE k > 1
    BY <2>2, <2>3, <1>3, <1>4, <1>1
  <2>4. CASE k = 1
    BY <2>2, <2>4, <1>3
  <2> QED BY <2>3, <2>4, <1>1
<1>12. /\ r_ret' \in {"none", "0", "-1"}
       /\ r_ret' = "none" => r_kind'[TreeRoot] = "dir" \/ TreeRoot \in r_others
       /\ r_ret' = "0" => IF r_self THEN r_kind'[TreeRoot] = "none"
                          ELSE r_kind'[TreeRoot] = "dir" \/ TreeRoot \in r_others
       /\ r_ret' = "-1" =>
             \/ r_closed # {}
             \/ r_self /\ (TreeRoot \in r_refused' \cup r_others \/ Removal!Existing(TreeRoot)' # {})
  <2>1. CASE k > 1
    <3>1. d # TreeRoot /\ r_kind'[TreeRoot] = r_kind[TreeRoot]
      BY <2>1, <1>4, <1>5, <1>7, TreeNodes DEF TreeRight
    <3> QED BY <2>1, <3>1, <1>3, <1>4
  <2>2. CASE k = 1 /\ ~r_self
    BY <2>2, <1>3, <1>4, <1>6
  <2>3. CASE k = 1 /\ r_self
    <3>1. d = TreeRoot /\ TreeRoot \in DOMAIN r_kind
      BY <2>3, <1>4, <1>5, TreeNodes DEF TreeRight
    <3>2. r_kind'[TreeRoot] = "none" \/ r_kind' = r_kind
      BY <3>1, <1>7
    <3>3. r_kind' = r_kind => Removal!Existing(TreeRoot)' = Removal!Existing(TreeRoot)
      BY DEF Removal!Existing
    <3>4. r_ret' = IF r_kind[TreeRoot] = "none" \/ r_kind'[TreeRoot] # "none" THEN "-1" ELSE "0"
      BY <2>3, <1>3
    <3>5. r_kind[TreeRoot] = "none" => TreeRoot \in r_others
      BY <1>4
    <3>6. r_kind' = r_kind => TreeRoot \in r_refused' \cup r_others \/ Removal!Existing(TreeRoot)' # {}
      BY <2>3, <3>1, <3>3, <1>4, <1>6
    <3>7. CASE r_kind' = r_kind
      BY <2>3, <3>4, <3>5, <3>6, <3>7
    <3>8. CASE r_kind'[TreeRoot] = "none"
      BY <2>3, <3>4, <3>5, <3>8
    <3> QED BY <3>2, <3>7, <3>8
  <2> QED BY <2>1, <2>2, <2>3, <1>1
<1> QED BY <1>3, <1>4, <1>8, <1>9, <1>10, <1>11, <1>12 DEF RemovalInv

(* An entry that is passed or removed.                                     *)
LEMMA EntryGivenKeeps ==
    ASSUME RemovalInv, r_stack # << >>, NEW n \in Removal!Below, Removal!Passed(n) \/ Removal!Unlinked(n),
           UNCHANGED <<r_toolong, r_self, r_others>>
    PROVE  RemovalInv'
<1>1. TreeRight(r_kind) /\ CallsRight(r_stack) /\ Covered /\ r_ret = "none" /\ Len(r_stack) > 0
  <2>1. CallsRight(r_stack) /\ r_ret = "none"
    BY DEF RemovalInv
  <2> QED BY <2>1 DEF RemovalInv, CallsRight
<1>2. PICK now, later : now = r_stack' /\ later = r_kind'
  OBVIOUS
<1>3. /\ now = Removal!Given(n) /\ UNCHANGED <<r_ret, r_closed>>
      /\ later = r_kind \/ (r_kind[n] = "file" /\ later = [r_kind EXCEPT ![n] = "none"])
      /\ later[n] # "none" => \/ r_kind[n] = "other"
                              \/ n \in r_refused' /\ (r_kind[n] = "file" \/ n \in r_left')
      /\ r_refused \subseteq r_refused' /\ r_left \subseteq r_left'
  <2>1. n \in DOMAIN r_kind
    BY <1>1, TreeNodes DEF TreeRight
  <2> QED BY <1>2, <2>1 DEF Removal!Passed, Removal!Unlinked, Removal!Removed
<1>4. /\ n \in Removal!Nodes /\ n # TreeRoot
      /\ \A m \in Removal!Nodes : m # n => later[m] = r_kind[m]
      /\ \A m \in Removal!Nodes : later[m] # "none" => later[m] = r_kind[m]
      /\ \A m \in Removal!Nodes : r_kind[m] \in {"dir", "other"} => later[m] = r_kind[m]
  BY <1>1, <1>3, TreeNodes DEF TreeRight
<1>5. AsGiven(r_stack, n, now)
  BY <1>3 DEF Removal!Given, AsGiven
<1>6. /\ CallsRight(now) /\ Len(now) = Len(r_stack)
      /\ \A x : ToCome(r_stack, x) => ToCome(now, x) \/ Removal!Within(x, n)
  BY <1>1, <1>5, CallsGiven
<1>7. TreeRight(later) /\ OthersRight(later, r_others)
  <2>1. later \in [Removal!Nodes -> {"dir", "file", "other", "none"}]
    BY <1>1, <1>3 DEF TreeRight
  <2>2. ASSUME NEW m \in Removal!Below
        PROVE  /\ later[m] # "none" => later[TreeParent[m]] = "dir"
               /\ later[m] = "dir" => m \in TreeDirs
               /\ later[m] \in {"file", "other"} => m \notin TreeDirs
               /\ later[m] # "none" /\ TreeParent[m] \in r_others => m \in r_others
    <3>1. m \in Removal!Nodes /\ TreeParent[m] \in Removal!Nodes
      BY TreeNodes
    <3> QED BY <3>1, <1>1, <1>4 DEF TreeRight, RemovalInv, OthersRight
  <2> QED BY <2>1, <2>2 DEF TreeRight, OthersRight
<1>8. ASSUME NEW x \in Removal!Below, Explained(x) PROVE Explained(x)'
  <2>1. \A m \in Removal!Below : r_kind[m] = "other" => r_kind'[m] = "other"
    BY <1>2, <1>4, TreeNodes
  <2> QED BY <1>3, <1>8, <2>1, StaysExplained
<1>9. ASSUME NEW x \in Removal!Below, later[x] # "none" PROVE Explained(x)' \/ ToCome(now, x)
  <2>1. x \in Removal!Nodes /\ r_kind[x] # "none" /\ later[x] = r_kind[x]
    BY <1>4, <1>9, TreeNodes
  <2>2. CASE x = n
    <3>1. Removal!Excused(n)'
      BY <1>2, <1>3, <1>9, <2>1, <2>2 DEF Removal!Excused
    <3> QED BY <2>2, <3>1, WithinSelf DEF Explained
  <2>3. CASE x # n /\ Removal!Within(x, n)
    <3>1. r_kind[n] = "dir"
      BY <2>1, <2>3, <1>1, ExistingWithin
    <3>2. n \in r_left'
      BY <3>1, <1>3, <1>4
    <3>3. PICK c \in Removal!Children(n) : Removal!Within(x, c)
      BY <2>1, <2>3, WithinEntry
    <3>4. Removal!Excused(x)'
      BY <3>2, <3>3, TreeNodes DEF Removal!Excused, Removal!Children
    <3> QED BY <3>4, WithinSelf DEF Explained
  <2>4. CASE ~Removal!Within(x, n)
    BY <2>1, <2>4, <1>1, <1>6, <1>8 DEF Covered
  <2> QED BY <2>2, <2>3, <2>4
<1>10. Covered'
  BY <1>2, <1>9 DEF Covered
<1>11. now # << >>
  BY <1>1, <1>6
<1>12. r_kind[TreeRoot] = "dir" \/ TreeRoot \in r_others
  BY <1>1 DEF RemovalInv
<1>13. later[TreeRoot] = "dir" \/ TreeRoot \in r_others
  BY <1>4, <1>12, TreeNodes
<1> QED BY <1>1, <1>2, <1>3, <1>6, <1>7, <1>10, <1>11, <1>13 DEF RemovalInv

(* An entry that is a directory, and is entered.                           *)
LEMMA EntryEnteredKeeps ==
    ASSUME RemovalInv, r_stack # << >>, NEW n \in Removal!Below, TreeParent[n] = Removal!Top.dir,
           r_kind[n] = "dir", r_stack' = Append(Removal!Given(n), Removal!Frame(n)),
           UNCHANGED <<r_kind, r_ret, r_toolong, r_closed, r_refused, r_self, r_left, r_others>>
    PROVE  RemovalInv'
<1>1. /\ TreeRight(r_kind) /\ CallsRight(r_stack) /\ Covered /\ r_ret = "none" /\ Len(r_stack) > 0
  <2>1. CallsRight(r_stack) /\ r_ret = "none"
    BY DEF RemovalInv
  <2> QED BY <2>1 DEF RemovalInv, CallsRight
<1>2. PICK given : given = Removal!Given(n)
  OBVIOUS
<1>3. PICK now : now = r_stack'
  OBVIOUS
<1>4. AsGiven(r_stack, n, given)
  BY <1>2 DEF Removal!Given, AsGiven
<1>5. /\ CallsRight(given) /\ Len(given) = Len(r_stack)
      /\ given[Len(r_stack)].dir = r_stack[Len(r_stack)].dir /\ n \notin given[Len(r_stack)].todo
      /\ \A x : ToCome(r_stack, x) => ToCome(given, x) \/ Removal!Within(x, n)
  BY <1>1, <1>4, CallsGiven
<1>6. PICK f : f = Removal!Frame(n)
  OBVIOUS
<1>7. f \in Frames /\ f.dir = n /\ f.todo = {c \in Removal!Children(n) : r_kind[c] # "none"}
  BY <1>6, TreeNodes DEF Removal!Frame, Removal!Existing, Frames
<1>8. TreeParent[n] = given[Len(given)].dir /\ n \notin given[Len(given)].todo /\ now = Append(given, f)
  BY <1>2, <1>3, <1>5, <1>6 DEF Removal!Top, Last, Removal!Last
<1>9. /\ CallsRight(now)
      /\ \A x \in Removal!Below : r_kind[x] # "none" =>
            (ToCome(given, x) \/ Removal!Within(x, n) => ToCome(now, x))
  BY <1>1, <1>5, <1>7, <1>8, CallsEntered
<1>10. ASSUME NEW x \in Removal!Below, r_kind[x] # "none" PROVE Explained(x)' \/ ToCome(now, x)
  <2>1. Explained(x) \/ ToCome(r_stack, x)
    BY <1>1, <1>10 DEF Covered
  <2>2. Explained(x) => Explained(x)'
    BY StaysExplained
  <2> QED BY <2>1, <2>2, <1>5, <1>9, <1>10
<1>11. Covered'
  BY <1>3, <1>10 DEF Covered
<1>12. now # << >>
  BY <1>5, <1>7, <1>8 DEF CallsRight
<1> QED BY <1>1, <1>3, <1>9, <1>11, <1>12 DEF RemovalInv

(* Whatever an entry is, the invariant is kept.                            *)
LEMMA EntryKeeps ==
    ASSUME RemovalInv, NEW n \in Removal!Below, Removal!Entry(n)
    PROVE  RemovalInv'
<1>1. r_stack # << >> /\ TreeParent[n] = Removal!Top.dir
  <2>1. r_stack # << >> /\ (n \in Removal!Top.todo \/ n \in Removal!Existing(Removal!Top.dir))
    BY DEF Removal!Entry
  <2>2. Removal!Top.todo \subseteq Removal!Children(Removal!Top.dir)
    <3>1. r_stack \in Seq(Frames) /\ Len(r_stack) \in 1 .. Len(r_stack)
      BY <2>1 DEF RemovalInv, CallsRight
    <3> QED BY <3>1 DEF RemovalInv, CallsRight, Removal!Top, Last, Removal!Last
  <2> QED BY <2>1, <2>2 DEF Removal!Existing, Removal!Children
<1>2. CASE r_left' = r_left \cup {Removal!Top.dir} /\ Removal!Return
  BY <1>1, <1>2, ReturnKeeps
<1>3. CASE (Removal!Passed(n) \/ Removal!Unlinked(n)) /\ UNCHANGED <<r_toolong, r_self, r_others>>
  BY <1>1, <1>3, EntryGivenKeeps
<1>4. CASE Removal!Entered(n) /\ UNCHANGED <<r_toolong, r_self, r_others>>
  <2>1. CASE /\ r_kind[n] = "dir" /\ r_stack' = Append(Removal!Given(n), Removal!Frame(n))
             /\ UNCHANGED <<r_kind, r_ret, r_closed, r_refused, r_left>>
    BY <1>1, <1>4, <2>1, EntryEnteredKeeps
  <2>2. CASE /\ r_stack' = << >> /\ r_ret' = "-1" /\ r_closed' = r_closed \cup {n}
             /\ UNCHANGED <<r_kind, r_refused, r_left>>
    <3>1. CallsRight(<< >>)
      BY DEF CallsRight
    <3> QED BY <1>4, <2>2, <3>1 DEF RemovalInv
  <2> QED BY <1>4, <2>1, <2>2 DEF Removal!Entered
<1> QED BY <1>2, <1>3, <1>4 DEF Removal!Entry

(* A directory is left when all its entries were given, or readdir fails.  *)
LEMMA EndOfDirKeeps == ASSUME RemovalInv, Removal!EndOfDir PROVE RemovalInv'
BY ReturnKeeps DEF Removal!EndOfDir

(* What others make is excused, and what they remove is gone.              *)
LEMMA OthersKeep ==
    ASSUME RemovalInv, NEW n \in Removal!Nodes, Removal!Others(n)
    PROVE  RemovalInv'
<1>1. /\ r_ret = "none" /\ r_others' = r_others \cup {n}
      /\ UNCHANGED <<r_toolong, r_closed, r_refused, r_self, r_stack, r_ret, r_left>>
      /\ \/ /\ r_kind[n] = "none" /\ (n # TreeRoot => r_kind[TreeParent[n]] = "dir")
            /\ r_kind' = [r_kind EXCEPT ![n] = IF n \in TreeDirs \cup {TreeRoot} THEN "dir" ELSE "file"]
         \/ Removal!Existing(n) = {} /\ r_kind' = [r_kind EXCEPT ![n] = "none"]
  BY DEF Removal!Others, Removal!Removed
<1>2. TreeRight(r_kind) /\ OthersRight(r_kind, r_others) /\ CallsRight(r_stack) /\ Covered
  BY <1>1 DEF RemovalInv
<1>3. PICK later : later = r_kind'
  OBVIOUS
<1>4. /\ \A m \in Removal!Nodes : m # n => later[m] = r_kind[m]
      /\ later \in [Removal!Nodes -> {"dir", "file", "other", "none"}]
      /\ later[n] # "none" => /\ n # TreeRoot => r_kind[TreeParent[n]] = "dir"
                              /\ later[n] = IF n \in TreeDirs \cup {TreeRoot} THEN "dir" ELSE "file"
  BY <1>1, <1>2, <1>3 DEF TreeRight
<1>5. \A m \in Removal!Below : r_kind[m] # "none" => TreeParent[m] # n
  <2>1. CASE r_kind[n] = "none"
    BY <1>2, <2>1 DEF TreeRight
  <2>2. CASE Removal!Existing(n) = {}
    BY <2>2, TreeNodes DEF Removal!Existing, Removal!Children
  <2> QED BY <1>1, <2>1, <2>2
<1>6. ASSUME NEW m \in Removal!Below
      PROVE  /\ later[m] # "none" => later[TreeParent[m]] = "dir"
             /\ later[m] = "dir" => m \in TreeDirs
             /\ later[m] \in {"file", "other"} => m \notin TreeDirs
             /\ later[m] # "none" /\ TreeParent[m] \in r_others' => m \in r_others'
  <2>1. m \in Removal!Nodes /\ m # TreeRoot /\ TreeParent[m] \in Removal!Nodes
    BY TreeNodes
  <2>2. CASE m = n
    <3>1. later[m] # "none" => TreeParent[m] # n
      <4>1. ASSUME later[m] # "none", TreeParent[m] = n PROVE FALSE
        <5>1. r_kind[m] = "dir"
          BY <1>4, <2>1, <2>2, <4>1
        <5> QED BY <1>5, <4>1, <5>1
      <4> QED BY <4>1
    <3> QED BY <1>1, <1>4, <2>1, <2>2, <3>1
  <2>3. CASE m # n
    <3>1. later[m] = r_kind[m]
      BY <1>4, <2>1, <2>3
    <3>2. later[m] # "none" => TreeParent[m] # n
      BY <1>5, <3>1
    <3> QED BY <1>1, <1>2, <1>4, <2>1, <3>1, <3>2 DEF TreeRight, OthersRight
  <2> QED BY <2>2, <2>3
<1>7. TreeRight(later) /\ OthersRight(later, r_others')
  BY <1>4, <1>6 DEF TreeRight, OthersRight
<1>8. ASSUME NEW x \in Removal!Below, Explained(x) PROVE Explained(x)'
  <2>1. \A m \in Removal!Below : r_kind[m] = "other" => r_kind'[m] = "other" \/ m \in r_others'
    BY <1>1, <1>3, <1>4, TreeNodes
  <2>2. r_refused \subseteq r_refused' /\ r_others \subseteq r_others' /\ r_left \subseteq r_left'
    BY <1>1
  <2> QED BY <1>8, <2>1, <2>2, StaysExplained
<1>9. ASSUME NEW x \in Removal!Below, later[x] # "none" PROVE Explained(x)' \/ ToCome(r_stack, x)
  <2>1. CASE x = n
    <3>1. Removal!Excused(n)'
      BY <1>1 DEF Removal!Excused
    <3> QED BY <2>1, <3>1, WithinSelf DEF Explained
  <2>2. CASE x # n
    BY <2>2, <1>2, <1>4, <1>8, <1>9, TreeNodes DEF Covered
  <2> QED BY <2>1, <2>2
<1>10. Covered'
  BY <1>1, <1>3, <1>9 DEF Covered
<1>11. later[TreeRoot] = "dir" \/ TreeRoot \in r_others'
  <2>1. TreeRoot \in Removal!Nodes /\ (r_kind[TreeRoot] = "dir" \/ TreeRoot \in r_others)
    BY <1>1, TreeNodes DEF RemovalInv
  <2> QED BY <1>1, <1>4, <2>1
<1> QED BY <1>1, <1>2, <1>3, <1>7, <1>10, <1>11 DEF RemovalInv

(* At first all that exists is within entries of the root.                 *)
LEMMA RemovalInitially == ASSUME Removal!Init PROVE RemovalInv
<1>1. /\ TreeRight(r_kind) /\ r_self \in BOOLEAN /\ r_kind[TreeRoot] = "dir"
  BY TreeNodes DEF Removal!Init, TreeRight
<1>4. OthersRight(r_kind, r_others)
  BY DEF Removal!Init, OthersRight
<1>2. CASE r_stack = <<Removal!Frame(TreeRoot)>> /\ r_ret = "none"
  <2>1. PICK f : f = Removal!Frame(TreeRoot)
    OBVIOUS
  <2>2. r_stack = <<f>> /\ r_ret = "none"
    BY <1>2, <2>1
  <2>3. f \in Frames /\ f.dir = TreeRoot /\ f.todo = {c \in Removal!Children(TreeRoot) : r_kind[c] # "none"}
    BY <2>1, TreeNodes DEF Removal!Frame, Removal!Existing, Frames
  <2>4. Len(r_stack) = 1 /\ r_stack[1] = f /\ r_stack \in Seq(Frames) /\ r_stack # << >>
    BY <2>2, <2>3
  <2>5. CallsRight(r_stack)
    BY <2>3, <2>4 DEF CallsRight
  <2>6. ASSUME NEW n \in Removal!Below, r_kind[n] # "none" PROVE ToCome(r_stack, n)
    <3>1. Removal!Within(n, TreeRoot) /\ n # TreeRoot /\ n \in Removal!Nodes
      BY TreeNodes
    <3>2. PICK c \in Removal!Children(TreeRoot) : Removal!Within(n, c)
      BY <3>1, WithinEntry
    <3>3. r_kind[c] # "none"
      BY <1>1, <2>6, <3>2, ExistingWithin
    <3> QED BY <3>2, <3>3, <2>3, <2>4 DEF ToCome
  <2> QED BY <1>1, <1>4, <2>2, <2>4, <2>5, <2>6 DEF RemovalInv, Covered
<1>3. CASE r_stack = << >> /\ r_ret = "-1" /\ r_closed = {TreeRoot}
  <2>1. CallsRight(<< >>)
    BY DEF CallsRight
  <2> QED BY <1>1, <1>3, <1>4, <2>1 DEF RemovalInv
<1> QED BY <1>2, <1>3 DEF Removal!Init

(* The removal stays as it is while other parts move.                      *)
LEMMA RemovalStays == RemovalInv /\ UNCHANGED r_vars => RemovalInv'
BY DEF RemovalInv, Covered, Explained, Removal!Excused, Removal!Existing, r_vars

(* No step of any part breaks the invariant of the removal.                *)
LEMMA RemovalStepKeeps ==
    ASSUME which = "remove" => RemovalInv,
           [AllNext]_all_vars
    PROVE  (which = "remove" => RemovalInv)'
<1>1. CASE RemovalStep
  BY <1>1, EntryKeeps, EndOfDirKeeps, OthersKeep DEF RemovalStep, Removal!Next
<1>2. CASE \/ HttpStep \/ PlusStep \/ IniStep \/ CfgStep \/ NodeStep \/ SelectStep \/ UuidsStep \/ PackerStep
           \/ UNCHANGED all_vars
  <2>1. which' = which /\ UNCHANGED r_vars
    BY <1>2 DEF HttpStep, PlusStep, IniStep, CfgStep, NodeStep, SelectStep, UuidsStep, PackerStep, all_vars
  <2> QED BY <2>1, RemovalStays
<1> QED BY <1>1, <1>2 DEF AllNext

(* Whatever a recursive removal leaves behind has one of the reasons that  *)
(* the code knows, and its result says what became of the root, for every  *)
(* tree, order of entries and interference (rm_dir.c:29-108).              *)
THEOREM RestStaysExplained == AllSpec => []RemoveRestIsExplained
<1> DEFINE Inv == which = "remove" => RemovalInv
<1>1. AllInit => Inv
  BY RemovalInitially DEF AllInit
<1>2. Inv /\ [AllNext]_all_vars => Inv'
  BY RemovalStepKeeps
<1>3. Inv => RemoveRestIsExplained
  BY RemovalExplains DEF RemoveRestIsExplained
<1> QED BY <1>1, <1>2, <1>3, PTL DEF AllSpec

-----------------------------------------------------------------------------
(***************************************************************************)
(* The identifiers: what becomes of each byte of a buffer.                 *)
(***************************************************************************)
(* Two bytes make a number and come apart again, as they were or with the  *)
(* bits of the version or of the variant set in the first.                 *)
TwoBytes(a, b, x) == a \in 0 .. 255 /\ b \in 0 .. 255 /\ x = a * 256 + b

WithVersion(a, b, y) ==
    a \in 0 .. 255 /\ b \in 0 .. 255 /\ y = ((a * 256 + b) % 4096) + 16384

WithVariant(a, b, y) ==
    a \in 0 .. 255 /\ b \in 0 .. 255 /\ y = ((a * 256 + b) % 16384) + 32768

(* Two bytes that make a number come apart as they were.                   *)
LEMMA BytesApart ==
    ASSUME NEW a, NEW b, NEW x, TwoBytes(a, b, x)
    PROVE  Uuids!Byte(x, 0) = a /\ Uuids!Byte(x, 1) = b
<1>1. x \div 256 = a /\ x % 256 = b
  BY DEF TwoBytes
<1> QED BY <1>1 DEF Uuids!Byte

(* They come apart with the four bits of the version set.                  *)
LEMMA VersionBits ==
    ASSUME NEW a, NEW b, NEW y, WithVersion(a, b, y)
    PROVE  /\ Uuids!Byte(y, 0) \div 16 = 4 /\ Uuids!Byte(y, 0) % 16 = a % 16
           /\ Uuids!Byte(y, 1) = b
<1>0. a \in 0 .. 255 /\ b \in 0 .. 255 /\ y = ((a * 256 + b) % 4096) + 16384
  BY DEF WithVersion
<1>1. PICK q \in 0 .. 15, r \in 0 .. 15 : a = 16 * q + r
  <2>1. a \div 16 \in 0 .. 15 /\ a % 16 \in 0 .. 15 /\ a = 16 * (a \div 16) + (a % 16)
    BY <1>0
  <2> QED BY <2>1
<1>2. (a * 256 + b) % 4096 = 256 * r + b
  BY <1>0, <1>1
<1>3. y = 256 * (64 + r) + b
  BY <1>0, <1>2
<1>4. y \div 256 = 64 + r /\ y % 256 = b
  BY <1>0, <1>3
<1>5. (64 + r) \div 16 = 4 /\ (64 + r) % 16 = r /\ a % 16 = r
  BY <1>1
<1> QED BY <1>4, <1>5 DEF Uuids!Byte

(* They come apart with the two bits of the variant set.                   *)
LEMMA VariantBits ==
    ASSUME NEW a, NEW b, NEW y, WithVariant(a, b, y)
    PROVE  /\ Uuids!Byte(y, 0) \div 64 = 2 /\ Uuids!Byte(y, 0) % 64 = a % 64
           /\ Uuids!Byte(y, 1) = b
<1>0. a \in 0 .. 255 /\ b \in 0 .. 255 /\ y = ((a * 256 + b) % 16384) + 32768
  BY DEF WithVariant
<1>1. PICK q \in 0 .. 3, r \in 0 .. 63 : a = 64 * q + r
  <2>1. a \div 64 \in 0 .. 3 /\ a % 64 \in 0 .. 63 /\ a = 64 * (a \div 64) + (a % 64)
    BY <1>0
  <2> QED BY <2>1
<1>2. (a * 256 + b) % 16384 = 256 * r + b
  BY <1>0, <1>1
<1>3. y = 256 * (128 + r) + b
  BY <1>0, <1>2
<1>4. y \div 256 = 128 + r /\ y % 256 = b
  BY <1>0, <1>3
<1>5. (128 + r) \div 64 = 2 /\ (128 + r) % 64 = r /\ a % 64 = r
  BY <1>1
<1> QED BY <1>4, <1>5 DEF Uuids!Byte

(* What the identifier says that is made from a buffer of bytes.           *)
Made(b) == Uuids!uuid_pack(Uuids!Versioned(Uuids!uuid_unpack(b)))

BitsRight(b, made) ==
    \A i \in 0 .. 15 :
        CASE i = 6 -> made[i] \div 16 = 4 /\ made[i] % 16 = b[i] % 16
          [] i = 8 -> made[i] \div 64 = 2 /\ made[i] % 64 = b[i] % 64
          [] OTHER -> made[i] = b[i]

(* An identifier has the random bits of its buffer but for those of        *)
(* version and variant.                                                    *)
LEMMA MadeRight ==
    ASSUME NEW b \in [0 .. 15 -> 0 .. 255]
    PROVE  BitsRight(b, Made(b))
<1>1. PICK u : u = Uuids!Versioned(Uuids!uuid_unpack(b))
  OBVIOUS
<1>2. PICK m : m = Made(b)
  OBVIOUS
<1>3. /\ u.low1 = b[0] * 256 + b[1] /\ u.low2 = b[2] * 256 + b[3]
      /\ u.time_mid = b[4] * 256 + b[5]
      /\ u.time_hi_and_version = ((b[6] * 256 + b[7]) % 4096) + 16384
      /\ u.clock_seq = ((b[8] * 256 + b[9]) % 16384) + 32768
      /\ \A i \in 10 .. 15 : u.node[i] = b[i]
  BY <1>1 DEF Uuids!Versioned, Uuids!uuid_unpack, Uuids!Number
<1>4. /\ m[0] = Uuids!Byte(u.low1, 0) /\ m[1] = Uuids!Byte(u.low1, 1)
      /\ m[2] = Uuids!Byte(u.low2, 0) /\ m[3] = Uuids!Byte(u.low2, 1)
      /\ m[4] = Uuids!Byte(u.time_mid, 0) /\ m[5] = Uuids!Byte(u.time_mid, 1)
      /\ m[6] = Uuids!Byte(u.time_hi_and_version, 0)
      /\ m[7] = Uuids!Byte(u.time_hi_and_version, 1)
      /\ m[8] = Uuids!Byte(u.clock_seq, 0) /\ m[9] = Uuids!Byte(u.clock_seq, 1)
      /\ \A i \in 10 .. 15 : m[i] = u.node[i]
  BY <1>1, <1>2 DEF Made, Uuids!uuid_pack, Uuids!SIZE
<1>5. \A i \in 0 .. 15 : b[i] \in 0 .. 255
  OBVIOUS
<1>6. /\ m[0] = b[0] /\ m[1] = b[1] /\ m[2] = b[2] /\ m[3] = b[3]
      /\ m[4] = b[4] /\ m[5] = b[5]
  <2>1. /\ TwoBytes(b[0], b[1], u.low1) /\ TwoBytes(b[2], b[3], u.low2)
        /\ TwoBytes(b[4], b[5], u.time_mid)
    BY <1>3, <1>5 DEF TwoBytes
  <2> QED BY <2>1, <1>4, BytesApart
<1>7. m[6] \div 16 = 4 /\ m[6] % 16 = b[6] % 16 /\ m[7] = b[7]
  <2>1. WithVersion(b[6], b[7], u.time_hi_and_version)
    BY <1>3, <1>5 DEF WithVersion
  <2> QED BY <2>1, <1>4, VersionBits
<1>8. m[8] \div 64 = 2 /\ m[8] % 64 = b[8] % 64 /\ m[9] = b[9]
  <2>1. WithVariant(b[8], b[9], u.clock_seq)
    BY <1>3, <1>5 DEF WithVariant
  <2> QED BY <2>1, <1>4, VariantBits
<1>9. \A i \in 10 .. 15 : m[i] = b[i]
  BY <1>3, <1>4
<1>10. BitsRight(b, m)
  BY <1>6, <1>7, <1>8, <1>9 DEF BitsRight
<1> QED BY <1>2, <1>10

UuidInv ==
    /\ u_bufs \in Seq(UuidBufs) /\ DOMAIN u_out = DOMAIN u_bufs /\ u_out \in Seq({Made(b) : b \in UuidBufs})
    /\ \A k \in DOMAIN u_out : u_out[k] = Made(u_bufs[k])

(* Generate makes the next identifier of the next buffer.                  *)
LEMMA UuidNextKeeps == UuidInv /\ Uuids!Next => UuidInv'
<1> SUFFICES ASSUME UuidInv, Uuids!Next PROVE UuidInv'
  OBVIOUS
<1>1. CASE Uuids!Read
  BY <1>1 DEF Uuids!Read, UuidInv
<1>2. CASE Uuids!Generate
  <2>1. PICK b \in UuidBufs : /\ u_out' = Append(u_out, Made(b)) /\ u_bufs' = Append(u_bufs, b)
    BY <1>2 DEF Uuids!Generate, Made
  <2>2. PICK made : made = Made(b)
    OBVIOUS
  <2>3. PICK All : All = {Made(c) : c \in UuidBufs}
    OBVIOUS
  <2>4. u_out \in Seq(All) /\ made \in All /\ u_bufs \in Seq(UuidBufs) /\ DOMAIN u_out = DOMAIN u_bufs
    BY <2>2, <2>3 DEF UuidInv
  <2>5. /\ u_out' \in Seq(All) /\ u_bufs' \in Seq(UuidBufs) /\ DOMAIN u_out' = DOMAIN u_bufs'
        /\ \A k \in DOMAIN u_out' : \/ k \in DOMAIN u_out /\ u_out'[k] = u_out[k] /\ u_bufs'[k] = u_bufs[k]
                                    \/ u_out'[k] = made /\ u_bufs'[k] = b
    BY <2>1, <2>2, <2>4
  <2> QED BY <2>2, <2>3, <2>5 DEF UuidInv
<1> QED BY <1>1, <1>2 DEF Uuids!Next

(* At first there are no identifiers.                                      *)
LEMMA UuidInitially == Uuids!Init => UuidInv
BY DEF Uuids!Init, UuidInv

(* The invariant says which bits are random.                               *)
LEMMA UuidRandom == UuidInv => Uuids!OtherBitsRandom
<1> SUFFICES ASSUME UuidInv PROVE Uuids!OtherBitsRandom
  OBVIOUS
<1>1. ASSUME NEW k \in DOMAIN u_out PROVE BitsRight(u_bufs[k], u_out[k])
  <2>1. u_bufs[k] \in [0 .. 15 -> 0 .. 255]
    BY BufsAssumption DEF UuidInv
  <2> QED BY <2>1, MadeRight DEF UuidInv
<1> QED BY <1>1 DEF BitsRight, Uuids!OtherBitsRandom, Uuids!SIZE

(* No step of any part breaks the invariant of the identifiers.            *)
LEMMA UuidStepKeeps ==
    ASSUME which = "uuid" => UuidInv,
           [AllNext]_all_vars
    PROVE  (which = "uuid" => UuidInv)'
<1>1. CASE UuidsStep
  BY <1>1, UuidNextKeeps DEF UuidsStep
<1>2. CASE \/ HttpStep \/ PlusStep \/ IniStep \/ CfgStep \/ NodeStep \/ SelectStep \/ RemovalStep \/ PackerStep
           \/ UNCHANGED all_vars
  <2>1. which' = which /\ UNCHANGED <<u_bufs, u_out>>
    BY <1>2 DEF HttpStep, PlusStep, IniStep, CfgStep, NodeStep, SelectStep, RemovalStep, PackerStep, u_vars, all_vars
  <2> QED BY <2>1 DEF UuidInv
<1> QED BY <1>1, <1>2 DEF AllNext

(* Every identifier has the random bits of its buffer at their places, but *)
(* for those of version and variant, whatever the buffer (uuid.c:88-167).  *)
THEOREM IdentifiersStayRandom == AllSpec => []UuidOtherBitsRandom
<1> DEFINE Inv == which = "uuid" => UuidInv
<1>1. AllInit => Inv
  BY UuidInitially DEF AllInit
<1>2. Inv /\ [AllNext]_all_vars => Inv'
  BY UuidStepKeeps
<1>3. Inv => UuidOtherBitsRandom
  BY UuidRandom DEF UuidOtherBitsRandom
<1> QED BY <1>1, <1>2, <1>3, PTL DEF AllSpec
===============================================================================
