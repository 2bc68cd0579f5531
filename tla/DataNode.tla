------------------------------- MODULE DataNode -------------------------------
(***************************************************************************)
(* The byte buffer of src/Cpp/source/unclassify/DataNode.cpp: data is read *)
(* from the front, _buff[_from], and pushed behind the end, _buff[_to].    *)
(***************************************************************************)
EXTENDS Integers, SequencesExt

CONSTANTS
    Bytes,
    Capacity,       \* _capacity
    MaxLen          \* bound: bytes of one call

Zero == "0"         \* what memset leaves

ASSUME BytesAssumption == Zero \notin Bytes /\ Capacity \in Nat /\ MaxLen \in Nat

VARIABLES
    buff, from, to,
    overrun,        \* memcpy got a negative length
    held            \* history: the bytes accepted and not read

nvars == <<buff, from, to, overrun, held>>

init ==
    /\ buff = [i \in 0 .. Capacity - 1 |-> Zero]
    /\ from = 0
    /\ to = 0
    /\ overrun = FALSE
    /\ held = << >>

GetDataLen == to - from

Data == [i \in 1 .. GetDataLen |-> buff[from + i - 1]]

MutCompacted ==
    [i \in DOMAIN buff |-> IF i < Min({from, GetDataLen}) THEN buff[from + i] ELSE buff[i]]

\* the data moved to the start of the buffer, as GetSpaceLen and PushData do
Compacted ==
    [i \in DOMAIN buff |-> IF i < GetDataLen THEN buff[from + i] ELSE buff[i]]

ReadData(len, peek) ==
    LET n == Min({len, GetDataLen})
    IN  /\ from' = IF peek THEN from ELSE from + n
        /\ held' = IF peek THEN held ELSE SubSeq(held, n + 1, Len(held))
        /\ UNCHANGED <<buff, to, overrun>>

(* The space is taken to be the free bytes less the bytes in use: what is  *)
(* more is not pushed, and of a buffer filled beyond its half the space is *)
(* negative.                                                               *)
Accepted(len) == Min({len, (Capacity - GetDataLen) - GetDataLen})

Push(src) ==
    LET n == Accepted(Len(src))
        end == GetDataLen
    IN  /\ src # << >>
        /\ from' = 0
        /\ IF n < 0
           THEN /\ overrun' = TRUE
                /\ buff' = Compacted
                /\ to' = end
                /\ UNCHANGED held
           ELSE /\ buff' = [i \in DOMAIN buff |->
                    IF i \in end .. end + n - 1 THEN src[i - end + 1] ELSE Compacted[i]]
                /\ to' = end + n
                /\ held' = held \o SubSeq(src, 1, n)
                /\ UNCHANGED overrun

\* memset of what is behind the data
Cleared(b, end) == [i \in DOMAIN b |-> IF i < end THEN b[i] ELSE Zero]

GetSpaceLen ==
    /\ buff' = Compacted
    /\ from' = 0
    /\ to' = GetDataLen
    /\ UNCHANGED <<overrun, held>>

(* AdjustLen of a negative difference drops data at the end.               *)
Shrink(diff) ==
    LET n == Min({GetDataLen, diff})
    IN  /\ to' = to - n
        /\ buff' = Cleared(buff, to - n)
        /\ held' = SubSeq(held, 1, Len(held) - n)
        /\ UNCHANGED <<from, overrun>>

(* AdjustLen of a positive difference takes in bytes that were copied to   *)
(* GetBuff before; the code does so with nodes that are new.               *)
Fill(src) ==
    LET n == Min({Capacity, Len(src)})
    IN  /\ from = 0 /\ to = 0
        /\ to' = n
        /\ buff' = [i \in DOMAIN buff |-> IF i < n THEN src[i + 1] ELSE Zero]
        /\ held' = SubSeq(src, 1, n)
        /\ UNCHANGED <<from, overrun>>

nNext ==
    /\ ~overrun
    /\ \/ \E len \in 0 .. MaxLen, peek \in BOOLEAN : ReadData(len, peek)
       \/ \E src \in BoundedSeq(Bytes, MaxLen) : Push(src)
       \/ \E diff \in 1 .. MaxLen : Shrink(diff)
       \/ \E src \in BoundedSeq(Bytes, MaxLen) : Fill(src)
       \/ GetSpaceLen
-----------------------------------------------------------------------------
(* The node is a queue of the bytes that its calls said they took: none is *)
(* lost, changed or repeated by moving the data in the buffer, and they    *)
(* stay inside it (DataNode.cpp:45-139).                                   *)
BytesInOrder ==
    /\ 0 <= from /\ from <= to /\ to <= Capacity
    /\ Data = held
=============================================================================
