---------------------------------- MODULE Uuid ----------------------------------
(***************************************************************************)
(* The random identifiers of src/C/source/common/source/uuid.c: bytes are  *)
(* read from a device that may give fewer than asked for, or none, and     *)
(* become the fields of a struct and bytes again.                          *)
(***************************************************************************)
EXTENDS Integers, SequencesExt

CONSTANTS
    Bufs,           \* what may be in the buffer once it was filled and mixed
    Num             \* the identifiers of one call

SIZE == 16
MAX_LOSE == 16

\* a device that cannot be opened is as one that has failed too often
NeverOpened == MAX_LOSE + 2

VARIABLES
    n,              \* the bytes still to read
    lose_counter,
    out,            \* the identifiers
    bufs            \* history: the buffers they were made from

vars == <<n, lose_counter, out, bufs>>

Init ==
    /\ n = SIZE
    /\ lose_counter \in {0, NeverOpened}
    /\ out = << >>
    /\ bufs = << >>

\* the number that two bytes make, the highest first
Number(b, first) == b[first] * 256 + b[first + 1]

uuid_unpack(b) ==
    [low1 |-> Number(b, 0), low2 |-> Number(b, 2),      \* the halves of time_low
     time_mid |-> Number(b, 4), time_hi_and_version |-> Number(b, 6),
     clock_seq |-> Number(b, 8), node |-> [i \in 10 .. 15 |-> b[i]]]

\* byte i of two, the highest first
MutByte(x, i) == IF i = 1 THEN x \div 256 ELSE x % 256

Byte(x, i) == IF i = 0 THEN x \div 256 ELSE x % 256

uuid_pack(uu) ==
    [i \in 0 .. SIZE - 1 |->
        CASE i < 2 -> Byte(uu.low1, i)
          [] i \in 2 .. 3 -> Byte(uu.low2, i - 2)
          [] i \in 4 .. 5 -> Byte(uu.time_mid, i - 4)
          [] i \in 6 .. 7 -> Byte(uu.time_hi_and_version, i - 6)
          [] i \in 8 .. 9 -> Byte(uu.clock_seq, i - 8)
          [] OTHER -> uu.node[i]]

\* & 0x3FFF | 0x8000, and & 0x0FFF | 0x4000
Versioned(uu) ==
    [uu EXCEPT !.clock_seq = (@ % 16384) + 32768,
               !.time_hi_and_version = (@ % 4096) + 16384]

\* read gives some of the bytes and resets the counter, or gives none
Read ==
    /\ Len(out) < Num
    /\ n > 0 /\ lose_counter < NeverOpened
    /\ \/ /\ \E x \in 1 .. n : n' = n - x
          /\ lose_counter' = 0
       \/ /\ lose_counter' = lose_counter + 1
          /\ UNCHANGED n
    /\ UNCHANGED <<out, bufs>>

(* Bytes that were not read are whatever the buffer held; all are mixed    *)
(* with those of rand.                                                     *)
Generate ==
    /\ Len(out) < Num
    /\ n = 0 \/ lose_counter = NeverOpened
    /\ \E b \in Bufs :
          /\ out' = Append(out, uuid_pack(Versioned(uuid_unpack(b))))
          /\ bufs' = Append(bufs, b)
    /\ n' = SIZE
    /\ lose_counter' \in {0, NeverOpened}

Next == Read \/ Generate

Spec == Init /\ [][Next]_vars
-----------------------------------------------------------------------------
(* Every identifier has the four bits of its version in byte 6 and the two *)
(* of its variant in byte 8, and every other bit is the random one of the  *)
(* buffer at its place: the fields go apart and together again in the same *)
(* order (uuid.c:88-167).                                                  *)
OtherBitsRandom ==
    \A k \in DOMAIN out : \A i \in 0 .. SIZE - 1 :
        LET made == out[k][i]
            random == bufs[k][i]
        IN  CASE i = 6 -> made \div 16 = 4 /\ made % 16 = random % 16
              [] i = 8 -> made \div 64 = 2 /\ made % 64 = random % 64
              [] OTHER -> made = random
=============================================================================
