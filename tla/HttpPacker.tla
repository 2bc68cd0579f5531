------------------------------ MODULE HttpPacker ------------------------------
(***************************************************************************)
(* The packer of requests of src/Cpp/source/unclassify/HttpPacker.cpp.  A  *)
(* request is packed in two passes: one counts its bytes, the other writes *)
(* them into a block of that size.  Texts count by their lengths; the map  *)
(* of headers has no function that fills it, and is left out.              *)
(***************************************************************************)
EXTENDS Integers, SequencesExt

CONSTANTS
    Lengths,        \* of methods, addresses and versions
    BodyLengths     \* of bodies, with those that SetBody refuses

VARIABLES
    m_sMethod, m_sUrl, m_sVersion,
    m_eBody, m_eHole,
    heap,           \* the sizes of the blocks that malloc gave
    spos,           \* how far the last Pack wrote
    state           \* "alive", "destroyed" or, after memcpy to NULL, "crashed"

vars == <<m_sMethod, m_sUrl, m_sVersion, m_eBody, m_eHole, heap, spos, state>>

NULL == 0
Nothing == [buf |-> NULL, size |-> 0]
Without(blocks, buf) == [b \in DOMAIN blocks \ {buf} |-> blocks[b]]

\* a block of this size at an address that may have been used before
Block(blocks, size) ==
    LET b == CHOOSE b \in 1 .. 3 : b \notin DOMAIN blocks
    IN  [buf |-> b, heap |-> [x \in DOMAIN blocks \cup {b} |->
                                 IF x = b THEN size ELSE blocks[x]]]

Init ==
    /\ m_sMethod = 0 /\ m_sUrl = 0 /\ m_sVersion = 0
    /\ m_eBody = Nothing
    /\ m_eHole = Nothing
    /\ heap = << >>
    /\ spos = 0
    /\ state = "alive"
-----------------------------------------------------------------------------
\* the characters of %d
Digits(n) == Cardinality({k \in 0 .. 9 : 10 ^ k <= n})

HasBody == m_eBody.buf # NULL /\ m_eBody.size # 0

MutCalcTotalLen ==
    m_sMethod + 1 + m_sUrl + 1 + 5 + m_sVersion + 2 + 2
        + (IF HasBody THEN 14 + 1 + 2 + 2 ELSE 0)
        + (IF m_eBody.buf # NULL THEN m_eBody.size ELSE 0)

calcTotalLen ==
    m_sMethod + 1 + m_sUrl + 1 + 5 + m_sVersion + 2 + 2
        + (IF HasBody THEN 14 + 1 + Digits(m_eBody.size) + 2 ELSE 0)
        + (IF m_eBody.buf # NULL THEN m_eBody.size ELSE 0)

\* what Pack copies, in order
Copied ==
    LET line == m_sMethod + 1 + m_sUrl + 1 + 5 + m_sVersion + 2
        length == IF HasBody THEN 14 + 1 + Digits(m_eBody.size) + 2 ELSE 0
        body == IF HasBody THEN m_eBody.size ELSE 0
    IN  line + length + 2 + body

\* SetMethod, SetUrl and SetVersion of texts that are not NULL
SetLine ==
    /\ \E length \in Lengths :
          \/ m_sMethod' = length /\ UNCHANGED <<m_sUrl, m_sVersion>>
          \/ m_sUrl' = length /\ UNCHANGED <<m_sMethod, m_sVersion>>
          \/ m_sVersion' = length /\ UNCHANGED <<m_sMethod, m_sUrl>>
    /\ UNCHANGED <<m_eBody, m_eHole, heap, spos, state>>

(* The old body is freed before the new one is allocated, but kept when    *)
(* the new one is empty.                                                   *)
SetBody(len) ==
    LET freed == Without(heap, m_eBody.buf)
        new == Block(freed, len)
    IN  /\ \/ /\ len <= 0
              /\ UNCHANGED <<m_eBody, heap, state>>
           \/ /\ len > 0
              /\ heap' = new.heap
              /\ m_eBody' = [buf |-> new.buf, size |-> len]
              /\ UNCHANGED state
           \/ /\ len > 0
              /\ heap' = freed
              /\ m_eBody' = [buf |-> NULL, size |-> len]
              /\ state' = "crashed"
        /\ UNCHANGED <<m_sMethod, m_sUrl, m_sVersion, m_eHole, spos>>

(* The block of the last Pack is freed; when malloc fails its size stays   *)
(* behind without a block.                                                 *)
Pack ==
    LET size == calcTotalLen
        freed == Without(heap, m_eHole.buf)
        new == Block(freed, size)
    IN  /\ \/ /\ heap' = new.heap
              /\ m_eHole' = [buf |-> new.buf, size |-> size]
              /\ spos' = Copied
           \/ /\ heap' = freed
              /\ m_eHole' = [buf |-> NULL, size |-> size]
              /\ spos' = 0
        /\ UNCHANGED <<m_sMethod, m_sUrl, m_sVersion, m_eBody, state>>

\* the destructor
Destroy ==
    /\ heap' = Without(Without(heap, m_eBody.buf), m_eHole.buf)
    /\ state' = "destroyed"
    /\ UNCHANGED <<m_sMethod, m_sUrl, m_sVersion, m_eBody, m_eHole, spos>>

Next ==
    /\ state = "alive"
    /\ SetLine \/ (\E len \in BodyLengths : SetBody(len)) \/ Pack \/ Destroy

Spec == Init /\ [][Next]_vars
-----------------------------------------------------------------------------
(* However often a packer is filled and packed again, and whichever malloc *)
(* failed: Pack writes just the bytes it counted, whatever the number of   *)
(* digits of the length of the body, the blocks it has are those that its  *)
(* members name, and the destructor leaves none (HttpPacker.cpp:15-26,     *)
(* 52-194, 209-222).                                                       *)
FillsItsBlocks ==
    /\ state = "destroyed" => heap = << >>
    /\ state = "alive" =>
          /\ DOMAIN heap = {m_eBody.buf, m_eHole.buf} \ {NULL}
          /\ m_eBody.buf # NULL =>
                /\ m_eBody.buf # m_eHole.buf
                /\ heap[m_eBody.buf] = m_eBody.size
          /\ m_eHole.buf # NULL =>
                heap[m_eHole.buf] = m_eHole.size /\ spos = m_eHole.size
=============================================================================
