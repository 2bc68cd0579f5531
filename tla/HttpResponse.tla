----------------------------- MODULE HttpResponse -----------------------------
(***************************************************************************)
(* The parser of src/Cpp/source/unclassify/HttpResponseParse.cpp: bytes    *)
(* are pushed into a DataNode in pieces of any length, and Parse, called   *)
(* at any time, goes on from where it was.                                 *)
(*                                                                         *)
(* The response is a record: its first line, the lines of its headers, its *)
(* chunks or its other body, and bytes that follow it.  Its text is a      *)
(* sequence of symbols; those of lines stand for many bytes, cr, lf, the   *)
(* digits of a chunk's length and the bytes of bodies for one each.        *)
(***************************************************************************)
EXTENDS DataNode

CONSTANTS
    Responses,      \* records: line, headers, chunks, body (what comes behind
                    \* these), and complete, if Parse should find the end
    SizeOf          \* what strtol makes of a line that begins with a symbol:
                    \* a number for those of digits; all others are 0

VARIABLES
    response,       \* what the peer sends
    sent,           \* the symbols of it pushed so far
    m_hStatus, m_nHandledEnd, m_nHttpCode,
    m_mHeaders,     \* from names to lines
    m_mBodys,       \* the bodies, in the order of m_nBodySerivalNo
    parsed,         \* history: Parse was called since the last push
    unlucky         \* history: Parse took two bytes for the end, or a JSON
                    \* text for complete because of what is behind it

hvars == <<response, sent, m_hStatus, m_nHandledEnd, m_nHttpCode, m_mHeaders,
           m_mBodys, parsed, unlucky>>
-----------------------------------------------------------------------------
(* The symbols.                                                            *)
Crlf == <<"cr", "lf">>
CodeOf == [x \in {"200", "line"} |-> IF x = "200" THEN 200 ELSE 0]

\* a header line, and its name
NameOf == [length |-> "Content-Length", chunked |-> "Transfer-Encoding",
           json |-> "Content-Type", html |-> "Content-Type", host |-> "Host"]

\* the digits of a length
Digit(n) == CHOOSE s \in DOMAIN SizeOf : SizeOf[s] = n

JsonEnd == "}"

Lines(ls) == FlattenSeq([i \in DOMAIN ls |-> <<ls[i]>> \o Crlf])
ChunkText(chunk) == <<Digit(Len(chunk))>> \o Crlf \o chunk \o Crlf

Text(r) ==
    <<r.line>> \o Crlf \o Lines(r.headers) \o Crlf
        \o FlattenSeq([i \in DOMAIN r.chunks |-> ChunkText(r.chunks[i])])
        \o r.body
-----------------------------------------------------------------------------
HttpInit ==
    /\ init
    /\ response \in Responses
    /\ sent = 0
    /\ m_hStatus = "Start"
    /\ m_nHandledEnd = 0
    /\ m_nHttpCode = -1
    /\ m_mHeaders = << >>
    /\ m_mBodys = << >>
    /\ parsed = FALSE
    /\ unlucky = FALSE

(* PushData of the next n symbols; what is not accepted is sent again.     *)
PushData(n) ==
    /\ sent + n <= Len(Text(response))
    /\ Push(SubSeq(Text(response), sent + 1, sent + n))
    /\ sent' = sent + Len(held') - Len(held)
    /\ parsed' = FALSE
    /\ UNCHANGED <<response, m_hStatus, m_nHandledEnd, m_nHttpCode, m_mHeaders,
                   m_mBodys, unlucky>>

\* the place of the first of these symbols behind n of data, 0 for none
Find(data, n, symbols) ==
    LET at == {i \in n + 1 .. Len(data) - Len(symbols) + 1 :
                   SubSeq(data, i, i + Len(symbols) - 1) = symbols}
    IN  IF at = {} THEN 0 ELSE Min(at)

(* The phases of Parse: each takes the state that the one before left, a   *)
(* record of the members, and either goes on to its status or stays.       *)
parseResponse(s) ==
    LET end == Find(Data, 0, Crlf)
    IN  IF end = 0 THEN s
        ELSE [s EXCEPT !.status = "Response", !.handled = end + 1,
                       !.code = CodeOf[Head(Data)]]

(* The empty line is looked for behind the first line, with the end of     *)
(* the line before it: a response without headers never gets here.  Of     *)
(* headers with one name the first is kept.                                *)
parseHeaders(s) ==
    LET end == Find(Data, s.handled, Crlf \o Crlf)
        lines == {i \in s.handled + 1 .. end - 1 : Data[i] \in DOMAIN NameOf}
    IN  IF end = 0 THEN s
        ELSE [s EXCEPT !.status = "Headers", !.handled = end + 3,
                       !.headers = [k \in {NameOf[Data[i]] : i \in lines} |->
                           Data[Min({i \in lines : NameOf[Data[i]] = k})]]]

\* where the next call of Parse goes on behind a chunk that was taken
MutHandled(l, start, len) == l.handled

Handled(l, start, len) == start - 1 + len

MutAtEnd(len, surplus) == len = 0 /\ surplus >= 2

AtEnd(len, surplus) == len = 0 /\ surplus = 2

(* One turn of the loop: the line is read, and what its length says is     *)
(* behind it.  A line without a length, as the one that ends each chunk,   *)
(* counts as a chunk of length 0, and two bytes behind one as the end.     *)
Turn(l) ==
    LET end == Find(Data, l.at, Crlf)
        key == SubSeq(Data, l.at + 1, end - 1)
        len == IF key = << >> \/ Head(key) \notin DOMAIN SizeOf THEN 0 ELSE SizeOf[Head(key)]
        start == end + 2
        surplus == Len(Data) - start + 1
    IN  CASE end = 0 \/ len < 0 -> [l EXCEPT !.turn = "stays"]
          [] end # 0 /\ AtEnd(len, surplus) ->
                 [l EXCEPT !.turn = "finished", !.early = (key = << >> /\ surplus = 2)]
          [] end # 0 /\ len = 0 /\ ~AtEnd(len, surplus) -> [l EXCEPT !.at = start - 1]
          [] end # 0 /\ len > 0 /\ surplus < len + 2 -> [l EXCEPT !.turn = "stays"]
          [] OTHER -> [l EXCEPT !.at = start - 1 + len, !.handled = Handled(l, start, len),
                                !.bodys = Append(@, SubSeq(Data, start, start + len - 1))]

(* The loop ends when the data does: each turn passes the end of a line.   *)
parseBodyByTransferEncoding(s) ==
    LET l0 == [turn |-> "goes", early |-> FALSE, at |-> s.handled, handled |-> s.handled,
               bodys |-> s.bodys]
        loop[i \in 0 .. Len(Data) + 1] ==
            IF i = 0 THEN l0
            ELSE LET before == loop[i - 1]
                 IN  IF before.turn = "goes" THEN Turn(before) ELSE before
        l == loop[Len(Data) + 1]
    IN  [s EXCEPT !.status = IF l.turn = "finished" THEN "End" ELSE @,
                  !.handled = l.handled, !.bodys = l.bodys, !.unlucky = @ \/ l.early]

(* The text is copied without an end, so cJSON may also read what is       *)
(* behind it in memory, and take that for the missing rest.                *)
parseJson(s, beyond) ==
    LET rest == SubSeq(Data, s.handled + 1, Len(Data))
        whole == JsonEnd \in ToSet(rest)
    IN  IF whole \/ beyond
        THEN [s EXCEPT !.status = "End", !.bodys = Append(@, rest), !.unlucky = @ \/ ~whole]
        ELSE s

(* A body of which the length is given is neither waited for nor kept.     *)
parseBody(s, beyond) ==
    CASE "Content-Length" \in DOMAIN s.headers -> [s EXCEPT !.status = "End"]
      [] /\ "Content-Length" \notin DOMAIN s.headers
         /\ "Transfer-Encoding" \in DOMAIN s.headers -> parseBodyByTransferEncoding(s)
      [] /\ DOMAIN s.headers \cap {"Content-Length", "Transfer-Encoding"} = {}
         /\ "Content-Type" \in DOMAIN s.headers
         /\ s.headers["Content-Type"] = "json" -> parseJson(s, beyond)
      [] OTHER -> s

(* The phase Body is passed at once: what it does is left out.             *)
Parse(beyond) ==
    LET s0 == [status |-> m_hStatus, handled |-> m_nHandledEnd, code |-> m_nHttpCode,
               headers |-> m_mHeaders, bodys |-> m_mBodys, unlucky |-> unlucky]
        s1 == IF s0.status = "Start" THEN parseResponse(s0) ELSE s0
        s2 == IF s1.status = "Response" THEN parseHeaders(s1) ELSE s1
        s3 == IF s2.status = "Headers" THEN parseBody(s2, beyond) ELSE s2
    IN  /\ m_hStatus' = s3.status
        /\ m_nHandledEnd' = s3.handled
        /\ m_nHttpCode' = s3.code
        /\ m_mHeaders' = s3.headers
        /\ m_mBodys' = s3.bodys
        /\ unlucky' = s3.unlucky
        /\ parsed' = TRUE
        /\ UNCHANGED <<nvars, response, sent>>

HttpNext ==
    /\ ~overrun
    /\ \/ \E n \in 1 .. Len(Text(response)) : PushData(n)
       \/ \E beyond \in BOOLEAN : Parse(beyond)
-----------------------------------------------------------------------------
(* However the response was cut, its code, its headers and its chunks come *)
(* out as they were sent: no chunk is cut, repeated or left out between    *)
(* two, over all the calls of Parse (HttpResponseParse.cpp:112-386).       *)
PiecesAsSent ==
    /\ m_hStatus # "Start" => m_nHttpCode = CodeOf[response.line]
    /\ m_hStatus \notin {"Start", "Response"} =>
           \A i \in DOMAIN response.headers :
               LET name == NameOf[response.headers[i]]
               IN  (\A j \in 1 .. i - 1 : NameOf[response.headers[j]] # name) =>
                       name \in DOMAIN m_mHeaders /\ m_mHeaders[name] = response.headers[i]
    /\ response.chunks # << >> => IsPrefix(m_mBodys, response.chunks)

(* A chunked or JSON response that was pushed whole and then parsed has    *)
(* come to its end with its whole body, and none has before, unless a cut  *)
(* left just two bytes behind the end of a chunk                           *)
(* (HttpResponseParse.cpp:302-386, HttpResponseParse.h:24).                *)
EndIsComplete ==
    LET whole == sent = Len(Text(response))
        chunked == "Transfer-Encoding" \in DOMAIN m_mHeaders
    IN  (~unlucky /\ ~overrun /\ response.complete) =>
            /\ (whole /\ parsed) => m_hStatus = "End"
            /\ (m_hStatus = "End" /\ "Content-Length" \notin DOMAIN m_mHeaders) =>
                   /\ whole \/ ~chunked
                   /\ m_mBodys = IF chunked THEN Front(response.chunks) ELSE <<response.body>>
=============================================================================
