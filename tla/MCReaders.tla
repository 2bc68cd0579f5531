------------------------------- MODULE MCReaders -------------------------------
(* The readers, the buffer, parser and packer of HTTP, the select server,  *)
(* the removal of a directory and the identifiers for TLC.  They share no  *)
(* state: a behaviour is one of one part, the others are off.              *)
EXTENDS HttpResponse, IniText

CONSTANTS
    NodeCapacity, NodeMaxLen,               \* of the buffer alone
    IniSections, IniKeys, IniVals,          \* of both readers of INI texts
    PlusTexts, PlusRecords, PlusCalls,
    IniTexts, IniItems, IniCalls,
    CfgSections, CfgKeys, CfgTexts, CfgCalls,   \* of the configuration reader
    Conns, ServerSize, ServerListen,        \* of the select server
    TreeRoot, TreeParent, TreeDirs, TreeTooLong, TreeOthers,     \* of the removal
    UuidBufs, UuidNum,                      \* of the identifiers
    PackLengths, PackBodies                 \* of the packer

ASSUME NodeAssumption == Zero \notin Bytes /\ NodeCapacity \in Nat /\ NodeMaxLen \in Nat

\* A line has a symbol of its own and is none of the ends of lines.
ASSUME SymbolsAssumption ==
    /\ SizeOf \in [DOMAIN SizeOf -> Int]
    /\ DOMAIN SizeOf \subseteq STRING \ {"cr", "lf"}
    /\ \A r \in Responses :
          /\ r.line \in DOMAIN CodeOf /\ r.headers \in Seq(DOMAIN NameOf)
          /\ r.chunks \in Seq(Seq(STRING)) /\ r.body \in Seq(STRING)
          /\ r.complete \in BOOLEAN

\* Chunks are announced, have a length with a symbol, are empty only at the
\* end, and nothing behind them begins with a length.
ChunksGood(r) ==
    /\ "chunked" \in ToSet(r.headers)
    /\ \A i \in DOMAIN r.chunks :
          /\ \E x \in DOMAIN SizeOf : SizeOf[x] = Len(r.chunks[i])
          /\ i # Len(r.chunks) => r.chunks[i] # << >>
    /\ \A x \in ToSet(r.body) \cap DOMAIN SizeOf : SizeOf[x] <= 0

\* A response that should end has its length in its headers, a last chunk
\* that is empty, or one JSON text.
WholeChunks(r) == r.chunks # << >> /\ r.chunks[Len(r.chunks)] = << >> /\ r.body = << >>

WholeJson(r) ==
    /\ r.chunks = << >> /\ ToSet(r.headers) \cap {"length", "chunked"} = {}
    /\ \E i \in DOMAIN r.headers :
          r.headers[i] = "json" /\ \A j \in 1 .. i - 1 : r.headers[j] # "html"
    /\ r.body # << >>
    /\ \A i \in DOMAIN r.body : (r.body[i] = JsonEnd) = (i = Len(r.body))

ASSUME ResponsesAssumption == \A r \in Responses :
    /\ r.chunks # << >> => ChunksGood(r)
    /\ r.complete => r.headers # << >> /\ ("length" \in ToSet(r.headers) \/ WholeChunks(r) \/ WholeJson(r))

\* sixteen bytes
ASSUME BufsAssumption == UuidBufs \subseteq [0 .. 15 -> 0 .. 255]

\* descriptors 0 to 2 are taken, and the table has room for the listener
ASSUME ServerAssumption ==
    /\ ServerSize \in Nat /\ ServerListen \in 3 .. ServerSize
    /\ Conns \cap {"std", "listen", "free"} = {}

VARIABLES
    which,
    p_file, p_allLine, p_heap, p_cfgDict, p_bscan, p_made, p_destroyed,
    p_crashed, p_calls, p_h,
    i_file, i_configs, i_names, i_dicts, i_broken, i_calls, i_strayed,
    c_file, c_there, c_cfgdict, c_bscan, c_calls, c_scans,
    n_buff, n_from, n_to, n_overrun, n_held,
    s_desc, s_client, s_rfds, s_backlog, s_peer, s_data, s_stopped, s_ended,
    r_kind, r_toolong, r_self, r_stack, r_ret, r_closed, r_refused, r_left,
    r_others,
    u_n, u_lose_counter, u_out, u_bufs,
    k_sMethod, k_sUrl, k_sVersion, k_eBody, k_eHole, k_heap, k_spos, k_state

\* the values of a run
PlusFiles == {
    <<Section("a"), Field("k1", "v1"), Comment, Section("b"), Field("k2", "v2")>>,
    <<Section("a"), Field("k1", "v2"), Bad>>,
    <<Section("b"), Field("k1", "v1"), Section("a"), Field("k1", "v2"), Field("k1", "v1")>>,
    <<Section("a"), Field("k1", "v1"), Long, Field("k2", "v1")>>}

IniFiles == {
    <<Section("a"), Field("k1", "v1"), Comment, Section("b"), Comment, Field("k2", "v2")>>,
    <<Section("a"), Field("k1", "v2"), Field("k2", "")>>,
    <<Section("b"), Field("k1", "v1"), Section("a"), Field("k1", "v2"), Field("k1", "v1")>>,
    <<Section("a"), Field("k1", "v1"), Long, Field("k2", "v1")>>}

\* a value may be empty, and a section without a name is none
CfgFiles == {
    <<Section("a"), Field("k1", "v1"), Comment, Section("b"), Comment, Field("k2", "v2")>>,
    <<Section("a"), Field("k1", "v2"), Bad, Field("k1", "v1"), Field("k3", "")>>,
    <<Section("b"), Field("k1", "v1"), Section(None), Field("k1", "v2"), Section("a"),
      Field("k3", "v1")>>,
    <<Field("k1", "v2"), Section("a"), Field("k1", "v1")>>,
    <<Section("a"), Field("k1", "v1"), Long, Field("k2", "v1")>>}

SomeSizes == "0" :> 0 @@ "1" :> 1 @@ "2" :> 2 @@ "-1" :> -1

Response(line, headers, chunks, body, complete) ==
    [line |-> line, headers |-> headers, chunks |-> chunks, body |-> body,
     complete |-> complete]

\* those that Parse cannot end: a negative length, bytes behind the last
\* chunk, a body that is no JSON, and no headers
SomeResponses == {
    Response("200", <<"chunked">>, <<<<"x">>, <<"y", "x">>, << >>>>, << >>, TRUE),
    Response("200", <<"host", "chunked", "html">>, <<<<"x", "y">>, <<"y", "x">>, << >>>>,
             << >>, TRUE),
    Response("200", <<"chunked">>, <<<<"x">>>>, <<"-1", "cr", "lf">>, FALSE),
    Response("200", <<"chunked">>, <<<<"y">>, << >>>>, <<"200">>, FALSE),
    Response("line", <<"host", "length">>, << >>, <<"x">>, TRUE),
    Response("200", <<"json", "html">>, << >>, <<"x", "y", "}">>, TRUE),
    Response("200", <<"html", "json">>, << >>, <<"x">>, FALSE),
    Response("200", << >>, << >>, << >>, FALSE)}

Tree == [d |-> "r", e |-> "d", f1 |-> "r", f2 |-> "d", f3 |-> "e"]

LongPaths == {{}, {"f2"}, {"e", "f3"}}

SomeBufs == {[i \in 0 .. 15 |-> 0], [i \in 0 .. 15 |-> 255],
             [i \in 0 .. 15 |-> 16 * i + 7], [i \in 0 .. 15 |-> 251 - 13 * i]}

Symmetry == Permutations(Conns)

Plus == INSTANCE IniReaderPlus WITH
    Sections <- IniSections, Keys <- IniKeys, Vals <- IniVals,
    Files <- PlusTexts, MaxRecords <- PlusRecords, MaxCalls <- PlusCalls,
    file <- p_file, allLine <- p_allLine, heap <- p_heap,
    cfgDict <- p_cfgDict, bscan <- p_bscan, made <- p_made,
    destroyed <- p_destroyed, crashed <- p_crashed, calls <- p_calls,
    h <- p_h

Ini == INSTANCE IniReader WITH
    Sections <- IniSections, Keys <- IniKeys, Vals <- IniVals,
    Files <- IniTexts, MaxItems <- IniItems, MaxCalls <- IniCalls,
    file <- i_file, configs <- i_configs, names <- i_names,
    dicts <- i_dicts, broken <- i_broken, calls <- i_calls,
    strayed <- i_strayed

Cfg == INSTANCE CfgReader WITH
    Sections <- CfgSections, Keys <- CfgKeys, Files <- CfgTexts, MaxCalls <- CfgCalls,
    file <- c_file, there <- c_there, cfgdict <- c_cfgdict,
    bscan <- c_bscan, calls <- c_calls, scans <- c_scans

Node == INSTANCE DataNode WITH
    Bytes <- Bytes, Capacity <- NodeCapacity, MaxLen <- NodeMaxLen,
    buff <- n_buff, from <- n_from, to <- n_to, overrun <- n_overrun,
    held <- n_held

Select == INSTANCE SelectServer WITH
    CLIENTSIZE <- ServerSize, Conns <- Conns, server_listen <- ServerListen,
    desc <- s_desc, client <- s_client, rfds <- s_rfds,
    backlog <- s_backlog, peer <- s_peer, data <- s_data,
    stopped <- s_stopped, ended <- s_ended

Removal == INSTANCE RmDir WITH
    Root <- TreeRoot, Parent <- TreeParent, Dirs <- TreeDirs,
    TooLong <- TreeTooLong, MaxOthers <- TreeOthers,
    kind <- r_kind, toolong <- r_toolong, self <- r_self,
    stack <- r_stack, ret <- r_ret, closed <- r_closed,
    refused <- r_refused, left <- r_left, others <- r_others

Uuids == INSTANCE Uuid WITH
    Bufs <- UuidBufs, Num <- UuidNum,
    n <- u_n, lose_counter <- u_lose_counter, out <- u_out, bufs <- u_bufs

Packer == INSTANCE HttpPacker WITH
    Lengths <- PackLengths, BodyLengths <- PackBodies,
    m_sMethod <- k_sMethod, m_sUrl <- k_sUrl, m_sVersion <- k_sVersion,
    m_eBody <- k_eBody, m_eHole <- k_eHole, heap <- k_heap, spos <- k_spos,
    state <- k_state

\* sections have names, and fields have values
ASSUME IniAssumption ==
    /\ IniSections \cup IniKeys \cup IniVals \subseteq STRING \ {None}
    /\ \A text \in PlusTexts \cup IniTexts :
          /\ text \in Seq([kind : STRING, name : STRING, val : STRING])
          /\ \A i \in DOMAIN text :
                /\ text[i].kind = "section" => text[i] = Section(text[i].name) /\ text[i].name # None
                /\ text[i].kind = "field" => text[i].val \in IniVals

\* fields have values
ASSUME CfgAssumption ==
    \A text \in CfgTexts :
        /\ text \in Seq([kind : STRING, name : STRING, val : STRING])
        /\ \A i \in DOMAIN text : text[i].kind = "field" => text[i].val # None

ASSUME PackerAssumption == PackLengths \subseteq Nat /\ PackBodies \subseteq Int

\* every node is below the root
ASSUME TreeAssumption ==
    /\ TreeRoot \notin DOMAIN TreeParent
    /\ \A n \in DOMAIN TreeParent :
          TreeParent[n] \in DOMAIN TreeParent \cup {TreeRoot} /\ Removal!Within(n, TreeRoot)

h_vars == <<nvars, hvars>>
p_vars == <<p_file, p_allLine, p_heap, p_cfgDict, p_bscan, p_made,
            p_destroyed, p_crashed, p_calls, p_h>>
i_vars == <<i_file, i_configs, i_names, i_dicts, i_broken, i_calls,
            i_strayed>>
c_vars == <<c_file, c_there, c_cfgdict, c_bscan, c_calls, c_scans>>
n_vars == <<n_buff, n_from, n_to, n_overrun, n_held>>
s_vars == <<s_desc, s_client, s_rfds, s_backlog, s_peer, s_data, s_stopped,
            s_ended>>
r_vars == <<r_kind, r_toolong, r_self, r_stack, r_ret, r_closed, r_refused,
            r_left, r_others>>
u_vars == <<u_n, u_lose_counter, u_out, u_bufs>>
k_vars == <<k_sMethod, k_sUrl, k_sVersion, k_eBody, k_eHole, k_heap, k_spos,
            k_state>>
all_vars ==
    <<which, h_vars, p_vars, i_vars, c_vars, n_vars, s_vars, r_vars, u_vars, k_vars>>
-----------------------------------------------------------------------------
HttpOff ==
    /\ buff = 0 /\ from = 0 /\ to = 0 /\ overrun = 0 /\ held = 0
    /\ response = 0 /\ sent = 0 /\ m_hStatus = 0 /\ m_nHandledEnd = 0
    /\ m_nHttpCode = 0 /\ m_mHeaders = 0 /\ m_mBodys = 0 /\ parsed = 0
    /\ unlucky = 0
PlusOff ==
    /\ p_file = 0 /\ p_allLine = 0 /\ p_heap = 0 /\ p_cfgDict = 0
    /\ p_bscan = 0 /\ p_made = 0 /\ p_destroyed = 0 /\ p_crashed = 0
    /\ p_calls = 0 /\ p_h = 0
IniOff ==
    /\ i_file = 0 /\ i_configs = 0 /\ i_names = 0 /\ i_dicts = 0
    /\ i_broken = 0 /\ i_calls = 0 /\ i_strayed = 0
CfgOff ==
    /\ c_file = 0 /\ c_there = 0 /\ c_cfgdict = 0 /\ c_bscan = 0
    /\ c_calls = 0 /\ c_scans = 0
NodeOff ==
    /\ n_buff = 0 /\ n_from = 0 /\ n_to = 0 /\ n_overrun = 0 /\ n_held = 0
SelectOff ==
    /\ s_desc = 0 /\ s_client = 0 /\ s_rfds = 0 /\ s_backlog = 0
    /\ s_peer = 0 /\ s_data = 0 /\ s_stopped = 0 /\ s_ended = 0
RemovalOff ==
    /\ r_kind = 0 /\ r_toolong = 0 /\ r_self = 0 /\ r_stack = 0 /\ r_ret = 0
    /\ r_closed = 0 /\ r_refused = 0 /\ r_left = 0 /\ r_others = 0
UuidsOff ==
    /\ u_n = 0 /\ u_lose_counter = 0 /\ u_out = 0 /\ u_bufs = 0
PackerOff ==
    /\ k_sMethod = 0 /\ k_sUrl = 0 /\ k_sVersion = 0 /\ k_eBody = 0
    /\ k_eHole = 0 /\ k_heap = 0 /\ k_spos = 0 /\ k_state = 0

AllInit ==
    /\ which \in {"http", "plus", "ini", "cfg", "node", "select", "remove", "uuid",
                 "pack"}
    /\ IF which = "http" THEN HttpInit ELSE HttpOff
    /\ IF which = "plus" THEN Plus!Init ELSE PlusOff
    /\ IF which = "ini" THEN Ini!Init ELSE IniOff
    /\ IF which = "cfg" THEN Cfg!Init ELSE CfgOff
    /\ IF which = "node" THEN Node!init ELSE NodeOff
    /\ IF which = "select" THEN Select!Init ELSE SelectOff
    /\ IF which = "remove" THEN Removal!Init ELSE RemovalOff
    /\ IF which = "uuid" THEN Uuids!Init ELSE UuidsOff
    /\ IF which = "pack" THEN Packer!Init ELSE PackerOff

HttpStep == which = "http" /\ HttpNext
            /\ UNCHANGED <<which, p_vars, i_vars, c_vars, n_vars, s_vars, r_vars, u_vars, k_vars>>
PlusStep == which = "plus" /\ Plus!Next
            /\ UNCHANGED <<which, h_vars, i_vars, c_vars, n_vars, s_vars, r_vars, u_vars, k_vars>>
IniStep == which = "ini" /\ Ini!Next
            /\ UNCHANGED <<which, h_vars, p_vars, c_vars, n_vars, s_vars, r_vars, u_vars, k_vars>>
CfgStep == which = "cfg" /\ Cfg!Next
            /\ UNCHANGED <<which, h_vars, p_vars, i_vars, n_vars, s_vars, r_vars, u_vars, k_vars>>
NodeStep == which = "node" /\ Node!nNext
            /\ UNCHANGED <<which, h_vars, p_vars, i_vars, c_vars, s_vars, r_vars, u_vars, k_vars>>
SelectStep == which = "select" /\ Select!Next
            /\ UNCHANGED <<which, h_vars, p_vars, i_vars, c_vars, n_vars, r_vars, u_vars, k_vars>>
RemovalStep == which = "remove" /\ Removal!Next
            /\ UNCHANGED <<which, h_vars, p_vars, i_vars, c_vars, n_vars, s_vars, u_vars, k_vars>>
UuidsStep == which = "uuid" /\ Uuids!Next
            /\ UNCHANGED <<which, h_vars, p_vars, i_vars, c_vars, n_vars, s_vars, r_vars, k_vars>>
PackerStep == which = "pack" /\ Packer!Next
            /\ UNCHANGED <<which, h_vars, p_vars, i_vars, c_vars, n_vars, s_vars, r_vars, u_vars>>

AllNext ==
    \/ HttpStep \/ PlusStep \/ IniStep \/ CfgStep \/ NodeStep
    \/ SelectStep \/ RemovalStep \/ UuidsStep \/ PackerStep

AllSpec == AllInit /\ [][AllNext]_all_vars
-----------------------------------------------------------------------------
(* HttpResponse: what was parsed is what was sent, however it was cut.     *)
HttpPiecesAsSent == which = "http" => PiecesAsSent

(* HttpResponse: the end is found, and with the whole body.                *)
HttpEndIsComplete == which = "http" => EndIsComplete

(* DataNode: a queue of bytes, alone and as the buffer of HttpResponse.    *)
NodeBytesInOrder ==
    /\ which = "node" => Node!BytesInOrder
    /\ which = "http" => BytesInOrder

(* IniReaderPlus: neither the list nor the dictionary leads to a deleted   *)
(* line.                                                                   *)
PlusNoDangling == which = "plus" => Plus!NoDangling

(* IniReaderPlus: lookups answer with the file's first values, or those    *)
(* that keys were modified to.                                             *)
PlusLookupsAnswer == which = "plus" => Plus!LookupsAnswer

(* IniReaderPlus: the text still says what was not removed, and what was   *)
(* added, as long as it was added to the section named.                    *)
PlusTextKept == which = "plus" => Plus!TextKept

(* IniReader: the text to be written says what lookups answer.             *)
IniTextIsDictionary == which = "ini" => Ini!TextIsDictionary

(* CfgReader: answers are the first values of the texts scanned.           *)
CfgAnswersAreFirstRead == which = "cfg" => Cfg!AnswersAreFirstRead

(* SelectServer: the table and the descriptors agree.                      *)
SelectTableIsConnections == which = "select" => Select!TableIsConnections

(* RmDir: whatever is left has a reason to be.                             *)
RemoveRestIsExplained == which = "remove" => Removal!RestIsExplained

(* Uuid: only the bits of version and variant are not random.              *)
UuidOtherBitsRandom == which = "uuid" => Uuids!OtherBitsRandom

(* HttpPacker: what is packed fills the block that was counted for it, and *)
(* no block is lost.                                                       *)
PackerFillsItsBlocks == which = "pack" => Packer!FillsItsBlocks
=============================================================================
