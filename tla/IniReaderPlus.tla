---------------------------- MODULE IniReaderPlus ----------------------------
(***************************************************************************)
(* The reader of src/Cpp/source/file/source/IniReaderPlus.cpp: the text as *)
(* a list of line records, a dictionary that points to the same records,   *)
(* and the file, which others edit too.                                    *)
(*                                                                         *)
(* A line record is named by a number (its address); allLine is the list   *)
(* of these, heap the records that are not deleted.  A line of the file is *)
(* one of IniText.                                                         *)
(***************************************************************************)
EXTENDS IniText

CONSTANTS
    Sections, Keys, Vals,
    Files,          \* the texts the file may have
    MaxRecords,     \* bound: line records ever made
    MaxCalls        \* bound: calls and edits of the file by others

VARIABLES
    file,
    allLine, heap,
    cfgDict,        \* from pairs of a section and a key to records
    bscan,
    made,           \* the records made so far
    destroyed,      \* destroy left NULL in the list and the dictionary
    crashed,        \* an end of the list or NULL was followed
    calls,          \* how many there were
    h               \* history, see NoHistory

vars == <<file, allLine, heap, cfgDict, bscan, made, destroyed, crashed, calls, h>>

NULL == 0

\* expect: what lookups should answer; text: what the text should say, each
\* added line in the section that the call named; added: a line was added;
\* misplaced: one was added to another section; strayed: Modify changed another
\* line than the dictionary names, or Remove took one after lines were added,
\* or a line was added with a key for its value, under which it is entered;
\* again: it scanned after a scan that succeeded or left lines
NoHistory == [expect |-> << >>, text |-> << >>, added |-> FALSE, misplaced |-> FALSE,
              strayed |-> FALSE, again |-> FALSE]

Bind(f, x, y) == [z \in DOMAIN f \cup {x} |-> IF z = x THEN y ELSE f[z]]

Init ==
    /\ file \in Files
    /\ allLine = << >>
    /\ heap = << >>
    /\ cfgDict = << >>
    /\ bscan = FALSE
    /\ made = 0
    /\ destroyed = FALSE
    /\ crashed = FALSE
    /\ calls = 0
    /\ h = NoHistory

Rec(num, src, section) ==
    [num |-> num, src |-> src, section |-> section, val |-> src.val]
KeyOf(id) == IF heap[id].src.kind = "field" THEN heap[id].src.name ELSE None

Crash ==
    /\ crashed' = TRUE
    /\ UNCHANGED <<file, allLine, heap, cfgDict, bscan, made, destroyed, h>>
-----------------------------------------------------------------------------
(* The scan ends before the first line it cannot take: one that is too     *)
(* long, which is not an error, or one that is not right.  A file that     *)
(* cannot be opened leaves everything as it is.                            *)
Faulty(i) == \/ file[i].kind \in {"field", "bad"} /\ SectionAt(file, i) = None
             \/ file[i].kind = "field" /\ file[i].val = Empty
             \/ file[i].kind = "bad"

Stop ==
    LET stops == {i \in DOMAIN file : file[i].kind = "long" \/ Faulty(i)}
    IN  IF stops = {} THEN Len(file) + 1 ELSE Min(stops)

ScanFails == Stop <= Len(file) /\ Faulty(Stop)

(* transfer: the dictionary keeps what it has, and of the lines of a key   *)
(* of a section takes the first.                                           *)
MutTransferred(dict, list, records) ==
    LET name(i) == <<records[list[i]].section, records[list[i]].src.name>>
        fields == {i \in DOMAIN list : records[list[i]].src.kind = "field"}
    IN  [p \in DOMAIN dict \cup {name(i) : i \in fields} |->
            IF p \in DOMAIN dict THEN dict[p] ELSE list[Max({i \in fields : name(i) = p})]]

Transferred(dict, list, records) ==
    LET name(i) == <<records[list[i]].section, records[list[i]].src.name>>
        fields == {i \in DOMAIN list : records[list[i]].src.kind = "field"}
    IN  [p \in DOMAIN dict \cup {name(i) : i \in fields} |->
            IF p \in DOMAIN dict THEN dict[p] ELSE list[Min({i \in fields : name(i) = p})]]

Said(text) ==
    LET says == {p \in Sections \X Keys : Says(text, p[1], p[2]) # {}}
    IN  [p \in says |-> CHOOSE v \in Vals : v \in Says(text, p[1], p[2])]

ScanCfgFile ==
    LET n == Stop - 1
        list == allLine \o [i \in 1 .. n |-> made + i]
        records == [id \in DOMAIN heap \cup (made + 1) .. (made + n) |->
            IF id \in DOMAIN heap THEN heap[id]
            ELSE Rec(id - made, file[id - made], SectionAt(file, id - made))]
        said == Said(SubSeq(file, 1, n))
    IN  /\ made + n <= MaxRecords
        /\ allLine' = list
        /\ heap' = records
        /\ made' = made + n
        /\ h' = [h EXCEPT !.again = @ \/ bscan \/ allLine # << >>,
                          !.expect = IF bscan THEN @ ELSE said,
                          !.text = said]
        /\ \/ ScanFails /\ UNCHANGED <<cfgDict, bscan, crashed>>
           \/ /\ ~ScanFails /\ ~destroyed
              /\ cfgDict' = Transferred(cfgDict, list, records)
              /\ bscan' = TRUE
              /\ UNCHANGED crashed
           \/ /\ ~ScanFails /\ destroyed
              /\ crashed' = TRUE
              /\ UNCHANGED <<cfgDict, bscan>>
        /\ UNCHANGED <<file, destroyed>>

GetValue(section, key) ==
    IF <<section, key>> \in DOMAIN cfgDict THEN heap[cfgDict[<<section, key>>]].val ELSE Empty

(* A lookup scans the file unless a scan succeeded before.                 *)
Lookup(section) ==
    \/ ~bscan /\ ScanCfgFile
    \/ bscan /\ destroyed /\ (\E p \in DOMAIN cfgDict : p[1] = section) /\ Crash

(* Reload: everything is deleted, and NULL put in its place, but nothing   *)
(* is taken out of the list and of the dictionary before the file is read. *)
Reload ==
    LET n == Stop - 1
    IN  /\ allLine # << >>
        /\ made + n <= MaxRecords
        /\ allLine' = [i \in DOMAIN allLine |-> NULL] \o [i \in 1 .. n |-> made + i]
        /\ heap' = [id \in (made + 1) .. (made + n) |->
                        Rec(id - made, file[id - made], SectionAt(file, id - made))]
        /\ made' = made + n
        /\ destroyed' = TRUE
        /\ crashed' = ~ScanFails
        /\ UNCHANGED <<file, cfgDict, bscan, h>>
-----------------------------------------------------------------------------
(* find looks for the key, whatever the section, or for any section.       *)
FindKey(key) == SelectInSeq(allLine, LAMBDA id : KeyOf(id) = key)
FindSection(from) ==
    LET at == {i \in from .. Len(allLine) : heap[allLine[i]].src.kind = "section"}
    IN  IF at = {} THEN 0 ELSE Min(at)

MutPlaceOf(num) == IF num \in DOMAIN allLine THEN num ELSE 0

\* the first line with this number
PlaceOf(num) == SelectInSeq(allLine, LAMBDA id : heap[id].num = num)

MutForgotten(id) == [x \in DOMAIN heap \ {id} |-> heap[x]]

\* erase takes the record out of the list and does not delete it
Forgotten(id) == heap

RemoveKey(section, key) ==
    LET named == cfgDict[<<section, key>>]
        at == PlaceOf(heap[named].num)
    IN  /\ <<section, key>> \in DOMAIN cfgDict /\ at # 0
        /\ allLine' = RemoveAt(allLine, at)
        /\ heap' = Forgotten(allLine[at])
        /\ h' = [h EXCEPT !.strayed = @ \/ (h.added /\ allLine[at] # named),
                          !.text = [p \in DOMAIN @ \ {<<section, key>>} |-> @[p]]]
        /\ UNCHANGED <<file, cfgDict, bscan, made, destroyed, crashed>>

(* The value changes, the source that Sync writes does not.                *)
Modify(section, key, newval) ==
    LET at == FindKey(key)
        p == <<section, key>>
    IN  /\ at # 0
        /\ heap' = [heap EXCEPT ![allLine[at]].val = newval]
        /\ h' = [h EXCEPT
                !.strayed = @ \/ p \notin DOMAIN cfgDict \/ cfgDict[p] # allLine[at],
                !.expect = IF p \in DOMAIN @ THEN [@ EXCEPT ![p] = newval] ELSE @]
        /\ UNCHANGED <<file, allLine, cfgDict, bscan, made, destroyed, crashed>>

Sources == [i \in DOMAIN allLine |-> heap[allLine[i]].src]

\* a line of the key in front of the new one, which hides it, or one in the
\* section named where the new one is not put
Hidden(at, home, section, newkey) ==
    \E i \in DOMAIN allLine :
        /\ i < at \/ home # section
        /\ Sources[i].kind = "field" /\ Sources[i].name = newkey
        /\ SectionAt(Sources, i) = section

(* A new record goes in front of place at of the list, which is in section *)
(* home, and the dictionary gets it under its value, in the section that   *)
(* the call named.  So does the history, unless another line hides it.     *)
Insert(at, num, home, section, newkey, newval, records) ==
    LET id == made + 1
        p == <<section, newval>>
    IN  /\ made < MaxRecords
        /\ allLine' = InsertAt(allLine, at, id)
        /\ heap' = Bind(records, id, Rec(num, Field(newkey, newval), None))
        /\ made' = id
        /\ cfgDict' = IF p \in DOMAIN cfgDict \/ \A q \in DOMAIN cfgDict : q[1] # section
                      THEN cfgDict ELSE Bind(cfgDict, p, id)
        /\ h' = [h EXCEPT !.added = TRUE,
                          !.misplaced = @ \/ home # section,
                          !.strayed = @ \/ newval \in Keys,
                          !.text = IF Hidden(at, home, section, newkey) THEN @
                                   ELSE Bind(@, <<section, newkey>>, newval)]
        /\ UNCHANGED <<file, bscan, destroyed, crashed>>

\* the end of the section whose header is at place first
EndOf(first) == FindSection(first + 1)

(* The line goes to the end or the start of the first section there is.    *)
(* Without a later section the end is not found, and the list is left.     *)
AddBaseSection(section, newkey, newval, mode) ==
    LET first == FindSection(1)
        at == IF mode = 0 THEN EndOf(first) ELSE first + 1
        num == heap[allLine[at]].num + Len(allLine) - at + 1
    IN  /\ first # 0
        /\ \/ (at = 0 \/ at > Len(allLine)) /\ Crash
           \/ /\ at \in DOMAIN allLine
              /\ Insert(at, num, Sources[first].name, section, newkey, newval,
                        [heap EXCEPT ![allLine[at]].num = num])

(* The line goes behind or before the first line of the key; a section     *)
(* that is not in the dictionary is used nevertheless.                     *)
AddBaseField(section, key, newkey, newval, mode) ==
    LET at == FindKey(key)
        more == IF mode = 0 THEN 1 ELSE 0
    IN  /\ at # 0
        /\ \/ (\A p \in DOMAIN cfgDict : p[1] # section) /\ Crash
           \/ /\ \E p \in DOMAIN cfgDict : p[1] = section
              /\ Insert(at + more, heap[allLine[at]].num + more, SectionAt(Sources, at),
                        section, newkey, newval, heap)

(* The file is written over from its start and not cut off: a text of      *)
(* fewer lines leaves some end of the old one, of which the first line may *)
(* be cut.  Each line written gets one more byte than it had.              *)
Sync ==
    /\ \E i \in 1 .. Len(file) + 1, cut \in BOOLEAN :
          LET rest == SubSeq(file, i, Len(file))
          IN  /\ Len(allLine) >= Len(file) => i = Len(file) + 1
              /\ allLine = << >> => i = 1 /\ ~cut
              /\ cut => rest # << >>
              /\ file' = Sources \o IF cut THEN <<Bad>> \o Tail(rest) ELSE rest
    /\ Len(file') <= MaxRecords
    /\ UNCHANGED <<allLine, heap, cfgDict, bscan, made, destroyed, crashed, h>>

(* Every other call starts at the head of the list, which is NULL after    *)
(* destroy, or in the dictionary.                                          *)
AfterDestroy == destroyed /\ Crash

Edit ==
    \/ \E section \in Sections, key \in Keys : RemoveKey(section, key)
    \/ \E section \in Sections, key \in Keys, v \in Vals : Modify(section, key, v)
    \/ \E section \in Sections, newkey \in Keys, v \in Vals, mode \in {0, 1} :
          \/ AddBaseSection(section, newkey, v, mode)
          \/ \E key \in Keys : AddBaseField(section, key, newkey, v, mode)
    \/ Sync

Others == /\ file' \in Files
          /\ UNCHANGED <<allLine, heap, cfgDict, bscan, made, destroyed, crashed, h>>

Next ==
    /\ ~crashed /\ calls < MaxCalls
    /\ calls' = calls + 1
    /\ \/ ScanCfgFile
       \/ \E section \in Sections : Lookup(section)
       \/ Reload
       \/ ~destroyed /\ Edit
       \/ AfterDestroy
       \/ Others

Spec == Init /\ [][Next]_vars
-----------------------------------------------------------------------------
(* The list and the dictionary share the records: whatever is removed or   *)
(* added, neither leads to one that was deleted (IniReaderPlus.cpp:26-42,  *)
(* 193-219, 256-264).  After a Reload both lead to NULL.                   *)
NoDangling ==
    ~destroyed =>
        /\ ToSet(allLine) \subseteq DOMAIN heap
        /\ \A p \in DOMAIN cfgDict : cfgDict[p] \in DOMAIN heap

(* A reader whose first scan succeeded, and that was not told to scan      *)
(* again, answers each lookup with the first value of the key in the       *)
(* section, as the file was then, or the one it was last modified to, as   *)
(* long as no key was modified that another section has before             *)
(* (IniReaderPlus.cpp:65-89, 193-219, 269-292).                            *)
LookupsAnswer ==
    (bscan /\ ~destroyed /\ ~h.again /\ ~h.strayed) =>
        \A p \in Sections \X Keys :
            GetValue(p[1], p[2]) = IF p \in DOMAIN h.expect THEN h.expect[p] ELSE Empty

(* Its text, which Sync writes, still says what the file said, except of   *)
(* the keys that were removed by name, and says each added key in the      *)
(* section that the call named, unless a line in front of it has the key,  *)
(* as long as no line went to another section: that is where find leads    *)
(* when the one named is not the first, or not the first that has the key  *)
(* (IniReaderPlus.cpp:44-58, 244-267, 279-395; IniReaderPlus.h:55-58).     *)
TextKept ==
    (bscan /\ ~destroyed /\ ~h.again /\ ~h.strayed /\ ~h.misplaced) =>
        \A p \in DOMAIN h.text : Says(Sources, p[1], p[2]) = {h.text[p]}
=============================================================================
