------------------------------- MODULE IniReader -------------------------------
(***************************************************************************)
(* The reader and writer of src/Cpp/unclassify/IniReader/IniReader.cpp:    *)
(* the text as a vector of items, and beside it a dictionary of values.    *)
(* An item is its type and its source, a line of IniText; the members key  *)
(* and value of a parameter are those of its source.                       *)
(***************************************************************************)
EXTENDS IniText

CONSTANTS
    Sections, Keys, Vals,
    Files,          \* the texts the file may have
    MaxItems,       \* bound: items of the vector
    MaxCalls        \* bound: calls and edits of the file by others

VARIABLES
    file, configs,
    names,          \* the sections of dicts
    dicts,          \* from pairs of a section and a key to values
    broken,         \* an iterator was used after the vector had moved
    calls,          \* how many there were
    strayed         \* history: Set changed a line of another section

vars == <<file, configs, names, dicts, broken, calls, strayed>>

Item(type, src) == [type |-> type, src |-> src]
Sources(items) == [i \in DOMAIN items |-> items[i].src]

Init ==
    /\ file \in Files
    /\ configs = << >>
    /\ names = {}
    /\ dicts = << >>
    /\ broken = FALSE
    /\ calls = 0
    /\ strayed = FALSE

(* The scan goes on until the file ends or cannot be opened, or a line is  *)
(* too long or wrong: one before every section, without a key or a value,  *)
(* or with a key that the section has.                                     *)
At(i) == <<SectionAt(file, i), file[i].name>>

Stops(i) ==
    \/ file[i].kind \in {"long", "bad"}
    \/ /\ file[i].kind = "field"
       /\ \/ SectionAt(file, i) = None
          \/ file[i].val = Empty
          \/ At(i) \in DOMAIN dicts
          \/ \E j \in 1 .. i - 1 : file[j].kind = "field" /\ At(j) = At(i)

ParseIniFile ==
    LET stops == {i \in DOMAIN file : Stops(i)}
        n == IF stops = {} THEN Len(file) ELSE Min(stops) - 1
        fields == {i \in 1 .. n : file[i].kind = "field"}
        read == {At(i) : i \in fields}
    IN  /\ configs' = configs \o [i \in 1 .. n |-> Item(file[i].kind, file[i])]
        /\ names' = names \cup {p[1] : p \in read}
        /\ dicts' = [p \in DOMAIN dicts \cup read |->
                        IF p \in DOMAIN dicts THEN dicts[p]
                        ELSE file[CHOOSE i \in fields : At(i) = p].val]
        /\ UNCHANGED <<file, broken, strayed>>

GetOptValue(section, key, strdefault) ==
    LET res == IF <<section, key>> \in DOMAIN dicts THEN dicts[<<section, key>>] ELSE Empty
    IN  IF res = Empty THEN strdefault ELSE res

WithSection(section) ==
    configs \o <<Item("comment", Comment), Item("section", Section(section))>>

AddSection(section) ==
    /\ section \notin names
    /\ configs' = WithSection(section)
    /\ names' = names \cup {section}
    /\ UNCHANGED <<file, dicts, broken, strayed>>

MutEndOf(items, section) ==
    LET first == SelectInSeq(items, LAMBDA x : x.src = Section(section))
        next == {i \in first + 1 .. Len(items) : items[i].type = "section"}
    IN  IF next = {} THEN Len(items) + 1 ELSE Min(next) + 1

\* the place behind the first section of this name
EndOf(items, section) ==
    LET first == SelectInSeq(items, LAMBDA x : x.src = Section(section))
        next == {i \in first + 1 .. Len(items) : items[i].type = "section"}
    IN  IF next = {} THEN Len(items) + 1 ELSE Min(next)

(* Set of a new key: the section is added if the dictionary does not have  *)
(* it, and a comment and the parameter go to its end.                      *)
SetNew(section, key, val) ==
    LET items == IF section \in names THEN configs ELSE WithSection(section)
        at == EndOf(items, section)
    IN  /\ <<section, key>> \notin DOMAIN dicts
        /\ configs' = SubSeq(items, 1, at - 1)
               \o <<Item("comment", Comment), Item("field", Field(key, val))>>
               \o SubSeq(items, at, Len(items))
        /\ names' = names \cup {section}
        /\ UNCHANGED <<broken, strayed>>

\* the last parameter of this key, in whatever section
LastOf(key) == SelectLastInSeq(configs, LAMBDA x : x.type = "field" /\ x.src.name = key)

Commented(at) == configs[at - 1].type = "comment"

(* The parameter at place at becomes line.  Of the comments above it the   *)
(* last is replaced and the others become empty.                           *)
Changed(at, line) ==
    LET above == {i \in 1 .. at - 2 : \A j \in i .. at - 1 : configs[j].type = "comment"}
    IN  [i \in DOMAIN configs |->
            CASE i = at -> Item("field", line)
              [] i = at - 1 /\ Commented(at) -> Item("comment", Comment)
              [] i \in above -> Item("comment", Blank)
              [] OTHER -> configs[i]]

(* Set of a key there is: the last parameter of this key gets the value.   *)
(* If it has no comment, one is inserted behind it, and an iterator used   *)
(* that is only good if the vector did not grow.                           *)
SetOld(section, key, val) ==
    LET at == LastOf(key)
        changed == Changed(at, Field(key, val))
    IN  /\ <<section, key>> \in DOMAIN dicts
        /\ \/ /\ configs' = IF Commented(at) THEN changed
                            ELSE InsertAt(changed, at + 1, Item("comment", Comment))
              /\ UNCHANGED broken
           \/ /\ ~Commented(at)
              /\ broken' = TRUE
              /\ UNCHANGED configs
        /\ strayed' = (strayed \/ SectionAt(Sources(configs), at) # section)
        /\ UNCHANGED names

Set(section, key, val) ==
    /\ SetNew(section, key, val) \/ SetOld(section, key, val)
    /\ dicts' = [p \in DOMAIN dicts \cup {<<section, key>>} |->
                    IF p = <<section, key>> THEN val ELSE dicts[p]]
    /\ UNCHANGED file

(* Opening the file for writing empties it.                                *)
WriteToFile ==
    /\ file' = Sources(configs)
    /\ UNCHANGED <<configs, names, dicts, broken, strayed>>

Others == file' \in Files /\ UNCHANGED <<configs, names, dicts, broken, strayed>>

Next ==
    /\ ~broken /\ calls < MaxCalls
    /\ calls' = calls + 1
    /\ \/ ParseIniFile
       \/ \E section \in Sections : AddSection(section)
       \/ \E section \in Sections, key \in Keys, val \in Vals : Set(section, key, val)
       \/ WriteToFile
       \/ Others
    /\ Len(configs') <= MaxItems

Spec == Init /\ [][Next]_vars
-----------------------------------------------------------------------------
(* What the items say is what lookups answer, and the default where they   *)
(* say nothing or an empty value, also after parses that failed half-way   *)
(* or were repeated over another text, as long as Set found the key in its *)
(* own section (IniReader.cpp:199-334).  No key is given twice in a        *)
(* section, so that the text can be read back unless Set wrote an empty    *)
(* value, which the scan refuses.                                          *)
TextIsDictionary ==
    (~broken /\ ~strayed) =>
        /\ Cardinality({i \in DOMAIN configs : configs[i].type = "field"}) = Cardinality(DOMAIN dicts)
        /\ \A p \in Sections \X Keys :
              LET says == Says(Sources(configs), p[1], p[2])
              IN  /\ p \in DOMAIN dicts <=> says # {}
                  /\ {GetOptValue(p[1], p[2], None)} = IF says \subseteq {Empty} THEN {None} ELSE says
=============================================================================
