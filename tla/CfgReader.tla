------------------------------- MODULE CfgReader -------------------------------
(***************************************************************************)
(* The reader of src/Cpp/source/unclassify/cfg_reader.cpp: the file is     *)
(* scanned by the first lookup, and again by every one until a scan ends   *)
(* well.  Others may change the file meanwhile.                            *)
(***************************************************************************)
EXTENDS IniText

CONSTANTS
    Sections, Keys,
    Files,          \* the texts the file may have
    MaxCalls        \* bound: lookups and changes of the file

VARIABLES
    file,
    there,          \* the file can be opened
    cfgdict,        \* from pairs of a section and a key to values
    bscan,
    calls,          \* how many there were
    scans           \* history: the texts that were scanned

vars == <<file, there, cfgdict, bscan, calls, scans>>

Init ==
    /\ file \in Files
    /\ there \in BOOLEAN
    /\ cfgdict = << >>
    /\ bscan = FALSE
    /\ calls = 0
    /\ scans = << >>

At(text, i) == <<SectionAt(text, i), text[i].name>>

\* the line that ends a scan: a parameter before every section is an error
Ends(text) ==
    {i \in DOMAIN text : \/ text[i].kind = "long"
                         \/ text[i].kind = "field" /\ SectionAt(text, i) = None}

LinesRead(text) ==
    SubSeq(text, 1, IF Ends(text) = {} THEN Len(text) ELSE Min(Ends(text)) - 1)

MutEndsWell(text) == TRUE

EndsWell(text) == Ends(text) = {} \/ text[Min(Ends(text))].kind = "long"

\* the first value of a key is kept
Inserted(dict, text) ==
    LET lines == LinesRead(text)
        fields == {i \in DOMAIN lines : lines[i].kind = "field"}
    IN  [p \in DOMAIN dict \cup {At(lines, i) : i \in fields} |->
            IF p \in DOMAIN dict THEN dict[p]
            ELSE lines[Min({i \in fields : At(lines, i) = p})].val]

ScanCfgFile ==
    IF there
    THEN /\ cfgdict' = Inserted(cfgdict, file)
         /\ bscan' = EndsWell(file)
         /\ scans' = Append(scans, file)
    ELSE UNCHANGED <<cfgdict, bscan, scans>>

(* GetValue, GetOptValue and show scan alike, whatever they then look for. *)
GetValue ==
    /\ IF bscan THEN UNCHANGED <<cfgdict, bscan, scans>> ELSE ScanCfgFile
    /\ UNCHANGED <<file, there>>

Answer(section, key) ==
    IF <<section, key>> \in DOMAIN cfgdict THEN cfgdict[<<section, key>>] ELSE ""

GetOptValue(section, key, default) ==
    IF Answer(section, key) = "" THEN default ELSE Answer(section, key)

Others ==
    /\ file' \in Files
    /\ there' \in BOOLEAN
    /\ UNCHANGED <<cfgdict, bscan, scans>>

Next ==
    /\ calls < MaxCalls
    /\ calls' = calls + 1
    /\ GetValue \/ Others

Spec == Init /\ [][Next]_vars
-----------------------------------------------------------------------------
(* The answers are the first values in the texts scanned, one after the    *)
(* other, up to where each scan ended; and once the scans are over, every  *)
(* readable line of the last text has its answer, so that no scan that     *)
(* failed half-way leaves keys out for good (cfg_reader.cpp:32-103).       *)
FirstValues(section, key) ==
    LET says == {i \in DOMAIN scans : Says(LinesRead(scans[i]), section, key) # {}}
    IN  IF says = {} THEN {} ELSE Says(LinesRead(scans[Min(says)]), section, key)

AnswersAreFirstRead ==
    \A section \in Sections, key \in Keys :
        LET answer == GetOptValue(section, key, None)
            first == FirstValues(section, key)
        IN  /\ first = {} => answer = None
            /\ first # {} => first = {Answer(section, key)}
            /\ (bscan /\ \A i \in DOMAIN Last(scans) : Last(scans)[i].kind # "long") =>
                   Says(Last(scans), section, key) = {} \/ first # {}
            /\ (answer = None /\ first # {}) => first = {""}
=============================================================================
