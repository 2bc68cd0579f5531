------------------------------- MODULE IniText -------------------------------
(* Lines of configuration files, as the three readers tell them apart, and  *)
(* what such a text says.  A line is a record: its kind, the name of its    *)
(* section or of its key, and its value.                                    *)
EXTENDS Integers, SequencesExt

None == "none"
Empty == ""     \* a value of no length

Line(kind, name, val) == [kind |-> kind, name |-> name, val |-> val]

Section(name) == Line("section", name, None)
Field(name, val) == Line("field", name, val)
Comment == Line("comment", None, None)
Blank == Line("blank", None, None)
Bad == Line("bad", None, None)      \* without =, or without a key
Long == Line("long", None, None)    \* does not fit the buffer of getline

\* the section that line i of a text is in
SectionAt(text, i) ==
    LET j == SelectLastInSeq(SubSeq(text, 1, i), LAMBDA l : l.kind = "section")
    IN  IF j = 0 THEN None ELSE text[j].name

\* the values a text gives to a key of a section, in order
Says(text, section, key) ==
    LET at == {i \in DOMAIN text : /\ text[i].kind = "field" /\ text[i].name = key
                                   /\ SectionAt(text, i) = section}
    IN  {text[i].val : i \in {j \in at : \A x \in at : j <= x}}
=============================================================================
