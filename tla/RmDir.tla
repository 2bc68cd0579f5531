--------------------------------- MODULE RmDir ---------------------------------
(***************************************************************************)
(* The recursive removal of src/Cpp/source/unclassify/rm_dir.c: readdir    *)
(* gives the entries of a directory in any order, any call of the system   *)
(* may fail, and others make and remove files and directories in the tree. *)
(***************************************************************************)
EXTENDS Integers, SequencesExt

CONSTANTS
    Root, Parent,   \* the nodes below Root, with the directory each is in
    Dirs,           \* those that are directories
    TooLong,        \* what toolong may be
    MaxOthers       \* bound: what others do

Below == DOMAIN Parent
Nodes == Below \cup {Root}
Children(d) == {n \in Below : Parent[n] = d}

VARIABLES
    kind,           \* of each node: "dir", "file", "other" or "none"
    toolong,        \* the nodes whose path does not fit sub_path
    self,           \* remove_dir_sub_and_self was called, not remove_dir_sub
    stack,          \* the calls: the directory, the entries still to be
                    \* given by readdir and those that were given
    ret,            \* what the call returned, "none" before it has
    closed,         \* history: the directories that opendir did not open
    refused,        \* history: the nodes that lstat, unlink or rmdir failed for
    left,           \* history: the nodes not looked into, or not to the end
    others          \* history: the nodes others made or removed

vars == <<kind, toolong, self, stack, ret, closed, refused, left, others>>

Existing(d) == {n \in Children(d) : kind[n] # "none"}

Frame(d) == [dir |-> d, todo |-> Existing(d), given |-> {}]

Init ==
    /\ kind \in [Nodes -> {"dir", "file", "other", "none"}]
    /\ kind[Root] = "dir"
    /\ \A n \in Below : /\ kind[n] = "dir" => n \in Dirs
                        /\ kind[n] \in {"file", "other"} => n \notin Dirs
                        /\ kind[n] # "none" => kind[Parent[n]] = "dir"
    /\ toolong \in TooLong
    /\ self \in BOOLEAN
    /\ \/ stack = <<Frame(Root)>> /\ ret = "none" /\ closed = {}
       \/ stack = << >> /\ ret = "-1" /\ closed = {Root}
    /\ refused = {}
    /\ left = {}
    /\ others = {}

Top == Last(stack)
Given(n) == [stack EXCEPT ![Len(stack)].given = @ \cup {n}, ![Len(stack)].todo = @ \ {n}]

Removed(n) == [kind EXCEPT ![n] = "none"]

MutRmdir(d) == UNCHANGED <<kind, refused>>

\* a directory that is not empty stays, and another may; no one asks
Rmdir(d) ==
    \/ kind[d] = "dir" /\ Existing(d) = {} /\ kind' = Removed(d) /\ UNCHANGED refused
    \/ kind[d] = "dir" /\ Existing(d) = {} /\ refused' = refused \cup {d} /\ UNCHANGED kind
    \/ (kind[d] # "dir" \/ Existing(d) # {}) /\ UNCHANGED <<kind, refused>>

(* The call for the last directory returns 0; its caller removes the       *)
(* directory itself, and that of the whole says whether it could.          *)
Return ==
    /\ stack' = Front(stack)
    /\ IF Len(stack) > 1 \/ self THEN Rmdir(Top.dir) ELSE UNCHANGED <<kind, refused>>
    /\ ret' = IF Len(stack) > 1 THEN ret
              ELSE IF self /\ (kind[Root] = "none" \/ kind'[Root] # "none") THEN "-1" ELSE "0"
    /\ UNCHANGED <<toolong, self, closed, others>>

\* there is nothing to do for it, or it cannot be done
Passed(n) ==
    /\ stack' = Given(n)
    /\ UNCHANGED <<kind, ret, closed>>
    /\ \/ kind[n] \in {"none", "other"} /\ UNCHANGED <<refused, left>>
       \/ kind[n] # "none" /\ refused' = refused \cup {n} /\ left' = left \cup {n}   \* lstat
       \/ kind[n] = "file" /\ refused' = refused \cup {n} /\ UNCHANGED left          \* unlink

Unlinked(n) ==
    /\ kind[n] = "file"
    /\ stack' = Given(n)
    /\ kind' = Removed(n)
    /\ UNCHANGED <<ret, closed, refused, left>>

\* others may remove it after lstat
Entered(n) ==
    \/ /\ kind[n] = "dir"
       /\ stack' = Append(Given(n), Frame(n))
       /\ UNCHANGED <<kind, ret, closed, refused, left>>
    \/ /\ kind[n] = "dir" \/ n \in Dirs \cap others
       /\ stack' = << >>
       /\ ret' = "-1"
       /\ closed' = closed \cup {n}
       /\ UNCHANGED <<kind, refused, left>>

(* readdir gives what was there when the directory was opened, and maybe   *)
(* what was made since; lstat finds out that it is there no more.          *)
Entry(n) ==
    /\ stack # << >>
    /\ n \in Top.todo \/ n \in Existing(Top.dir) \ Top.given
    /\ \/ /\ n \in toolong
          /\ left' = left \cup {Top.dir}
          /\ Return
       \/ /\ n \notin toolong
          /\ Passed(n) \/ Unlinked(n) \/ Entered(n)
          /\ UNCHANGED <<toolong, self, others>>

(* There is no further entry, or readdir fails.                            *)
EndOfDir ==
    /\ stack # << >>
    /\ left' = IF Top.todo \cap Existing(Top.dir) \subseteq others THEN left
               ELSE left \cup {Top.dir}
    /\ Return

Others(n) ==
    /\ ret = "none"
    /\ Cardinality(others) < MaxOthers
    /\ \/ /\ kind[n] = "none" /\ (n # Root => kind[Parent[n]] = "dir")
          /\ kind' = [kind EXCEPT ![n] = IF n \in Dirs \cup {Root} THEN "dir" ELSE "file"]
       \/ kind[n] # "none" /\ Existing(n) = {} /\ kind' = Removed(n)
    /\ others' = others \cup {n}
    /\ UNCHANGED <<toolong, self, stack, ret, closed, refused, left>>

Next == (\E n \in Below : Entry(n)) \/ EndOfDir \/ (\E n \in Nodes : Others(n))

Spec == Init /\ [][Next]_vars
-----------------------------------------------------------------------------
\* m is n or a directory around it: no set that is closed upwards from n
\* leaves it out
Within(n, m) ==
    \A around \in SUBSET Nodes :
        (n \in around /\ \A x \in around \ {Root} : Parent[x] \in around) => m \in around

(* What is still there after a call that could open every directory it     *)
(* met is no plain file or directory, could not be removed, was made       *)
(* meanwhile, is in a directory whose path is too long or that lstat or    *)
(* readdir failed for, or is a directory around such a node.  0 says that  *)
(* the directory itself is gone where it was to be, and -1 that one could  *)
(* not be opened or that the directory itself is not empty or could not be *)
(* removed (rm_dir.c:29-108).                                              *)
Excused(n) ==
    \/ n \in refused \cup others \/ kind[n] = "other"
    \/ \E m \in Below : Within(n, m) /\ Parent[m] \in left

RestIsExplained ==
    /\ (ret = "0" \/ (ret = "-1" /\ closed = {})) =>
           \A n \in Below : kind[n] # "none" =>
               \E m \in Below : Within(m, n) /\ Excused(m)
    /\ ret = "0" => IF self THEN kind[Root] = "none" ELSE kind[Root] = "dir" \/ Root \in others
    /\ ret = "-1" => \/ closed # {}
                     \/ self /\ (Root \in refused \cup others \/ Existing(Root) # {})
=============================================================================
