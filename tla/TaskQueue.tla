------------------------------ MODULE TaskQueue ------------------------------
(***************************************************************************)
(* What the thread pool promises its callers, without threads or locks: a  *)
(* bounded first-in first-out queue of tasks.  Tasks are numbered in the   *)
(* order in which threadpool_add_task accepts them; each is handed to one  *)
(* worker, once, in that order, and nothing is accepted or handed out      *)
(* after the pool is closed.                                               *)
(***************************************************************************)
EXTENDS Naturals, Sequences

CONSTANTS
    Capacity,   \* the most tasks that may be pending
    MaxTasks    \* bound on the number of tasks ever submitted

VARIABLES
    pending,    \* the accepted tasks no worker has taken, oldest first
    running,    \* the tasks taken by a worker that has not finished them
    sent,       \* how many tasks were accepted
    closed      \* the pool is shutting down

vars == <<pending, running, sent, closed>>

Init ==
    /\ pending = << >>
    /\ running = {}
    /\ sent = 0
    /\ closed = FALSE

Submit ==
    /\ ~closed
    /\ Len(pending) < Capacity
    /\ sent < MaxTasks
    /\ sent' = sent + 1
    /\ pending' = Append(pending, sent + 1)
    /\ UNCHANGED <<running, closed>>

Take ==
    /\ ~closed
    /\ pending # << >>
    /\ running' = running \cup {Head(pending)}
    /\ pending' = Tail(pending)
    /\ UNCHANGED <<sent, closed>>

Finish ==
    \E t \in running :
        /\ running' = running \ {t}
        /\ UNCHANGED <<pending, sent, closed>>

Close ==
    /\ closed' = TRUE
    /\ UNCHANGED <<pending, running, sent>>

Next == Submit \/ Take \/ Finish \/ Close

Spec == Init /\ [][Next]_vars
=============================================================================
