---------------------------- MODULE MCThreadPool ----------------------------
(* Instances of ThreadPool for TLC.  Workers are not symmetric (the scans  *)
(* of threads[] go in slot order); submitters are.                         *)
EXTENDS ThreadPool, TLC

Symmetry == Permutations(Producers)

\* what pthread_kill answers for an exited thread that nobody joined
AlwaysAlive == {TRUE}
MayLookDead == {TRUE, FALSE}
=============================================================================
