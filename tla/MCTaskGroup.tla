---------------------------- MODULE MCTaskGroup ----------------------------
(* TaskGroup with three tasks, of which the first (pull_updates) and the   *)
(* second (find_posts) may throw from initialize(), as in the code.        *)
EXTENDS TaskGroup

MCMayThrow == {0, 1}
=============================================================================
