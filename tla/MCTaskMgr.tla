----------------------------- MODULE MCTaskMgr -----------------------------
(* TaskMgr for TLC.  Two threads of each kind and one object more than     *)
(* there are producers: enough for a worker that is woken for a task       *)
(* another one takes, for a queue of two while both workers sleep, and for *)
(* a signal that nobody waits for.                                         *)
EXTENDS TaskMgr
=============================================================================
