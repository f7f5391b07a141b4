---------------------------- MODULE MCThreadPool ----------------------------
(* ThreadPool for TLC: a pool of none, one or two threads, the count       *)
(* changed at any time, one thread that cannot be created and two SIGINTs, *)
(* of which the second may come while the handler of the first has just    *)
(* returned.  The assumptions on the task queue's constants are TaskMgr's. *)
EXTENDS ThreadPool
=============================================================================
