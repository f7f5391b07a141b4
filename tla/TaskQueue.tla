----------------------------- MODULE TaskQueue -----------------------------
(***************************************************************************)
(* What SubTaskMgr (task/task_mgr.cpp) promises to the threads that use    *)
(* it: a first-in first-out queue of task objects whose two operations are *)
(* atomic.  _add_task appends a live object, _get_task hands the oldest    *)
(* one to a worker that holds none, and the worker gives it up when it has *)
(* run and deleted it (thread/thread.h, _thread_proc_handler).             *)
(*                                                                         *)
(* TaskMgr, the module with the mutex and the condition variable, is shown *)
(* to implement Spec; EpollServer uses the actions as its task queue.      *)
(***************************************************************************)
EXTENDS Sequences, Functions

CONSTANTS
    Tasks,      \* every task object
    Workers,    \* the threads that call _get_task
    NoTask      \* the NULL pointer

VARIABLES
    queue,      \* _task_queue
    held        \* worker -> the object it has taken and not deleted yet

vars == <<queue, held>>

Init ==
    /\ queue = <<>>
    /\ held = [w \in Workers |-> NoTask]

(* _add_task: the objects that are alive have different addresses.         *)
Add(t) ==
    /\ t \notin Range(queue)
    /\ \A w \in Workers : held[w] # t
    /\ queue' = Append(queue, t)
    /\ UNCHANGED held

(* _get_task: enabled only when there is something to return.              *)
Take(w) ==
    /\ queue # <<>>
    /\ held[w] = NoTask
    /\ held' = [held EXCEPT ![w] = Head(queue)]
    /\ queue' = Tail(queue)

(* The end of an iteration of the worker's loop: delete task.              *)
Finish(w) ==
    /\ held[w] # NoTask
    /\ held' = [held EXCEPT ![w] = NoTask]
    /\ UNCHANGED queue

Next ==
    \/ \E t \in Tasks : Add(t)
    \/ \E w \in Workers : Take(w) \/ Finish(w)

(* While tasks are queued and a worker is free some worker takes one, and  *)
(* a task that was taken is run to its end.                                *)
Fairness ==
    /\ WF_vars(\E w \in Workers : Take(w))
    /\ \A w \in Workers : WF_vars(Finish(w))

SafeSpec == Init /\ [][Next]_vars

Spec == SafeSpec /\ Fairness
=============================================================================
