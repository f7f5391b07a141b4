------------------------------ MODULE TaskMgr ------------------------------
(***************************************************************************)
(* SubTaskMgr (task/task_mgr.cpp): the task queue between the thread that  *)
(* reads requests and the worker threads, a std::queue under one mutex     *)
(* (_add_mutex; _get_mutex is never locked) and one condition variable     *)
(* (_task_cond).  Each thread's calls are cut at every point where another *)
(* thread may run in between.                                              *)
(*                                                                         *)
(*   _add_task     lock 62, push 63, unlock 64, signal 65: the signal is   *)
(*                 sent after the mutex has been released                  *)
(*   _get_task     lock 69, test 70, wait 71, front 75, pop 76, unlock 78  *)
(*   the worker    run, call back and delete the object (thread.h 42-47)   *)
(*                                                                         *)
(* pthread_cond_wait releases the mutex and joins the waiters in one step, *)
(* may return without a signal, and locks the mutex again before it        *)
(* returns; pthread_cond_signal wakes one waiter if there is one and is    *)
(* lost otherwise.                                                         *)
(***************************************************************************)
EXTENDS Naturals, Sequences, FiniteSets

CONSTANTS
    Producers,      \* threads that call _add_task
    Workers,        \* threads that call _get_task
    Tasks,          \* the task objects the producers will create
    NoTask,         \* the NULL pointer
    NoThread,       \* the owner of a mutex nobody holds
    MaxSpurious     \* bound: spurious wakeups in a behaviour

Threads == Producers \cup Workers

ASSUME ThreadsAssumption ==
    /\ IsFiniteSet(Producers)
    /\ IsFiniteSet(Workers)
    /\ Producers \cap Workers = {}
    /\ NoThread \notin Threads

ASSUME TasksAssumption == NoTask \notin Tasks

ASSUME SpuriousAssumption == MaxSpurious \in Nat

VARIABLES
    queue,      \* _task_queue
    mutex,      \* the thread that holds _add_mutex, or NoThread
    waiting,    \* the workers blocked on _task_cond
    pc,         \* thread -> the statement it executes next
    task,       \* thread -> its local variable `task' (`ret_task' in _get_task)
    fresh,      \* the task objects no producer has created yet
    deleted,    \* the task objects that were run and deleted
    spurious    \* spurious wakeups so far

vars == <<queue, mutex, waiting, pc, task, fresh, deleted, spurious>>

ProducerPC == {"idle", "add_lock", "add_push", "add_unlock", "add_signal"}

WorkerPC == {"idle", "get_lock", "get_test", "get_wait", "get_relock",
             "get_front", "get_pop", "get_unlock", "run"}

Init ==
    /\ queue = <<>>
    /\ mutex = NoThread
    /\ waiting = {}
    /\ pc = [p \in Threads |-> "idle"]
    /\ task = [p \in Threads |-> NoTask]
    /\ fresh = Tasks
    /\ deleted = {}
    /\ spurious = 0

-----------------------------------------------------------------------------
(* Thread p goes from statement `from' to statement `to'.                  *)
Goto(p, from, to) ==
    /\ pc[p] = from
    /\ pc' = [pc EXCEPT ![p] = to]

(* pthread_mutex_lock and pthread_mutex_unlock.                            *)
Lock(p)   == mutex = NoThread /\ mutex' = p
Unlock(p) == mutex = p /\ mutex' = NoThread

-----------------------------------------------------------------------------
(* _add_task.  A NULL argument returns at once (59-61) and changes nothing.*)

AddCall(p, t) ==
    /\ Goto(p, "idle", "add_lock")
    /\ t \in fresh
    /\ fresh' = fresh \ {t}
    /\ task' = [task EXCEPT ![p] = t]
    /\ UNCHANGED <<queue, mutex, waiting, deleted, spurious>>

AddLock(p) ==
    /\ Goto(p, "add_lock", "add_push")
    /\ Lock(p)
    /\ UNCHANGED <<queue, waiting, task, fresh, deleted, spurious>>

Pushed_Front(p) == <<task[p]>> \o queue    \* mutant: the newest comes first
Pushed(p) == Append(queue, task[p])

AddPush(p) ==
    /\ Goto(p, "add_push", "add_unlock")
    /\ queue' = Pushed(p)
    /\ task' = [task EXCEPT ![p] = NoTask]
    /\ UNCHANGED <<mutex, waiting, fresh, deleted, spurious>>

AddUnlock(p) ==
    /\ Goto(p, "add_unlock", "add_signal")
    /\ Unlock(p)
    /\ UNCHANGED <<queue, waiting, task, fresh, deleted, spurious>>

(* The threads pthread_cond_signal may wake.                               *)
Wakes_Never == {}           \* mutant: no signal
Wakes_WhenFirst == IF Len(queue) = 1 THEN waiting ELSE {}   \* mutant
Wakes == waiting

AddSignal(p) ==
    /\ pc[p] = "add_signal"
    /\ \/ /\ Wakes = {}
          /\ pc' = [pc EXCEPT ![p] = "idle"]
          /\ UNCHANGED waiting
       \/ \E w \in Wakes :
            /\ waiting' = waiting \ {w}
            /\ pc' = [pc EXCEPT ![p] = "idle", ![w] = "get_relock"]
    /\ UNCHANGED <<queue, mutex, task, fresh, deleted, spurious>>

Add(p) ==
    \/ AddLock(p)
    \/ AddPush(p)
    \/ AddUnlock(p)
    \/ AddSignal(p)

-----------------------------------------------------------------------------
(* _get_task.                                                              *)

GetCall(w) ==
    /\ Goto(w, "idle", "get_lock")
    /\ UNCHANGED <<queue, mutex, waiting, task, fresh, deleted, spurious>>

GetLock(w) ==
    /\ Goto(w, "get_lock", "get_test")
    /\ Lock(w)
    /\ UNCHANGED <<queue, waiting, task, fresh, deleted, spurious>>

(* The test of the loop: wait while the queue is empty.                    *)
GetTest(w) ==
    \/ /\ queue # <<>>
       /\ Goto(w, "get_test", "get_front")
       /\ UNCHANGED <<queue, mutex, waiting, task, fresh, deleted, spurious>>
    \/ /\ queue = <<>>
       /\ Goto(w, "get_test", "get_wait")
       /\ Unlock(w)
       /\ waiting' = waiting \cup {w}
       /\ UNCHANGED <<queue, task, fresh, deleted, spurious>>

(* pthread_cond_wait returns though nobody signalled.                      *)
SpuriousWakeup(w) ==
    /\ w \in waiting
    /\ spurious < MaxSpurious
    /\ Goto(w, "get_wait", "get_relock")
    /\ waiting' = waiting \ {w}
    /\ spurious' = spurious + 1
    /\ UNCHANGED <<queue, mutex, task, fresh, deleted>>

(* A woken worker owns the mutex again before it goes back to the test.    *)
Relock_No(w) == UNCHANGED mutex     \* mutant: the wait returns without it
Relock(w) == Lock(w)
AfterWait_If == "get_front"         \* mutant: `if' instead of `while'
AfterWait == "get_test"

GetRelock(w) ==
    /\ Goto(w, "get_relock", AfterWait)
    /\ Relock(w)
    /\ UNCHANGED <<queue, waiting, task, fresh, deleted, spurious>>

(* Line 74 tests the queue once more and would return NULL; PopFindsFront  *)
(* shows that the test never fails.                                        *)
GetFront(w) ==
    /\ Goto(w, "get_front", "get_pop")
    /\ queue # <<>>
    /\ task' = [task EXCEPT ![w] = Head(queue)]
    /\ UNCHANGED <<queue, mutex, waiting, fresh, deleted, spurious>>

Popped_Not == queue         \* mutant: front() without pop()
Popped == Tail(queue)

GetPop(w) ==
    /\ Goto(w, "get_pop", "get_unlock")
    /\ queue # <<>>
    /\ queue' = Popped
    /\ UNCHANGED <<mutex, waiting, task, fresh, deleted, spurious>>

GetUnlock(w) ==
    /\ Goto(w, "get_unlock", "run")
    /\ Unlock(w)
    /\ UNCHANGED <<queue, waiting, task, fresh, deleted, spurious>>

(* The worker runs the task, calls back and deletes the object.            *)
RunTask(w) ==
    /\ Goto(w, "run", "idle")
    /\ deleted' = deleted \cup {task[w]}
    /\ task' = [task EXCEPT ![w] = NoTask]
    /\ UNCHANGED <<queue, mutex, waiting, fresh, spurious>>

Get(w) ==
    \/ GetLock(w)
    \/ GetTest(w)
    \/ GetRelock(w)
    \/ GetFront(w)
    \/ GetPop(w)
    \/ GetUnlock(w)
    \/ RunTask(w)

-----------------------------------------------------------------------------
Next ==
    \/ \E p \in Producers : Add(p) \/ \E t \in Tasks : AddCall(p, t)
    \/ \E w \in Workers : GetCall(w) \/ Get(w) \/ SpuriousWakeup(w)

(* The scheduler runs every thread that can run, and workers call          *)
(* _get_task again and again.  Nothing obliges a producer to create a task *)
(* or a wait to return without a signal.                                   *)
Fairness ==
    /\ \A p \in Producers : WF_vars(Add(p))
    /\ \A w \in Workers : WF_vars(GetCall(w) \/ Get(w))

Spec == Init /\ [][Next]_vars /\ Fairness

-----------------------------------------------------------------------------
(* Properties *)

TypeOK ==
    /\ queue \in Seq(Tasks)
    /\ mutex \in Threads \cup {NoThread}
    /\ waiting \subseteq Workers
    /\ pc \in [Threads -> ProducerPC \cup WorkerPC]
    /\ \A p \in Producers : pc[p] \in ProducerPC
    /\ \A w \in Workers : pc[w] \in WorkerPC
    /\ task \in [Threads -> Tasks \cup {NoTask}]
    /\ fresh \subseteq Tasks
    /\ deleted \subseteq Tasks
    /\ spurious \in 0 .. MaxSpurious

(* The statements between lock and unlock: those that touch the queue.     *)
Critical == {"add_push", "add_unlock",
             "get_test", "get_front", "get_pop", "get_unlock"}

(* Every access to _task_queue happens under _add_mutex, also after a wait *)
(* has returned: a thread is inside exactly while it owns the mutex, so    *)
(* two threads are never inside together (task_mgr.cpp 62-64, 69-78).      *)
QueueGuarded ==
    \A p \in Threads : pc[p] \in Critical <=> mutex = p

(* front() and pop() are never called on an empty queue, and pop() removes *)
(* the object front() returned: what `while', not `if', around the wait    *)
(* buys when several workers are woken for one task (70-76).               *)
PopFindsFront ==
    \A w \in Workers :
        /\ pc[w] \in {"get_front", "get_pop"} => queue # <<>>
        /\ pc[w] = "get_pop" => task[w] = Head(queue)

(* The objects in the queue, and those a thread holds.  Between front() and *)
(* pop() a worker only looks at the object, which is still in the queue.   *)
Queued == {queue[i] : i \in DOMAIN queue}
Owns(p) == task[p] # NoTask /\ pc[p] # "get_pop"
InHand == {task[p] : p \in {q \in Threads : Owns(q)}}

(* An object handed to _add_task is in one place until it is deleted: it   *)
(* is neither lost nor queued, run or deleted twice (58-80, thread.h       *)
(* 42-47).                                                                 *)
TasksConserved ==
    /\ Tasks = fresh \cup Queued \cup InHand \cup deleted
    /\ fresh \cap (Queued \cup InHand \cup deleted) = {}
    /\ deleted \cap (Queued \cup InHand) = {}
    /\ Queued \cap InHand = {}
    /\ \A i, j \in DOMAIN queue : queue[i] = queue[j] => i = j
    /\ \A p, q \in Threads : Owns(p) /\ Owns(q) /\ task[p] = task[q] => p = q

(* The workers that will look at the queue again before they wait.         *)
Awake == {w \in Workers : pc[w] \in {"get_relock", "get_test", "get_front", "get_pop"}}

(* The producers that have pushed an object and will still signal.         *)
Signalling == {p \in Producers : pc[p] \in {"add_unlock", "add_signal"}}

(* No wakeup is lost although the signal is sent after the unlock: while a *)
(* worker sleeps, every queued object has a signal still to come or a      *)
(* worker that is awake and will take it (64-65, 70-72).                   *)
NoLostWakeup ==
    waiting # {} => Len(queue) <= Cardinality(Signalling) + Cardinality(Awake)

(* The atomic queue: a worker has taken its task once pop() is done.       *)
Queue == INSTANCE TaskQueue WITH
    held <- [w \in Workers |->
                IF pc[w] \in {"get_unlock", "run"} THEN task[w] ELSE NoTask]

(* The calls behave like the atomic, first-in first-out queue TaskQueue,   *)
(* and make progress like it.                                              *)
ImplementsTaskQueue == Queue!Spec

(* Every object given to _add_task is run and deleted in the end, whatever *)
(* the order of signals, waits and spurious wakeups.                       *)
EveryTaskHandled ==
    \A t \in Tasks : t \notin fresh ~> t \in deleted
=============================================================================
