----------------------------- MODULE ThreadPool -----------------------------
(***************************************************************************)
(* SubThreadPool (thread/thread_pool.cpp) and the worker loop of           *)
(* SubThreadHandler (thread/thread.h), over the task queue of TaskMgr: how *)
(* the main thread sizes and starts the pool, how a worker leaves its      *)
(* loop, and what the SIGINT handler of io/test_select.cpp does when it    *)
(* calls _stop at any moment, on whichever thread the kernel picks.        *)
(*                                                                         *)
(* Main is the thread that runs main(): it calls _init, perhaps            *)
(* _set_thread_cnt (test_thread.cpp), _start, and then serves, which here  *)
(* means that it adds tasks.  Worker w is the thread of _threads[w - 1].   *)
(***************************************************************************)
EXTENDS Naturals, Sequences, FiniteSets

CONSTANTS
    Main,           \* the main thread, the producer of tasks
    MaxThreads,     \* bound: the largest thread count that is configured
    Tasks, NoTask, NoThread, MaxSpurious,       \* as in TaskMgr
    MaxSignals,     \* bound: SIGINTs in a behaviour
    MaxCreateFail   \* bound: pthread_create calls that fail

Workers == 1 .. MaxThreads

ASSUME PoolAssumption ==
    /\ MaxThreads \in Nat
    /\ MaxSignals \in Nat
    /\ MaxCreateFail \in Nat
    /\ Main \notin Workers
    /\ NoThread \notin {Main} \cup Workers
    /\ NoTask \notin Tasks
    /\ MaxSpurious \in Nat

VARIABLES queue, mutex, waiting, pc, task, fresh, deleted, spurious   \* TaskMgr

Mgr == INSTANCE TaskMgr WITH Producers <- {Main}

VARIABLES
    main,           \* where the main thread is in start-up
    threads_cnt,    \* _threads_cnt
    threads,        \* _threads.size()
    running,        \* workers whose thread was created
    exited,         \* workers whose loop has returned
    stoped,         \* workers whose handler has _stoped set
    handler,        \* the thread SIGINT interrupted, NoThread when none
    stop_i,         \* i, the loop variable of _stop
    fault,          \* _stop has read _threads out of its bounds: the process is dead
    signals,        \* SIGINTs so far
    create_fails,   \* failed pthread_create calls so far
    stop_heard      \* a _stop that began on the started pool has returned

mgrVars  == <<queue, mutex, waiting, pc, task, fresh, deleted, spurious>>
startVars == <<main, threads_cnt, threads, running, create_fails>>
stopVars == <<stoped, handler, stop_i, fault, signals, stop_heard>>
vars == <<mgrVars, startVars, stopVars, exited>>

MainPC == {"new", "ready", "create", "push", "serve", "failed"}

Init ==
    /\ Mgr!Init
    /\ main = "new"
    /\ threads_cnt = 0
    /\ threads = 0
    /\ running = {}
    /\ exited = {}
    /\ stoped = {}
    /\ handler = NoThread
    /\ stop_i = 0
    /\ fault = FALSE
    /\ signals = 0
    /\ create_fails = 0
    /\ stop_heard = FALSE

-----------------------------------------------------------------------------
(* Thread p executes its own code: the process lives and no signal handler *)
(* has interrupted it.                                                     *)
CanStep(p) == ~ fault /\ handler # p

MainGoto(from, to) ==
    /\ CanStep(Main)
    /\ pc[Main] = "idle"
    /\ main = from
    /\ main' = to

(* _init: the count of the configuration file, with no lower bound.        *)
PoolInit(n) ==
    /\ MainGoto("new", "ready")
    /\ threads_cnt' = n
    /\ UNCHANGED <<mgrVars, threads, running, create_fails, stopVars, exited>>

(* _set_thread_cnt: refused once there are threads.                        *)
Refused_Never == FALSE      \* mutant
Refused == threads # 0

SetThreadCnt(n) ==
    /\ CanStep(Main)
    /\ pc[Main] = "idle"
    /\ main \in {"ready", "serve"}
    /\ threads_cnt' = IF Refused THEN threads_cnt ELSE n
    /\ UNCHANGED <<mgrVars, main, threads, running, create_fails, stopVars, exited>>

(* _start: its guard, then one thread per iteration.  main() goes on to    *)
(* serve though _start has returned 0.                                     *)
MayStart_Many == threads = 0 /\ threads_cnt > 1     \* mutant: not for one thread
MayStart == threads = 0 /\ threads_cnt >= 1

StartPool ==
    /\ \/ /\ ~MayStart
          /\ MainGoto("ready", "failed")
       \/ /\ MayStart
          /\ MainGoto("ready", "create")
    /\ UNCHANGED <<mgrVars, threads_cnt, threads, running, create_fails, stopVars, exited>>

(* new SubThread, then pthread_create, whose result is not looked at.      *)
CreateThread ==
    /\ MainGoto("create", "push")
    /\ \/ running' = running \cup {threads + 1} /\ UNCHANGED create_fails
       \/ /\ create_fails < MaxCreateFail
          /\ create_fails' = create_fails + 1
          /\ UNCHANGED running
    /\ UNCHANGED <<mgrVars, threads_cnt, threads, stopVars, exited>>

PushThread ==
    /\ MainGoto("push", IF threads + 1 < threads_cnt THEN "create" ELSE "serve")
    /\ threads' = threads + 1
    /\ UNCHANGED <<mgrVars, threads_cnt, running, create_fails, stopVars, exited>>

Start == StartPool \/ CreateThread \/ PushThread

(* The main thread adds tasks before _start (test_thread.cpp 75-76) and    *)
(* from the event loop after it.                                           *)
SubmitTask(t) ==
    /\ CanStep(Main)
    /\ main \in {"new", "ready", "serve", "failed"}
    /\ Mgr!AddCall(Main, t)
    /\ UNCHANGED <<startVars, stopVars, exited>>

MainAdds ==
    /\ CanStep(Main)
    /\ Mgr!Add(Main)
    /\ UNCHANGED <<startVars, stopVars, exited>>

-----------------------------------------------------------------------------
(* _thread_proc_handler: `while (!_stoped)' is read between two tasks only.*)

Stops_Never(w) == FALSE     \* mutant: while (true)
Stops(w) == w \in stoped

WorkerLoop(w) ==
    /\ CanStep(w)
    /\ w \in running \ exited
    /\ ~Stops(w)
    /\ Mgr!GetCall(w)
    /\ UNCHANGED <<startVars, stopVars, exited>>

WorkerGets(w) ==
    /\ CanStep(w)
    /\ Mgr!Get(w)
    /\ UNCHANGED <<startVars, stopVars, exited>>

Leaves_BeforeRun(w) == pc[w] \in {"idle", "run"} /\ w \in stoped    \* mutant
Leaves_WhenEmpty(w) == pc[w] = "idle" /\ (w \in stoped \/ queue = <<>>)  \* mutant
Leaves(w) == pc[w] = "idle" /\ w \in stoped

WorkerExit(w) ==
    /\ CanStep(w)
    /\ w \in running \ exited
    /\ Leaves(w)
    /\ exited' = exited \cup {w}
    /\ UNCHANGED <<mgrVars, startVars, stopVars>>

WorkerSpurious(w) ==
    /\ CanStep(w)
    /\ Mgr!SpuriousWakeup(w)
    /\ UNCHANGED <<startVars, stopVars, exited>>

Worker(w) == WorkerLoop(w) \/ WorkerGets(w) \/ WorkerExit(w)

-----------------------------------------------------------------------------
(* SIGINT: sig_handler calls SubThreadPool::_stop on the thread p that the *)
(* kernel picked, which does nothing else until the handler returns.       *)

FromIndex_One == 1          \* mutant: the loop of _stop starts at 1
FromIndex == 0

SigInt(p) ==
    /\ ~ fault
    /\ handler = NoThread
    /\ signals < MaxSignals
    /\ p \in {Main} \cup (running \ exited)
    /\ handler' = p
    /\ signals' = signals + 1
    /\ stop_i' = FromIndex
    /\ UNCHANGED <<mgrVars, startVars, stoped, fault, stop_heard, exited>>

(* push_back may be moving the elements while the handler, on another      *)
(* thread, indexes them.                                                   *)
Racing == main = "push" /\ handler # Main

StopOne ==
    /\ ~ fault
    /\ handler # NoThread
    /\ stop_i < threads_cnt
    /\ \/ /\ stop_i < threads
          /\ stoped' = stoped \cup {stop_i + 1}
          /\ stop_i' = stop_i + 1
          /\ UNCHANGED fault
       \/ /\ stop_i >= threads \/ Racing
          /\ fault' = TRUE
          /\ UNCHANGED <<stoped, stop_i>>
    /\ UNCHANGED <<mgrVars, startVars, handler, signals, stop_heard, exited>>

StopReturns ==
    /\ ~ fault
    /\ handler # NoThread
    /\ stop_i >= threads_cnt
    /\ handler' = NoThread
    /\ stop_heard' = (stop_heard \/ main = "serve")
    /\ UNCHANGED <<mgrVars, startVars, stoped, stop_i, fault, signals, exited>>

Stop == StopOne \/ StopReturns

-----------------------------------------------------------------------------
Next ==
    \/ \E n \in 0 .. MaxThreads : PoolInit(n) \/ SetThreadCnt(n)
    \/ Start
    \/ \E t \in Tasks : SubmitTask(t)
    \/ MainAdds
    \/ \E w \in Workers : Worker(w) \/ WorkerSpurious(w)
    \/ \E p \in {Main} \cup Workers : SigInt(p)
    \/ Stop

(* Threads and signal handlers that can run do run; main gets through      *)
(* _init and _start.  Submitting tasks, signals and changes of the count   *)
(* are nobody's duty.                                                      *)
Fairness ==
    /\ WF_vars(\E n \in 0 .. MaxThreads : PoolInit(n))
    /\ WF_vars(Start)
    /\ WF_vars(MainAdds)
    /\ \A w \in Workers : WF_vars(Worker(w))
    /\ WF_vars(Stop)

Spec == Init /\ [][Next]_vars /\ Fairness

-----------------------------------------------------------------------------
(* Properties *)

TypeOK ==
    /\ Mgr!TypeOK
    /\ main \in MainPC
    /\ threads_cnt \in 0 .. MaxThreads
    /\ threads \in 0 .. MaxThreads
    /\ running \subseteq 1 .. threads + 1
    /\ stoped \subseteq 1 .. threads
    /\ exited \subseteq running \cap stoped
    /\ handler \in {Main, NoThread} \cup running
    /\ stop_i \in 0 .. MaxThreads
    /\ fault \in BOOLEAN
    /\ signals \in 0 .. MaxSignals
    /\ create_fails \in 0 .. MaxCreateFail
    /\ stop_heard \in BOOLEAN

(* _stop indexes _threads out of bounds, or while it is being grown, only  *)
(* when SIGINT arrives between _init and the end of _start: on a started   *)
(* pool _threads_cnt is the size of the vector and stays it                *)
(* (thread_pool.cpp 26-36, 43-48, 52-56).                                  *)
FaultOnlyInStartUp == fault => main \in {"ready", "create", "push"}

(* Once _start has returned, a _stop that returns has set the flag of      *)
(* every thread of the pool (thread_pool.cpp 30-36, 52-56).                *)
StopReachesAll == stop_heard => stoped = 1 .. threads

(* A worker that leaves its loop leaves nothing behind: it holds neither a *)
(* task nor the mutex, and no signal can be sent to it (thread.h 40-48).   *)
ExitsClean ==
    \A w \in exited : task[w] = NoTask /\ mutex # w /\ w \notin waiting

(* With at least one thread and no SIGINT a task is run in the end, also   *)
(* one that was submitted before the pool was started; _start fails for a  *)
(* count below 1 only (thread_pool.cpp 38-50).                             *)
TaskRunsUnlessStopped ==
    \A t \in Tasks :
        t \notin fresh ~> \/ t \in deleted
                          \/ signals > 0
                          \/ main = "failed" /\ threads_cnt < 1
                          \/ main = "serve" /\ running = {}

(* A worker that runs a task when its flag is set finishes the task and    *)
(* leaves the loop (thread.h 40-48).                                       *)
BusyWorkerExits ==
    \A w \in Workers : w \in stoped /\ pc[w] = "run" ~> w \in exited \/ fault

(* "stop" (thread_pool.h 45-48): the threads that were told to stop end.   *)
StopEndsWorkers ==
    \A w \in Workers : w \in stoped /\ w \in running ~> w \in exited \/ fault
=============================================================================
