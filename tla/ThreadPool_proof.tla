-------------------------- MODULE ThreadPool_proof --------------------------
(***************************************************************************)
(* Proofs about ThreadPool, for any number of threads and any tasks, and   *)
(* any bounds on the signals, the failing calls and the spurious wakeups.  *)
(***************************************************************************)
EXTENDS ThreadPool, FiniteSetTheorems, TLAPS

MgrProof == INSTANCE TaskMgr_proof WITH Producers <- {Main}

USE PoolAssumption

(* The assumptions of the task queue hold of the pool's threads.           *)
LEMMA MgrAssumptions ==
    /\ MgrProof!IsFiniteSet({Main}) /\ MgrProof!IsFiniteSet(Workers)
    /\ {Main} \cap Workers = {}
    /\ NoThread \notin MgrProof!Threads
    /\ NoThread \notin {Main} \cup Workers
<1>1. IsFiniteSet({Main})
    BY FS_Singleton
<1>2. IsFiniteSet(1 .. MaxThreads)
    BY FS_Interval
<1> QED
    BY <1>1, <1>2 DEF Workers, MgrProof!Threads, MgrProof!IsFiniteSet, IsFiniteSet

(* The queue of the pool is the queue of the proof.                        *)
LEMMA SameQueue ==
    /\ Mgr!Init = MgrProof!Init
    /\ \A t \in Tasks : Mgr!AddCall(Main, t) = MgrProof!AddCall(Main, t)
    /\ Mgr!Add(Main) = MgrProof!Add(Main)
    /\ \A w \in Workers :
          /\ Mgr!GetCall(w) = MgrProof!GetCall(w)
          /\ Mgr!Get(w) = MgrProof!Get(w)
          /\ Mgr!SpuriousWakeup(w) = MgrProof!SpuriousWakeup(w)
BY DEF Mgr!Init, MgrProof!Init, Mgr!Threads, MgrProof!Threads,
    Mgr!Add, Mgr!AddCall, Mgr!AddLock, Mgr!AddPush, Mgr!AddUnlock, Mgr!AddSignal,
       Mgr!Get, Mgr!GetCall, Mgr!GetLock, Mgr!GetTest, Mgr!GetRelock, Mgr!GetFront,
       Mgr!GetPop, Mgr!GetUnlock, Mgr!RunTask, Mgr!SpuriousWakeup, Mgr!Goto, Mgr!Lock,
       Mgr!Unlock, Mgr!Pushed, Mgr!Wakes, Mgr!Relock, Mgr!AfterWait, Mgr!Popped,
    MgrProof!Add, MgrProof!AddCall, MgrProof!AddLock, MgrProof!AddPush,
       MgrProof!AddUnlock, MgrProof!AddSignal, MgrProof!Get, MgrProof!GetCall,
       MgrProof!GetLock, MgrProof!GetTest, MgrProof!GetRelock, MgrProof!GetFront,
       MgrProof!GetPop, MgrProof!GetUnlock, MgrProof!RunTask, MgrProof!SpuriousWakeup,
       MgrProof!Goto, MgrProof!Lock, MgrProof!Unlock, MgrProof!Pushed, MgrProof!Wakes,
       MgrProof!Relock, MgrProof!AfterWait, MgrProof!Popped

(* A step of the pool is a step of the task queue or leaves it alone.      *)
LEMMA MgrStep == [Next]_vars => [MgrProof!Next]_(MgrProof!vars)
<1> SUFFICES ASSUME [Next]_vars PROVE [MgrProof!Next]_(MgrProof!vars)
    OBVIOUS
<1> USE DEF mgrVars, MgrProof!vars, MgrProof!Next
<1>1. CASE \E t \in Tasks : SubmitTask(t)
    BY <1>1, SameQueue DEF SubmitTask
<1>2. CASE MainAdds
    BY <1>2, SameQueue DEF MainAdds
<1>3. ASSUME NEW w \in Workers, Worker(w) \/ WorkerSpurious(w) PROVE [MgrProof!Next]_(MgrProof!vars)
    BY <1>3, SameQueue DEF Worker, WorkerLoop, WorkerGets, WorkerExit, WorkerSpurious
<1>4. CASE \E n \in 0 .. MaxThreads : PoolInit(n) \/ SetThreadCnt(n)
    BY <1>4 DEF PoolInit, SetThreadCnt
<1>5. CASE Start
    BY <1>5 DEF Start, StartPool, CreateThread, PushThread
<1>6. CASE \E p \in {Main} \cup Workers : SigInt(p)
    BY <1>6 DEF SigInt
<1>7. CASE Stop
    BY <1>7 DEF Stop, StopOne, StopReturns
<1>8. CASE UNCHANGED vars
    BY <1>8 DEF vars
<1> QED
    BY <1>1, <1>2, <1>3, <1>4, <1>5, <1>6, <1>7, <1>8 DEF Next

-----------------------------------------------------------------------------
(* What TaskMgr_proof shows of the queue, of threads that call it for ever *)
(* or stop, are never created or are interrupted.                          *)
QueueInv ==
    /\ MgrProof!TypeInv
    /\ MgrProof!QueueGuarded
    /\ MgrProof!PopFindsFront
    /\ MgrProof!NoLostWakeup
    /\ MgrProof!TasksConserved

LEMMA QueueInvInit == Init => QueueInv
<1> SUFFICES ASSUME MgrProof!Init PROVE QueueInv
    BY SameQueue DEF Init
<1> QED
    BY MgrAssumptions, MgrProof!TypeInvInit, MgrProof!LockInvInit, MgrProof!FrontInvInit,
       MgrProof!WakeupInvInit, MgrProof!ConservedInvInit
       DEF QueueInv, MgrProof!Threads

LEMMA QueueInvNext == QueueInv /\ [MgrProof!Next]_(MgrProof!vars) => QueueInv'
<1> SUFFICES ASSUME QueueInv, [MgrProof!Next]_(MgrProof!vars) PROVE QueueInv'
    OBVIOUS
<1>1. MgrProof!LockInv /\ MgrProof!FrontInv /\ MgrProof!WakeupInv /\ MgrProof!ConservedInv
    BY DEF QueueInv, MgrProof!LockInv, MgrProof!FrontInv, MgrProof!WakeupInv,
           MgrProof!ConservedInv
<1>2. MgrProof!TypeInv'
    BY MgrAssumptions, MgrProof!TypeInvNext
       DEF QueueInv, MgrProof!Threads
<1>3. MgrProof!QueueGuarded'
    BY <1>1, MgrAssumptions, MgrProof!LockInvNext
       DEF MgrProof!Threads
<1>4. MgrProof!PopFindsFront'
    BY <1>1, MgrAssumptions, MgrProof!FrontInvNext
       DEF MgrProof!Threads
<1>5. MgrProof!NoLostWakeup'
    BY <1>1, MgrAssumptions, MgrProof!WakeupInvNext
       DEF MgrProof!Threads
<1>6. MgrProof!TasksConserved'
    BY <1>1, MgrAssumptions, MgrProof!ConservedInvNext
       DEF MgrProof!Threads
<1> QED
    BY <1>2, <1>3, <1>4, <1>5, <1>6 DEF QueueInv

-----------------------------------------------------------------------------
(* How _threads_cnt and the size of _threads are related in start-up and   *)
(* from the moment main serves.                                            *)
Counted ==
    /\ main = "new" => threads_cnt = 0 /\ threads = 0
    /\ main = "ready" => threads = 0
    /\ main = "failed" => threads_cnt = 0 /\ threads = 0
    /\ main \in {"create", "push"} => threads < threads_cnt
    /\ main = "serve" => threads = threads_cnt /\ threads > 0

(* The threads a _stop in progress has been at.                            *)
StopProgress == handler # NoThread => 1 .. stop_i \subseteq stoped

HeardInServe == stop_heard => main = "serve"

(* The types of the pool's own variables.                                   *)
PoolTypeOK ==
    /\ main \in MainPC
    /\ threads_cnt \in 0 .. MaxThreads
    /\ threads \in 0 .. MaxThreads
    /\ running \subseteq 1 .. threads + 1
    /\ stoped \subseteq 1 .. threads
    /\ exited \subseteq running \cap stoped
    /\ handler \in {Main, NoThread} \cup running
    /\ stop_i \in 0 .. MaxThreads
    /\ fault \in BOOLEAN
    /\ signals \in 0 .. MaxSignals
    /\ create_fails \in 0 .. MaxCreateFail
    /\ stop_heard \in BOOLEAN

(* The pool's own part of the invariant.                                   *)
SizeInv ==
    /\ PoolTypeOK
    /\ Counted
    /\ FaultOnlyInStartUp
    /\ StopProgress
    /\ HeardInServe
    /\ StopReachesAll

LEMMA SizeInvInit == Init => SizeInv
<1> SUFFICES ASSUME Init PROVE SizeInv
    OBVIOUS
<1>1. PoolTypeOK
    <2>1. main \in MainPC /\ handler \in {Main, NoThread} \cup running
        BY DEF Init, MainPC
    <2>2. fault \in BOOLEAN /\ stop_heard \in BOOLEAN
        BY DEF Init
    <2>3. running = {} /\ stoped = {} /\ exited = {}
        BY DEF Init
    <2>4. /\ threads_cnt \in 0 .. MaxThreads /\ threads \in 0 .. MaxThreads
          /\ stop_i \in 0 .. MaxThreads /\ signals \in 0 .. MaxSignals
          /\ create_fails \in 0 .. MaxCreateFail
        BY DEF Init
    <2> QED
        BY <2>1, <2>2, <2>3, <2>4 DEF PoolTypeOK
<1>2. Counted /\ FaultOnlyInStartUp /\ StopProgress /\ HeardInServe /\ StopReachesAll
    BY DEF Init, Counted, FaultOnlyInStartUp, StopProgress, HeardInServe, StopReachesAll
<1> QED
    BY <1>1, <1>2 DEF SizeInv

LEMMA SizeInvNext == SizeInv /\ [Next]_vars => SizeInv'
<1> SUFFICES ASSUME SizeInv, [Next]_vars PROVE SizeInv'
    OBVIOUS
<1> USE DEF SizeInv, PoolTypeOK, MainPC, Counted, FaultOnlyInStartUp, StopProgress,
            HeardInServe, StopReachesAll, startVars, stopVars, MainGoto, CanStep
<1>1. ASSUME NEW n \in 0 .. MaxThreads, PoolInit(n) PROVE SizeInv'
    BY <1>1 DEF PoolInit
<1>2. ASSUME NEW n \in 0 .. MaxThreads, SetThreadCnt(n) PROVE SizeInv'
    <2>1. main \in {"ready", "serve"} /\ UNCHANGED <<main, threads, running, create_fails, stopVars, exited>>
        BY <1>2 DEF SetThreadCnt
    <2>2. threads_cnt' = IF threads # 0 THEN threads_cnt ELSE n
        BY <1>2 DEF SetThreadCnt, Refused
    <2>3. threads_cnt' \in 0 .. MaxThreads
        BY <2>2
    <2>4. Counted'
        BY <2>1, <2>2
    <2> QED
        BY <2>1, <2>3, <2>4
<1>3. CASE StartPool
    BY <1>3 DEF StartPool, MayStart
<1>4. CASE CreateThread
    <2>1. /\ main = "create" /\ main' = "push"
          /\ UNCHANGED <<threads_cnt, threads, stopVars, exited>>
        BY <1>4 DEF CreateThread
    <2>2. /\ running' \subseteq 1 .. threads + 1 /\ running \subseteq running'
          /\ create_fails' \in 0 .. MaxCreateFail
        <3>1. CASE running' = running \cup {threads + 1} /\ create_fails' = create_fails
            BY <3>1
        <3>2. CASE running' = running /\ create_fails < MaxCreateFail
                   /\ create_fails' = create_fails + 1
            BY <3>2
        <3> QED
            BY <1>4, <3>1, <3>2 DEF CreateThread
    <2> QED
        BY <2>1, <2>2
<1>5. CASE PushThread
    <2>1. /\ main = "push" /\ main' = IF threads + 1 < threads_cnt THEN "create" ELSE "serve"
          /\ threads' = threads + 1 /\ ~fault /\ handler # Main
          /\ UNCHANGED <<threads_cnt, running, create_fails, stopVars, exited>>
        BY <1>5 DEF PushThread
    <2>2. threads < threads_cnt /\ threads' \in 0 .. MaxThreads /\ ~stop_heard
        BY <2>1
    <2>3. Counted'
        BY <2>1, <2>2
    <2>4. running' \subseteq 1 .. threads' + 1 /\ stoped' \subseteq 1 .. threads'
        BY <2>1, <2>2
    <2>5. PoolTypeOK'
        BY <2>1, <2>2, <2>4
    <2> QED
        BY <2>1, <2>2, <2>3, <2>5
<1>6. ASSUME NEW p \in {Main} \cup Workers, SigInt(p) PROVE SizeInv'
    BY <1>6 DEF SigInt, FromIndex
<1>7. CASE StopOne
    <2>1. /\ ~fault /\ handler # NoThread /\ stop_i < threads_cnt
          /\ UNCHANGED <<main, threads_cnt, threads, running, create_fails, handler, signals,
                         stop_heard, exited>>
        BY <1>7 DEF StopOne
    <2>2. CASE /\ stop_i < threads /\ stoped' = stoped \cup {stop_i + 1}
               /\ stop_i' = stop_i + 1 /\ fault' = fault
        <3>1. stop_i + 1 \in 1 .. threads /\ stop_i' \in 0 .. MaxThreads
            BY <2>2
        <3>2. stoped' \subseteq 1 .. threads /\ exited \subseteq stoped'
            BY <2>2, <3>1
        <3>3. 1 .. stop_i' \subseteq stoped'
            BY <2>1, <2>2
        <3>4. stop_heard => stoped' = 1 .. threads
            BY <2>2, <3>2
        <3>5. PoolTypeOK'
            BY <2>1, <2>2, <3>1, <3>2
        <3> QED
            BY <2>1, <2>2, <3>3, <3>4, <3>5
    <2>3. CASE /\ stop_i >= threads \/ main = "push"
               /\ fault' = TRUE /\ stoped' = stoped /\ stop_i' = stop_i
        <3>1. main \in {"ready", "create", "push"}
            BY <2>1, <2>3
        <3> QED
            BY <2>1, <2>3, <3>1
    <2> QED
        BY <1>7, <2>2, <2>3 DEF StopOne, Racing
<1>8. CASE StopReturns
    <2>1. /\ ~fault /\ handler # NoThread /\ stop_i >= threads_cnt /\ handler' = NoThread
          /\ UNCHANGED <<main, threads_cnt, threads, running, create_fails, stoped, stop_i,
                         fault, signals, exited>>
        BY <1>8 DEF StopReturns
    <2>2. stop_heard' = (stop_heard \/ main = "serve")
        BY <1>8 DEF StopReturns
    <2>3. main = "serve" => stoped = 1 .. threads
        <3> SUFFICES ASSUME main = "serve" PROVE stoped = 1 .. threads
            OBVIOUS
        <3>1. threads \in Nat /\ stop_i \in Nat /\ stop_i >= threads
            BY <2>1
        <3>2. \A i \in 1 .. threads : i \in stoped
            BY <2>1, <3>1
        <3> QED
            BY <3>2
    <2>4. stop_heard' \in BOOLEAN /\ (stop_heard' => main = "serve")
        BY <2>2
    <2>5. PoolTypeOK'
        BY <2>1, <2>4
    <2> QED
        BY <2>1, <2>3, <2>4, <2>5
<1>9. ASSUME NEW t \in Tasks, SubmitTask(t) PROVE SizeInv'
    BY <1>9 DEF SubmitTask
<1>10. CASE MainAdds
    BY <1>10 DEF MainAdds
<1>11. ASSUME NEW w \in Workers, WorkerLoop(w) \/ WorkerGets(w) \/ WorkerSpurious(w)
       PROVE  SizeInv'
    <2>1. UNCHANGED <<startVars, stopVars, exited>>
        BY <1>11 DEF WorkerLoop, WorkerGets, WorkerSpurious
    <2> QED
        BY <2>1
<1>12. ASSUME NEW w \in Workers, WorkerExit(w) PROVE SizeInv'
    BY <1>12 DEF WorkerExit, Leaves
<1>13. CASE UNCHANGED vars
    BY <1>13 DEF vars
<1> QED
    BY <1>1, <1>2, <1>3, <1>4, <1>5, <1>6, <1>7, <1>8, <1>9, <1>10, <1>11, <1>12, <1>13
       DEF Next, Start, Worker, Stop

-----------------------------------------------------------------------------
(* A worker that has left its loop is between two calls.                   *)
ExitedIdle == \A w \in exited : w \in Workers /\ pc[w] = "idle"

PoolInv == QueueInv /\ SizeInv /\ ExitedIdle

LEMMA ExitedStay ==
    ASSUME PoolInv, [Next]_vars PROVE ExitedIdle'
<1> USE DEF PoolInv, ExitedIdle
<1>1. /\ pc \in [{Main} \cup Workers -> MgrProof!ProducerPC \cup MgrProof!WorkerPC]
      /\ \A w \in waiting : w \in Workers /\ pc[w] = "get_wait"
    BY DEF QueueInv, MgrProof!TypeInv, MgrProof!TypeOK, MgrProof!WaitersBlocked,
           MgrProof!Threads
<1>2. CASE pc' = pc /\ exited' = exited
    BY <1>2
<1>3. CASE \E t \in Tasks : SubmitTask(t)
    BY <1>1, <1>3 DEF SubmitTask, Mgr!AddCall, Mgr!Goto
<1>4. CASE MainAdds
    BY <1>1, <1>4
       DEF MainAdds, Mgr!Add, Mgr!AddLock, Mgr!AddPush, Mgr!AddUnlock, Mgr!AddSignal,
           Mgr!Goto, Mgr!Wakes
<1>5. ASSUME NEW w \in Workers, WorkerLoop(w) PROVE ExitedIdle'
    BY <1>1, <1>5 DEF WorkerLoop, Mgr!GetCall, Mgr!Goto
<1>6. ASSUME NEW w \in Workers, WorkerGets(w) \/ WorkerSpurious(w) PROVE ExitedIdle'
    BY <1>1, <1>6
       DEF WorkerGets, WorkerSpurious, Mgr!SpuriousWakeup, Mgr!Get, Mgr!GetLock, Mgr!GetTest,
           Mgr!GetRelock, Mgr!GetFront, Mgr!GetPop, Mgr!GetUnlock, Mgr!RunTask, Mgr!Goto
<1>7. ASSUME NEW w \in Workers, WorkerExit(w) PROVE ExitedIdle'
    BY <1>7 DEF WorkerExit, Leaves, mgrVars
<1>8. CASE \/ \E n \in 0 .. MaxThreads : PoolInit(n) \/ SetThreadCnt(n)
           \/ Start \/ (\E p \in {Main} \cup Workers : SigInt(p)) \/ Stop \/ UNCHANGED vars
    BY <1>2, <1>8
       DEF PoolInit, SetThreadCnt, Start, StartPool, CreateThread, PushThread, SigInt,
           Stop, StopOne, StopReturns, mgrVars, vars
<1> QED
    BY <1>3, <1>4, <1>5, <1>6, <1>7, <1>8 DEF Next, Worker

LEMMA PoolInvariant == Spec => []PoolInv
<1>1. Init => PoolInv
    BY QueueInvInit, SizeInvInit DEF PoolInv, ExitedIdle, Init
<1>2. PoolInv /\ [Next]_vars => PoolInv'
    BY MgrStep, QueueInvNext, SizeInvNext, ExitedStay DEF PoolInv
<1> QED
    BY <1>1, <1>2, PTL DEF Spec

LEMMA SameTypes == Mgr!TypeOK = MgrProof!TypeOK
BY DEF Mgr!TypeOK, MgrProof!TypeOK, Mgr!Threads, MgrProof!Threads, Mgr!ProducerPC,
       MgrProof!ProducerPC, Mgr!WorkerPC, MgrProof!WorkerPC

(* The state of the pool stays in its types; a thread is told to stop only *)
(* if it is in the vector, and leaves its loop only if it was told to      *)
(* (thread_pool.cpp 38-56, thread.h 40-48).                                *)
THEOREM TypeCorrect == Spec => []TypeOK
<1>1. PoolInv => TypeOK
    BY SameTypes DEF PoolInv, QueueInv, SizeInv, PoolTypeOK, TypeOK, MgrProof!TypeInv
<1> QED
    BY <1>1, PoolInvariant, PTL

(* _stop reads _threads out of its bounds only between _init and the end   *)
(* of _start (thread_pool.cpp 26-36, 43-48, 52-56).                        *)
THEOREM FaultOnlyInStartUpCorrect == Spec => []FaultOnlyInStartUp
<1>1. PoolInv => FaultOnlyInStartUp
    BY DEF PoolInv, SizeInv
<1> QED
    BY <1>1, PoolInvariant, PTL

(* A _stop of the started pool reaches every thread, whatever thread runs  *)
(* the handler and however often the count was set (thread_pool.cpp 30-36, *)
(* 52-56).                                                                 *)
THEOREM StopReachesAllCorrect == Spec => []StopReachesAll
<1>1. PoolInv => StopReachesAll
    BY DEF PoolInv, SizeInv
<1> QED
    BY <1>1, PoolInvariant, PTL

(* A worker leaves its loop with neither a task nor the mutex, and no      *)
(* signal for it is outstanding (thread.h 40-48).                          *)
THEOREM ExitsCleanCorrect == Spec => []ExitsClean
<1>1. PoolInv => ExitsClean
    <2> SUFFICES ASSUME PoolInv, NEW w \in exited
                 PROVE  task[w] = NoTask /\ mutex # w /\ w \notin waiting
        BY DEF ExitsClean
    <2>1. w \in Workers /\ pc[w] = "idle"
        BY DEF PoolInv, ExitedIdle
    <2>2. task[w] = NoTask
        BY <2>1 DEF PoolInv, QueueInv, MgrProof!TypeInv, MgrProof!TaskHeld
    <2>3. mutex # w
        BY <2>1 DEF PoolInv, QueueInv, MgrProof!QueueGuarded, MgrProof!Critical,
                    MgrProof!Threads
    <2>4. w \notin waiting
        BY <2>1 DEF PoolInv, QueueInv, MgrProof!TypeInv, MgrProof!WaitersBlocked
    <2> QED
        BY <2>2, <2>3, <2>4
<1> QED
    BY <1>1, PoolInvariant, PTL

(* What holds of the queue between threads that call it for ever holds in  *)
(* the pool too, where threads may be missing, leave their loop, or run a  *)
(* signal handler at any point: its accesses exclude each other, no wakeup *)
(* is lost and no task is lost or run twice (task_mgr.cpp 58-80, thread.h  *)
(* 40-48).                                                                 *)
THEOREM QueueCorrectInPool ==
    Spec => [](/\ MgrProof!QueueGuarded /\ MgrProof!PopFindsFront
               /\ MgrProof!NoLostWakeup /\ MgrProof!TasksConserved)
<1>1. PoolInv => /\ MgrProof!QueueGuarded /\ MgrProof!PopFindsFront
                 /\ MgrProof!NoLostWakeup /\ MgrProof!TasksConserved
    BY DEF PoolInv, QueueInv
<1> QED
    BY <1>1, PoolInvariant, PTL
(* The pool's queue implements the atomic one, which is what EpollServer   *)
(* takes it for: whatever _stop, its signals, and threads that are missing *)
(* or gone do, a step of the pool is an Add, a Take or a Finish of         *)
(* TaskQueue, or is not seen by its users (task_mgr.cpp 58-80, thread.h    *)
(* 40-48).                                                                 *)
THEOREM PoolRefinesTaskQueue == Spec => Mgr!Queue!SafeSpec
<1>1. Init => MgrProof!Queue!Init
    BY SameQueue, MgrAssumptions, MgrProof!RefinementInit DEF Init
<1>2. PoolInv /\ [Next]_vars => [MgrProof!Queue!Next]_(MgrProof!Queue!vars)
    BY MgrStep, MgrAssumptions, MgrProof!RefinementNext
       DEF PoolInv, QueueInv, MgrProof!ConservedInv, MgrProof!FrontInv, MgrProof!LockInv
<1>3. Mgr!Queue!Init = MgrProof!Queue!Init
    BY DEF Mgr!Queue!Init, MgrProof!Queue!Init
<1>4. [MgrProof!Queue!Next]_(MgrProof!Queue!vars) = [Mgr!Queue!Next]_(Mgr!Queue!vars)
    BY DEF Mgr!Queue!Next, MgrProof!Queue!Next, Mgr!Queue!vars, MgrProof!Queue!vars,
           Mgr!Queue!Add, MgrProof!Queue!Add, Mgr!Queue!Take, MgrProof!Queue!Take,
           Mgr!Queue!Finish, MgrProof!Queue!Finish, Mgr!Queue!Range, MgrProof!Queue!Range
<1>5. Init => Mgr!Queue!Init
    BY <1>1, <1>3
<1>6. PoolInv /\ [Next]_vars => [Mgr!Queue!Next]_(Mgr!Queue!vars)
    BY <1>2, <1>4
<1> QED
    BY <1>5, <1>6, PoolInvariant, PTL DEF Spec, Mgr!Queue!SafeSpec
=============================================================================
