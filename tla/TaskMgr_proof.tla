--------------------------- MODULE TaskMgr_proof ---------------------------
(***************************************************************************)
(* Proofs about TaskMgr, for any finite sets of producers and workers, any *)
(* set of tasks and any bound on the spurious wakeups.                     *)
(***************************************************************************)
EXTENDS TaskMgr, FiniteSetTheorems, SequenceTheorems, TLAPS

(* A thread's local `task' points to an object from AddCall to AddPush, and *)
(* from GetFront to RunTask.                                               *)
TaskHeld ==
    /\ \A p \in Producers : task[p] # NoTask <=> pc[p] \in {"add_lock", "add_push"}
    /\ \A w \in Workers : task[w] # NoTask <=> pc[w] \in {"get_pop", "get_unlock", "run"}

(* A thread is in the set of waiters exactly while it is blocked.          *)
WaitersBlocked ==
    waiting = {w \in Workers : pc[w] = "get_wait"}

(* TypeOK needs to know when a thread's local task is an object, and that  *)
(* a woken thread was waiting: only together are they inductive.           *)
TypeInv == TypeOK /\ TaskHeld /\ WaitersBlocked

USE ThreadsAssumption, TasksAssumption, SpuriousAssumption
    DEF Pushed, Wakes, Relock, AfterWait, Popped

LEMMA TypeInvInit == Init => TypeInv
BY DEF Init, TypeInv, TypeOK, TaskHeld, WaitersBlocked, Threads, ProducerPC, WorkerPC

(* Every step keeps the types.                                             *)
LEMMA TypeInvNext == TypeInv /\ [Next]_vars => TypeInv'
<1> SUFFICES ASSUME TypeInv, [Next]_vars PROVE TypeInv'
    OBVIOUS
<1> USE DEF TypeInv, TypeOK, TaskHeld, WaitersBlocked, Threads, ProducerPC, WorkerPC, Goto, Lock, Unlock
<1>1. ASSUME NEW p \in Producers, NEW t \in Tasks, AddCall(p, t) PROVE TypeInv'
    BY <1>1 DEF AddCall
<1>2. ASSUME NEW p \in Producers, AddLock(p) PROVE TypeInv'
    BY <1>2 DEF AddLock
<1>3. ASSUME NEW p \in Producers, AddPush(p) PROVE TypeInv'
    BY <1>3 DEF AddPush
<1>4. ASSUME NEW p \in Producers, AddUnlock(p) PROVE TypeInv'
    BY <1>4 DEF AddUnlock
<1>5. ASSUME NEW p \in Producers, AddSignal(p) PROVE TypeInv'
    BY <1>5 DEF AddSignal
<1>6. ASSUME NEW w \in Workers, GetCall(w) PROVE TypeInv'
    BY <1>6 DEF GetCall
<1>7. ASSUME NEW w \in Workers, GetLock(w) PROVE TypeInv'
    BY <1>7 DEF GetLock
<1>8. ASSUME NEW w \in Workers, GetTest(w) PROVE TypeInv'
    BY <1>8 DEF GetTest
<1>9. ASSUME NEW w \in Workers, GetRelock(w) PROVE TypeInv'
    BY <1>9 DEF GetRelock
<1>10. ASSUME NEW w \in Workers, GetFront(w) PROVE TypeInv'
    BY <1>10 DEF GetFront
<1>11. ASSUME NEW w \in Workers, GetPop(w) PROVE TypeInv'
    BY <1>11 DEF GetPop
<1>12. ASSUME NEW w \in Workers, GetUnlock(w) PROVE TypeInv'
    BY <1>12 DEF GetUnlock
<1>13. ASSUME NEW w \in Workers, RunTask(w) PROVE TypeInv'
    BY <1>13 DEF RunTask
<1>14. ASSUME NEW w \in Workers, SpuriousWakeup(w) PROVE TypeInv'
    BY <1>14 DEF SpuriousWakeup
<1>15. CASE UNCHANGED vars
    BY <1>15 DEF vars
<1> QED
    BY <1>1, <1>2, <1>3, <1>4, <1>5, <1>6, <1>7, <1>8, <1>9, <1>10, <1>11,
       <1>12, <1>13, <1>14, <1>15 DEF Next, Add, Get

(* The state stays in its types: the queue holds real objects only, never  *)
(* NULL (task_mgr.cpp 58-80).                                              *)
THEOREM TypeCorrect == Spec => []TypeOK
<1>1. Init => TypeInv
    BY TypeInvInit
<1>2. TypeInv /\ [Next]_vars => TypeInv'
    BY TypeInvNext
<1>3. TypeInv => TypeOK
    BY DEF TypeInv
<1> QED
    BY <1>1, <1>2, <1>3, PTL DEF Spec

-----------------------------------------------------------------------------
(* The mutex: a thread is between lock and unlock while it owns it.        *)

LockInv == TypeInv /\ QueueGuarded

LEMMA LockInvInit == Init => QueueGuarded
BY DEF Init, QueueGuarded, Critical, Threads

LEMMA LockInvNext == LockInv /\ [Next]_vars => QueueGuarded'
<1> SUFFICES ASSUME LockInv, [Next]_vars PROVE QueueGuarded'
    OBVIOUS
<1> USE DEF LockInv, TypeInv, TypeOK, WaitersBlocked, QueueGuarded, Critical, Threads,
            ProducerPC, WorkerPC, Goto, Lock, Unlock
<1>1. ASSUME NEW p \in Producers, NEW t \in Tasks, AddCall(p, t) PROVE QueueGuarded'
    BY <1>1 DEF AddCall
<1>2. ASSUME NEW p \in Producers, AddLock(p) PROVE QueueGuarded'
    BY <1>2 DEF AddLock
<1>3. ASSUME NEW p \in Producers, AddPush(p) PROVE QueueGuarded'
    BY <1>3 DEF AddPush
<1>4. ASSUME NEW p \in Producers, AddUnlock(p) PROVE QueueGuarded'
    BY <1>4 DEF AddUnlock
<1>5. ASSUME NEW p \in Producers, AddSignal(p) PROVE QueueGuarded'
    BY <1>5 DEF AddSignal
<1>6. ASSUME NEW w \in Workers, GetCall(w) PROVE QueueGuarded'
    BY <1>6 DEF GetCall
<1>7. ASSUME NEW w \in Workers, GetLock(w) PROVE QueueGuarded'
    BY <1>7 DEF GetLock
<1>8. ASSUME NEW w \in Workers, GetTest(w) PROVE QueueGuarded'
    BY <1>8 DEF GetTest
<1>9. ASSUME NEW w \in Workers, GetRelock(w) PROVE QueueGuarded'
    BY <1>9 DEF GetRelock
<1>10. ASSUME NEW w \in Workers, GetFront(w) PROVE QueueGuarded'
    BY <1>10 DEF GetFront
<1>11. ASSUME NEW w \in Workers, GetPop(w) PROVE QueueGuarded'
    BY <1>11 DEF GetPop
<1>12. ASSUME NEW w \in Workers, GetUnlock(w) PROVE QueueGuarded'
    BY <1>12 DEF GetUnlock
<1>13. ASSUME NEW w \in Workers, RunTask(w) PROVE QueueGuarded'
    BY <1>13 DEF RunTask
<1>14. ASSUME NEW w \in Workers, SpuriousWakeup(w) PROVE QueueGuarded'
    BY <1>14 DEF SpuriousWakeup
<1>15. CASE UNCHANGED vars
    BY <1>15 DEF vars
<1> QED
    BY <1>1, <1>2, <1>3, <1>4, <1>5, <1>6, <1>7, <1>8, <1>9, <1>10, <1>11,
       <1>12, <1>13, <1>14, <1>15 DEF Next, Add, Get

(* Every access to the queue happens under _add_mutex (task_mgr.cpp 62-64, *)
(* 69-78), so no two threads are ever inside.                              *)
THEOREM QueueGuardedCorrect == Spec => []QueueGuarded
<1>1. Init => LockInv
    BY TypeInvInit, LockInvInit DEF LockInv
<1>2. LockInv /\ [Next]_vars => LockInv'
    BY TypeInvNext, LockInvNext DEF LockInv
<1>3. LockInv => QueueGuarded
    BY DEF LockInv
<1> QED
    BY <1>1, <1>2, <1>3, PTL DEF Spec

-----------------------------------------------------------------------------
(* What a worker knows of the queue between its test and its pop.          *)

FrontInv == LockInv /\ PopFindsFront

LEMMA FrontInvInit == Init => PopFindsFront
BY DEF Init, PopFindsFront, Threads

LEMMA FrontInvNext == FrontInv /\ [Next]_vars => PopFindsFront'
<1> SUFFICES ASSUME FrontInv, [Next]_vars PROVE PopFindsFront'
    OBVIOUS
<1> USE DEF FrontInv, LockInv, TypeInv, TypeOK, WaitersBlocked, QueueGuarded, Critical,
            PopFindsFront, Threads, ProducerPC, WorkerPC, Goto, Lock, Unlock
<1>1. ASSUME NEW p \in Producers, NEW t \in Tasks, AddCall(p, t) PROVE PopFindsFront'
    BY <1>1 DEF AddCall
<1>2. ASSUME NEW p \in Producers, AddLock(p) PROVE PopFindsFront'
    BY <1>2 DEF AddLock
<1>3. ASSUME NEW p \in Producers, AddPush(p) PROVE PopFindsFront'
    BY <1>3 DEF AddPush
<1>4. ASSUME NEW p \in Producers, AddUnlock(p) PROVE PopFindsFront'
    BY <1>4 DEF AddUnlock
<1>5. ASSUME NEW p \in Producers, AddSignal(p) PROVE PopFindsFront'
    BY <1>5 DEF AddSignal
<1>6. ASSUME NEW w \in Workers, GetCall(w) PROVE PopFindsFront'
    BY <1>6 DEF GetCall
<1>7. ASSUME NEW w \in Workers, GetLock(w) PROVE PopFindsFront'
    BY <1>7 DEF GetLock
<1>8. ASSUME NEW w \in Workers, GetTest(w) PROVE PopFindsFront'
    BY <1>8 DEF GetTest
<1>9. ASSUME NEW w \in Workers, GetRelock(w) PROVE PopFindsFront'
    BY <1>9 DEF GetRelock
<1>10. ASSUME NEW w \in Workers, GetFront(w) PROVE PopFindsFront'
    BY <1>10 DEF GetFront
<1>11. ASSUME NEW w \in Workers, GetPop(w) PROVE PopFindsFront'
    BY <1>11 DEF GetPop
<1>12. ASSUME NEW w \in Workers, GetUnlock(w) PROVE PopFindsFront'
    BY <1>12 DEF GetUnlock
<1>13. ASSUME NEW w \in Workers, RunTask(w) PROVE PopFindsFront'
    BY <1>13 DEF RunTask
<1>14. ASSUME NEW w \in Workers, SpuriousWakeup(w) PROVE PopFindsFront'
    BY <1>14 DEF SpuriousWakeup
<1>15. CASE UNCHANGED vars
    BY <1>15 DEF vars
<1> QED
    BY <1>1, <1>2, <1>3, <1>4, <1>5, <1>6, <1>7, <1>8, <1>9, <1>10, <1>11,
       <1>12, <1>13, <1>14, <1>15 DEF Next, Add, Get

(* front() and pop() never meet an empty queue and mean the same object    *)
(* (task_mgr.cpp 70-76): the test of the loop still holds after a wait.    *)
THEOREM PopFindsFrontCorrect == Spec => []PopFindsFront
<1>1. Init => FrontInv
    BY TypeInvInit, LockInvInit, FrontInvInit DEF FrontInv, LockInv
<1>2. FrontInv /\ [Next]_vars => FrontInv'
    BY TypeInvNext, LockInvNext, FrontInvNext DEF FrontInv, LockInv
<1>3. FrontInv => PopFindsFront
    BY DEF FrontInv
<1> QED
    BY <1>1, <1>2, <1>3, PTL DEF Spec

-----------------------------------------------------------------------------
(* The counting argument: what each step does to the two sets.             *)

WakeupInv == FrontInv /\ NoLostWakeup

LEMMA CountersFinite ==
    ASSUME TypeOK
    PROVE  /\ IsFiniteSet(Signalling) /\ Cardinality(Signalling) \in Nat
           /\ IsFiniteSet(Awake) /\ Cardinality(Awake) \in Nat
<1>1. Signalling \in SUBSET Producers /\ Awake \in SUBSET Workers
    BY DEF Signalling, Awake
<1>2. IsFiniteSet(Signalling) /\ IsFiniteSet(Awake)
    BY <1>1, FS_Subset
<1> QED
    BY <1>2, FS_CardinalityType

(* The cardinality of a set that gains or loses one element.               *)
LEMMA CardinalityGain ==
    ASSUME NEW S, NEW x, IsFiniteSet(S), x \notin S
    PROVE  Cardinality(S \cup {x}) = Cardinality(S) + 1
BY FS_AddElement

LEMMA CardinalityLoss ==
    ASSUME NEW S, NEW x, IsFiniteSet(S), x \in S
    PROVE  Cardinality(S \ {x}) = Cardinality(S) - 1
BY FS_RemoveElement

LEMMA WakeupInvInit == Init => NoLostWakeup
BY DEF Init, NoLostWakeup

LEMMA WakeupInvNext == WakeupInv /\ [Next]_vars => NoLostWakeup'
<1> SUFFICES ASSUME WakeupInv, [Next]_vars PROVE NoLostWakeup'
    OBVIOUS
<1> USE DEF WakeupInv, FrontInv, LockInv, TypeInv, TypeOK, WaitersBlocked, PopFindsFront,
            Threads, ProducerPC, WorkerPC, Goto, Lock, Unlock
<1>a. /\ IsFiniteSet(Signalling) /\ Cardinality(Signalling) \in Nat
      /\ IsFiniteSet(Awake) /\ Cardinality(Awake) \in Nat
    BY CountersFinite
<1>b. TypeOK'
    BY TypeInvNext
<1>c. Len(queue) \in Nat
    BY LenProperties
<1>same. ASSUME Signalling' = Signalling, Awake' = Awake, queue' = queue,
                waiting' = {} \/ waiting # {}
         PROVE  NoLostWakeup'
    BY <1>same DEF NoLostWakeup
<1>1. ASSUME NEW p \in Producers, NEW t \in Tasks, AddCall(p, t) PROVE NoLostWakeup'
    BY <1>1, <1>same DEF AddCall, Signalling, Awake
<1>2. ASSUME NEW p \in Producers, AddLock(p) PROVE NoLostWakeup'
    BY <1>2, <1>same DEF AddLock, Signalling, Awake
<1>3. ASSUME NEW p \in Producers, AddPush(p) PROVE NoLostWakeup'
    <2>1. Signalling' = Signalling \cup {p} /\ p \notin Signalling /\ Awake' = Awake
        BY <1>3 DEF AddPush, Signalling, Awake
    <2>2. Cardinality(Signalling') = Cardinality(Signalling) + 1
        BY <1>a, <2>1, CardinalityGain
    <2>3. Len(queue') = Len(queue) + 1 /\ waiting' = waiting
        <3>1. task[p] \in Tasks
            BY <1>3 DEF AddPush, TaskHeld
        <3> QED
            BY <1>3, <3>1, AppendProperties DEF AddPush
    <2> QED
        BY <1>a, <1>c, <2>1, <2>2, <2>3 DEF NoLostWakeup
<1>4. ASSUME NEW p \in Producers, AddUnlock(p) PROVE NoLostWakeup'
    BY <1>4, <1>same DEF AddUnlock, Signalling, Awake
<1>5. ASSUME NEW p \in Producers, AddSignal(p) PROVE NoLostWakeup'
    <2>1. CASE waiting = {}
        BY <1>5, <2>1 DEF AddSignal, NoLostWakeup
    <2>2. ASSUME NEW w \in waiting, waiting' = waiting \ {w},
                 pc' = [pc EXCEPT ![p] = "idle", ![w] = "get_relock"], queue' = queue
          PROVE  NoLostWakeup'
        <3>1. Signalling' = Signalling \ {p} /\ p \in Signalling
            BY <1>5, <2>2 DEF AddSignal, Signalling
        <3>2. Awake' = Awake \cup {w} /\ w \notin Awake
            BY <1>5, <2>2 DEF AddSignal, Awake
        <3>3. Cardinality(Signalling') = Cardinality(Signalling) - 1
            BY <1>a, <3>1, CardinalityLoss
        <3>4. Cardinality(Awake') = Cardinality(Awake) + 1
            BY <1>a, <3>2, CardinalityGain
        <3> QED
            BY <1>a, <1>c, <2>2, <3>3, <3>4 DEF NoLostWakeup
    <2> QED
        BY <1>5, <2>1, <2>2 DEF AddSignal
<1>6. ASSUME NEW w \in Workers, GetCall(w) PROVE NoLostWakeup'
    BY <1>6, <1>same DEF GetCall, Signalling, Awake
<1>wake. ASSUME NEW w \in Workers, Awake' = Awake \cup {w}, w \notin Awake,
                Signalling' = Signalling, queue' = queue,
                waiting' = {} \/ waiting # {}
         PROVE  NoLostWakeup'
    <2>1. Cardinality(Awake') = Cardinality(Awake) + 1
        BY <1>a, <1>wake, CardinalityGain
    <2> QED
        BY <1>a, <1>c, <1>wake, <2>1 DEF NoLostWakeup
<1>7. ASSUME NEW w \in Workers, GetLock(w) PROVE NoLostWakeup'
    BY <1>7, <1>wake DEF GetLock, Signalling, Awake
<1>8. ASSUME NEW w \in Workers, GetTest(w) PROVE NoLostWakeup'
    <2>1. CASE queue # <<>>
        BY <1>8, <2>1, <1>same DEF GetTest, Signalling, Awake
    <2>2. CASE queue = <<>>
        <3>1. Len(queue') = 0
            BY <1>8, <2>2 DEF GetTest
        <3>2. Cardinality(Signalling') \in Nat /\ Cardinality(Awake') \in Nat
            <4>1. Signalling' \in SUBSET Producers /\ Awake' \in SUBSET Workers
                BY DEF Signalling, Awake
            <4>2. IsFiniteSet(Signalling') /\ IsFiniteSet(Awake')
                BY <4>1, FS_Subset
            <4> QED
                BY <4>2, FS_CardinalityType
        <3> QED
            BY <3>1, <3>2 DEF NoLostWakeup
    <2> QED
        BY <2>1, <2>2
<1>9. ASSUME NEW w \in Workers, GetRelock(w) PROVE NoLostWakeup'
    BY <1>9, <1>same DEF GetRelock, Signalling, Awake
<1>10. ASSUME NEW w \in Workers, GetFront(w) PROVE NoLostWakeup'
    BY <1>10, <1>same DEF GetFront, Signalling, Awake
<1>11. ASSUME NEW w \in Workers, GetPop(w) PROVE NoLostWakeup'
    <2>1. Awake' = Awake \ {w} /\ w \in Awake /\ Signalling' = Signalling
        BY <1>11 DEF GetPop, Signalling, Awake
    <2>2. Cardinality(Awake') = Cardinality(Awake) - 1
        BY <1>a, <2>1, CardinalityLoss
    <2>3. Len(queue') = Len(queue) - 1 /\ waiting' = waiting
        BY <1>11, HeadTailProperties DEF GetPop
    <2> QED
        BY <1>a, <1>c, <2>1, <2>2, <2>3 DEF NoLostWakeup
<1>12. ASSUME NEW w \in Workers, GetUnlock(w) PROVE NoLostWakeup'
    BY <1>12, <1>same DEF GetUnlock, Signalling, Awake
<1>13. ASSUME NEW w \in Workers, RunTask(w) PROVE NoLostWakeup'
    BY <1>13, <1>same DEF RunTask, Signalling, Awake
<1>14. ASSUME NEW w \in Workers, SpuriousWakeup(w) PROVE NoLostWakeup'
    BY <1>14, <1>wake DEF SpuriousWakeup, Signalling, Awake
<1>15. CASE UNCHANGED vars
    BY <1>15, <1>same DEF vars, Signalling, Awake
<1> QED
    BY <1>1, <1>2, <1>3, <1>4, <1>5, <1>6, <1>7, <1>8, <1>9, <1>10, <1>11,
       <1>12, <1>13, <1>14, <1>15 DEF Next, Add, Get

(* No wakeup is lost, though _add_task signals after it has released the   *)
(* mutex (task_mgr.cpp 64-65): whenever a worker sleeps there are at least *)
(* as many signals to come and awake workers as queued tasks.              *)
THEOREM NoLostWakeupCorrect == Spec => []NoLostWakeup
<1>1. Init => WakeupInv
    BY TypeInvInit, LockInvInit, FrontInvInit, WakeupInvInit DEF WakeupInv, FrontInv, LockInv
<1>2. WakeupInv /\ [Next]_vars => WakeupInv'
    BY TypeInvNext, LockInvNext, FrontInvNext, WakeupInvNext DEF WakeupInv, FrontInv, LockInv
<1>3. WakeupInv => NoLostWakeup
    BY DEF WakeupInv
<1> QED
    BY <1>1, <1>2, <1>3, PTL DEF Spec

-----------------------------------------------------------------------------
(* Conservation: which step moves which object where.                      *)

ConservedInv == FrontInv /\ TasksConserved

LEMMA ConservedInvInit == Init => TasksConserved
<1> SUFFICES ASSUME Init PROVE TasksConserved
    OBVIOUS
<1>1. InHand = {} /\ Queued = {}
    BY DEF Init, InHand, Owns, Queued, Threads
<1>2. queue = <<>> /\ \A p \in Threads : ~ Owns(p)
    BY DEF Init, Owns, Threads
<1> QED
    BY <1>1, <1>2 DEF Init, TasksConserved

(* A thread that owned nothing takes over object t.                        *)
LEMMA InHandGain ==
    ASSUME NEW p \in Threads, NEW t \in Tasks, ~ Owns(p), Owns(p)', task'[p] = t,
           \A q \in Threads \ {p} : (Owns(q)' <=> Owns(q)) /\ (Owns(q) => task'[q] = task[q])
    PROVE  InHand' = InHand \cup {t}
BY DEF InHand

(* A thread gives up the object it alone owned.                            *)
LEMMA InHandLoss ==
    ASSUME NEW p \in Threads, NEW t \in Tasks, Owns(p), ~ Owns(p)', task[p] = t,
           \A q \in Threads \ {p} : (Owns(q)' <=> Owns(q)) /\ (Owns(q) => task'[q] = task[q]),
           \A q, r \in Threads : Owns(q) /\ Owns(r) /\ task[q] = task[r] => q = r
    PROVE  InHand' = InHand \ {t}
BY DEF InHand

LEMMA ConservedInvNext == ConservedInv /\ [Next]_vars => TasksConserved'
<1> SUFFICES ASSUME ConservedInv, [Next]_vars PROVE TasksConserved'
    OBVIOUS
<1> USE DEF ConservedInv, FrontInv, LockInv, TypeInv, TypeOK, TaskHeld, PopFindsFront,
            Threads, ProducerPC, WorkerPC, Goto
<1>same. ASSUME \A p \in Threads : (Owns(p)' <=> Owns(p)) /\ (Owns(p) => task'[p] = task[p]),
                queue' = queue, fresh' = fresh, deleted' = deleted
         PROVE  TasksConserved'
    <2>1. InHand' = InHand /\ Queued' = Queued
        BY <1>same DEF InHand, Queued
    <2> QED
        BY <1>same, <2>1 DEF TasksConserved
<1>1. ASSUME NEW p \in Producers, NEW t \in Tasks, AddCall(p, t) PROVE TasksConserved'
    <2>1. ~ Owns(p) /\ Owns(p)' /\ task'[p] = t
        BY <1>1 DEF AddCall, Owns
    <2>2. \A q \in Threads \ {p} : (Owns(q)' <=> Owns(q)) /\ task'[q] = task[q]
        BY <1>1 DEF AddCall, Owns
    <2>3. InHand' = InHand \cup {t}
        BY <2>1, <2>2, InHandGain
    <2>4. Queued' = Queued /\ queue' = queue /\ fresh' = fresh \ {t} /\ deleted' = deleted /\ t \in fresh
        BY <1>1 DEF AddCall, Queued
    <2>5. \A q \in Threads : Owns(q) => task[q] \in InHand
        BY DEF InHand
    <2> QED
        BY <2>1, <2>2, <2>3, <2>4, <2>5 DEF TasksConserved
<1>2. ASSUME NEW p \in Producers, AddLock(p) PROVE TasksConserved'
    BY <1>2, <1>same DEF AddLock, Owns
<1>3. ASSUME NEW p \in Producers, AddPush(p) PROVE TasksConserved'
    <2> DEFINE t == task[p]
    <2>1. t \in Tasks /\ Owns(p) /\ ~ Owns(p)'
        BY <1>3 DEF AddPush, Owns
    <2>2. \A q \in Threads \ {p} : (Owns(q)' <=> Owns(q)) /\ task'[q] = task[q]
        BY <1>3 DEF AddPush, Owns
    <2>3. InHand' = InHand \ {t}
        <3>1. \A q, r \in Threads : Owns(q) /\ Owns(r) /\ task[q] = task[r] => q = r
            BY DEF TasksConserved
        <3> QED
            BY <2>1, <2>2, <3>1, InHandLoss
    <2>4. /\ Len(queue') = Len(queue) + 1
          /\ \A i \in 1 .. Len(queue) : queue'[i] = queue[i]
          /\ queue'[Len(queue) + 1] = t
          /\ Len(queue) \in Nat
          /\ DOMAIN queue = 1 .. Len(queue)
          /\ DOMAIN queue' = 1 .. Len(queue) + 1
        <3>1. queue' = Append(queue, t) /\ queue' \in Seq(Tasks)
            BY <1>3, <2>1, AppendProperties DEF AddPush
        <3> QED
            BY <2>1, <3>1, AppendProperties, LenProperties
    <2>5. Queued' = Queued \cup {t}
        BY <2>4 DEF Queued
    <2>6. t \in InHand /\ fresh' = fresh /\ deleted' = deleted
        BY <1>3, <2>1 DEF AddPush, InHand
    <2>7. \A i \in DOMAIN queue : queue[i] # t
        BY <2>6 DEF TasksConserved, Queued
    <2>8. \A i, j \in DOMAIN queue' : queue'[i] = queue'[j] => i = j
        BY <2>4, <2>7 DEF TasksConserved
    <2>9. \A q, r \in Threads : Owns(q)' /\ Owns(r)' /\ task'[q] = task'[r] => q = r
        BY <2>1, <2>2 DEF TasksConserved
    <2> QED
        BY <2>1, <2>3, <2>5, <2>6, <2>8, <2>9 DEF TasksConserved
<1>4. ASSUME NEW p \in Producers, AddUnlock(p) PROVE TasksConserved'
    BY <1>4, <1>same DEF AddUnlock, Owns
<1>5. ASSUME NEW p \in Producers, AddSignal(p) PROVE TasksConserved'
    BY <1>5, <1>same DEF AddSignal, Owns, WaitersBlocked
<1>6. ASSUME NEW w \in Workers, GetCall(w) PROVE TasksConserved'
    BY <1>6, <1>same DEF GetCall, Owns
<1>7. ASSUME NEW w \in Workers, GetLock(w) PROVE TasksConserved'
    BY <1>7, <1>same DEF GetLock, Owns
<1>8. ASSUME NEW w \in Workers, GetTest(w) PROVE TasksConserved'
    BY <1>8, <1>same DEF GetTest, Owns
<1>9. ASSUME NEW w \in Workers, GetRelock(w) PROVE TasksConserved'
    BY <1>9, <1>same DEF GetRelock, Owns
<1>10. ASSUME NEW w \in Workers, GetFront(w) PROVE TasksConserved'
    BY <1>10, <1>same DEF GetFront, Owns
<1>11. ASSUME NEW w \in Workers, GetPop(w) PROVE TasksConserved'
    <2> DEFINE t == task[w]
    <2>1. t \in Tasks /\ t = Head(queue) /\ queue # <<>> /\ queue' = Tail(queue)
        BY <1>11 DEF GetPop
    <2>2. ~ Owns(w) /\ Owns(w)' /\ task'[w] = t
        BY <1>11, <2>1 DEF GetPop, Owns
    <2>3. \A q \in Threads \ {w} : (Owns(q)' <=> Owns(q)) /\ task'[q] = task[q]
        BY <1>11 DEF GetPop, Owns
    <2>4. InHand' = InHand \cup {t}
        BY <2>1, <2>2, <2>3, InHandGain
    <2>5. /\ Len(queue) \in Nat \ {0}
          /\ DOMAIN queue = 1 .. Len(queue)
          /\ DOMAIN queue' = 1 .. Len(queue) - 1
          /\ \A i \in 1 .. Len(queue) - 1 : queue'[i] = queue[i + 1]
          /\ queue[1] = t
        <3>1. queue' \in Seq(Tasks) /\ Len(queue') = Len(queue) - 1
            BY <2>1, HeadTailProperties
        <3> QED
            BY <2>1, <3>1, HeadTailProperties, LenProperties, EmptySeq
    <2>6. t \in Queued /\ Queued' = Queued \ {t}
        <3>1. \A i, j \in DOMAIN queue : queue[i] = queue[j] => i = j
            BY DEF TasksConserved
        <3>2. t \in Queued
            BY <2>5 DEF Queued
        <3>3. \A x \in Queued' : x \in Queued \ {t}
            <4> TAKE x \in Queued'
            <4>1. PICK i \in DOMAIN queue' : x = queue'[i]
                BY DEF Queued
            <4>2. x = queue[i + 1] /\ i + 1 \in DOMAIN queue /\ i + 1 # 1 /\ 1 \in DOMAIN queue
                BY <4>1, <2>5
            <4> QED
                BY <4>2, <3>1, <2>5 DEF Queued
        <3>4. \A x \in Queued \ {t} : x \in Queued'
            <4> TAKE x \in Queued \ {t}
            <4>1. PICK i \in DOMAIN queue : x = queue[i]
                BY DEF Queued
            <4>2. i - 1 \in DOMAIN queue' /\ queue'[i - 1] = x
                BY <4>1, <2>5
            <4> QED
                BY <4>2 DEF Queued
        <3> QED
            BY <3>2, <3>3, <3>4
    <2>7. fresh' = fresh /\ deleted' = deleted
        BY <1>11 DEF GetPop
    <2>8. \A i, j \in DOMAIN queue' : queue'[i] = queue'[j] => i = j
        <3>1. \A i, j \in DOMAIN queue : queue[i] = queue[j] => i = j
            BY DEF TasksConserved
        <3>2. ASSUME NEW i \in DOMAIN queue', NEW j \in DOMAIN queue', queue'[i] = queue'[j]
              PROVE  i = j
            <4>1. i + 1 \in DOMAIN queue /\ j + 1 \in DOMAIN queue /\ queue[i + 1] = queue[j + 1]
                BY <2>5, <3>2
            <4>2. i + 1 = j + 1
                BY <3>1, <4>1
            <4> QED
                BY <2>5, <4>2
        <3> QED
            BY <3>2
    <2>9. \A q, r \in Threads : Owns(q)' /\ Owns(r)' /\ task'[q] = task'[r] => q = r
        <3>1. \A q \in Threads : Owns(q) => task[q] \in InHand
            BY DEF InHand
        <3>2. t \notin InHand
            BY <2>6 DEF TasksConserved
        <3> QED
            BY <2>2, <2>3, <3>1, <3>2 DEF TasksConserved
    <2> QED
        BY <2>4, <2>6, <2>7, <2>8, <2>9 DEF TasksConserved
<1>12. ASSUME NEW w \in Workers, GetUnlock(w) PROVE TasksConserved'
    BY <1>12, <1>same DEF GetUnlock, Owns
<1>13. ASSUME NEW w \in Workers, RunTask(w) PROVE TasksConserved'
    <2> DEFINE t == task[w]
    <2>1. t \in Tasks /\ Owns(w) /\ ~ Owns(w)' /\ t \in InHand
        BY <1>13 DEF RunTask, Owns, InHand
    <2>2. \A q \in Threads \ {w} : (Owns(q)' <=> Owns(q)) /\ task'[q] = task[q]
        BY <1>13 DEF RunTask, Owns
    <2>3. InHand' = InHand \ {t}
        <3>1. \A q, r \in Threads : Owns(q) /\ Owns(r) /\ task[q] = task[r] => q = r
            BY DEF TasksConserved
        <3> QED
            BY <2>1, <2>2, <3>1, InHandLoss
    <2>4. Queued' = Queued /\ queue' = queue /\ fresh' = fresh /\ deleted' = deleted \cup {t}
        BY <1>13 DEF RunTask, Queued
    <2> QED
        BY <2>1, <2>2, <2>3, <2>4 DEF TasksConserved
<1>14. ASSUME NEW w \in Workers, SpuriousWakeup(w) PROVE TasksConserved'
    BY <1>14, <1>same DEF SpuriousWakeup, Owns
<1>15. CASE UNCHANGED vars
    BY <1>15, <1>same DEF vars, Owns
<1> QED
    BY <1>1, <1>2, <1>3, <1>4, <1>5, <1>6, <1>7, <1>8, <1>9, <1>10, <1>11,
       <1>12, <1>13, <1>14, <1>15 DEF Next, Add, Get

(* Every object handed to _add_task is, until it is deleted, in exactly    *)
(* one place: no task is lost, run twice or deleted twice (task_mgr.cpp    *)
(* 58-80, thread.h 42-47).                                                 *)
THEOREM TasksConservedCorrect == Spec => []TasksConserved
<1>1. Init => ConservedInv
    BY TypeInvInit, LockInvInit, FrontInvInit, ConservedInvInit
       DEF ConservedInv, FrontInv, LockInv
<1>2. ConservedInv /\ [Next]_vars => ConservedInv'
    BY TypeInvNext, LockInvNext, FrontInvNext, ConservedInvNext
       DEF ConservedInv, FrontInv, LockInv
<1>3. ConservedInv => TasksConserved
    BY DEF ConservedInv
<1> QED
    BY <1>1, <1>2, <1>3, PTL DEF Spec

-----------------------------------------------------------------------------
(* Refinement: AddPush is the atomic Add, GetPop the atomic Take, RunTask  *)
(* the atomic Finish; every other step is invisible to the queue's users.  *)

LEMMA RefinementInit == Init => Queue!Init
BY DEF Init, Queue!Init, Threads

LEMMA RefinementNext == ConservedInv /\ [Next]_vars => [Queue!Next]_Queue!vars
<1> SUFFICES ASSUME ConservedInv, [Next]_vars PROVE [Queue!Next]_Queue!vars
    OBVIOUS
<1> DEFINE taken == {"get_unlock", "run"}
           held == [w \in Workers |-> IF pc[w] \in taken THEN task[w] ELSE NoTask]
<1> USE DEF ConservedInv, FrontInv, LockInv, TypeInv, TypeOK, TaskHeld, PopFindsFront,
            Threads, ProducerPC, WorkerPC, Goto
<1>same. ASSUME queue' = queue,
                \A w \in Workers : IF pc[w] \in taken THEN pc'[w] \in taken /\ task'[w] = task[w]
                                                      ELSE pc'[w] \notin taken
         PROVE  UNCHANGED Queue!vars
    BY <1>same DEF Queue!vars
<1>1. ASSUME NEW p \in Producers, NEW t \in Tasks, AddCall(p, t) PROVE UNCHANGED Queue!vars
    BY <1>1, <1>same DEF AddCall
<1>2. ASSUME NEW p \in Producers, AddLock(p) PROVE UNCHANGED Queue!vars
    BY <1>2, <1>same DEF AddLock
<1>3. ASSUME NEW p \in Producers, AddPush(p) PROVE Queue!Next
    <2>1. task[p] \in Tasks /\ task[p] # NoTask /\ Owns(p)
        BY <1>3 DEF AddPush, Owns
    <2>2. task[p] \in InHand
        BY <2>1 DEF InHand
    <2>3. task[p] \notin Queue!Range(queue)
        BY <2>2 DEF TasksConserved, Queued, Queue!Range
    <2>4. \A w \in Workers : held[w] # task[p]
        BY <2>1 DEF TasksConserved, Owns
    <2>5. held' = held
        BY <1>3 DEF AddPush
    <2>6. queue' = Append(queue, task[p])
        BY <1>3 DEF AddPush
    <2>7. Queue!Add(task[p])
        BY <2>3, <2>4, <2>5, <2>6 DEF Queue!Add
    <2> QED
        BY <2>1, <2>7 DEF Queue!Next
<1>4. ASSUME NEW p \in Producers, AddUnlock(p) PROVE UNCHANGED Queue!vars
    BY <1>4, <1>same DEF AddUnlock
<1>5. ASSUME NEW p \in Producers, AddSignal(p) PROVE UNCHANGED Queue!vars
    BY <1>5, <1>same DEF AddSignal, WaitersBlocked
<1>6. ASSUME NEW w \in Workers, GetCall(w) PROVE UNCHANGED Queue!vars
    BY <1>6, <1>same DEF GetCall
<1>7. ASSUME NEW w \in Workers, GetLock(w) PROVE UNCHANGED Queue!vars
    BY <1>7, <1>same DEF GetLock
<1>8. ASSUME NEW w \in Workers, GetTest(w) PROVE UNCHANGED Queue!vars
    BY <1>8, <1>same DEF GetTest
<1>9. ASSUME NEW w \in Workers, GetRelock(w) PROVE UNCHANGED Queue!vars
    BY <1>9, <1>same DEF GetRelock
<1>10. ASSUME NEW w \in Workers, GetFront(w) PROVE UNCHANGED Queue!vars
    BY <1>10, <1>same DEF GetFront
<1>11. ASSUME NEW w \in Workers, GetPop(w) PROVE Queue!Next
    <2>1. held[w] = NoTask /\ queue # <<>> /\ queue' = Tail(queue)
        BY <1>11 DEF GetPop
    <2>2. held' = [held EXCEPT ![w] = Head(queue)]
        BY <1>11 DEF GetPop
    <2>3. Queue!Take(w)
        BY <2>1, <2>2 DEF Queue!Take
    <2> QED
        BY <2>3 DEF Queue!Next
<1>12. ASSUME NEW w \in Workers, GetUnlock(w) PROVE UNCHANGED Queue!vars
    BY <1>12, <1>same DEF GetUnlock
<1>13. ASSUME NEW w \in Workers, RunTask(w) PROVE Queue!Next
    <2>1. held[w] # NoTask /\ queue' = queue
        BY <1>13 DEF RunTask
    <2>2. held' = [held EXCEPT ![w] = NoTask]
        BY <1>13 DEF RunTask
    <2>3. Queue!Finish(w)
        BY <2>1, <2>2 DEF Queue!Finish
    <2> QED
        BY <2>3 DEF Queue!Next
<1>14. ASSUME NEW w \in Workers, SpuriousWakeup(w) PROVE UNCHANGED Queue!vars
    BY <1>14, <1>same DEF SpuriousWakeup
<1>15. CASE UNCHANGED vars
    BY <1>15, <1>same DEF vars
<1> QED
    BY <1>1, <1>2, <1>3, <1>4, <1>5, <1>6, <1>7, <1>8, <1>9, <1>10, <1>11,
       <1>12, <1>13, <1>14, <1>15 DEF Next, Add, Get

(* _add_task and _get_task, with the mutex and the condition variable,     *)
(* are the atomic operations of a first-in first-out queue (task_mgr.cpp   *)
(* 58-80).                                                                 *)
THEOREM RefinesTaskQueue == Spec => Queue!SafeSpec
<1>1. Init => ConservedInv
    BY TypeInvInit, LockInvInit, FrontInvInit, ConservedInvInit
       DEF ConservedInv, FrontInv, LockInv
<1>2. ConservedInv /\ [Next]_vars => ConservedInv'
    BY TypeInvNext, LockInvNext, FrontInvNext, ConservedInvNext
       DEF ConservedInv, FrontInv, LockInv
<1>3. Init => Queue!Init
    BY RefinementInit
<1>4. ConservedInv /\ [Next]_vars => [Queue!Next]_Queue!vars
    BY RefinementNext
<1> QED
    BY <1>1, <1>2, <1>3, <1>4, PTL DEF Spec, Queue!SafeSpec
=============================================================================
