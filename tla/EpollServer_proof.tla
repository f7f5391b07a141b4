------------------------- MODULE EpollServer_proof -------------------------
(***************************************************************************)
(* Proofs about EpollServer, for any sets of connections, descriptors and  *)
(* workers, any number of segments and whatever the clients do; the last   *)
(* section is about clients that wait for their answers.                   *)
(***************************************************************************)
EXTENDS EpollServer, SequenceTheorems, TLAPS

(* The epoll set knows open descriptors only, an environment is registered *)
(* under its own descriptor, and a batch has one event per descriptor.     *)
EpollSetSound ==
    /\ \A f \in Fds : mode[f] = "none" <=> fdtab[f] = NoConn
    /\ \A f \in edge : mode[f] = "in"
    /\ \A f \in Fds : env[f] # NoEnv => env[f].fd = f
    /\ \A ev \in batch : ev.env # NoEnv => ev.env.fd = ev.fd
    /\ \A ev1, ev2 \in batch : ev1.fd = ev2.fd => ev1 = ev2

Inv == TypeOK /\ EpollSetSound /\ BatchIsCurrent

USE EpollAssumption, NullAssumption
    DEF AfterAccept, Unread, AtEnd, SendOnce, BackToRead, TaskFd, HandBack

LEMMA InvInit == Init => Inv
<1> SUFFICES ASSUME Init PROVE Inv
    OBVIOUS
<1>1. queue = <<>> /\ held = [w \in Workers |-> NoTask]
    BY DEF Init, TaskQ!Init
<1>2. TypeOK
    <2>1. queue \in Seq(Task) /\ held \in [Workers -> Task \cup {NoTask}] /\ backlog \in Seq(Conns)
        BY <1>1 DEF Init
    <2>2. /\ rx \in [Conns -> Seq(1 .. MaxSegments)]
          /\ sent \in [Conns -> 0 .. MaxSegments]
          /\ got \in [Conns -> SUBSET Env]
        BY DEF Init
    <2>3. /\ env \in [Fds -> Env \cup {NoEnv}]
          /\ fdtab \in [Fds -> Conns \cup {NoConn}]
        BY DEF Init
    <2> QED
        BY <2>1, <2>2, <2>3 DEF Init, TypeOK
<1>3. EpollSetSound /\ BatchIsCurrent
    BY DEF Init, EpollSetSound, BatchIsCurrent
<1> QED
    BY <1>2, <1>3 DEF Inv

(* What the clients do changes no descriptor and no registration.          *)
LEMMA ClientNext ==
    ASSUME Inv, NEW c \in Conns, Connect(c) \/ Send(c) \/ Leave(c)
    PROVE  Inv'
<1> USE DEF Inv, TypeOK
<1>1. CASE Connect(c)
    <2>1. backlog' \in Seq(Conns)
        BY <1>1, AppendProperties DEF Connect
    <2>2. TypeOK'
        BY <1>1, <2>1 DEF Connect, clientVars, batchVars
    <2> QED
        BY <1>1, <2>2 DEF Connect, batchVars, EpollSetSound, BatchIsCurrent
<1>2. CASE Send(c)
    <2>1. sent[c] + 1 \in 1 .. MaxSegments
        BY <1>2 DEF Send
    <2>2. sent' = [sent EXCEPT ![c] = sent[c] + 1] /\ sent' \in [Conns -> 0 .. MaxSegments]
        BY <1>2, <2>1 DEF Send
    <2>3. rx' = [rx EXCEPT ![c] = Append(rx[c], sent[c] + 1)]
        BY <1>2, <2>2 DEF Send
    <2>4. Append(rx[c], sent[c] + 1) \in Seq(1 .. MaxSegments)
        BY <2>1, AppendProperties
    <2>5. rx' \in [Conns -> Seq(1 .. MaxSegments)]
        BY <2>3, <2>4
    <2>6. edge' = edge \cup {f \in FdOf(c) : mode[f] = "in"}
        BY <1>2 DEF Send, Arrival
    <2>7. TypeOK'
        BY <1>2, <2>2, <2>5, <2>6 DEF Send, batchVars, FdOf
    <2> QED
        BY <1>2, <2>6, <2>7 DEF Send, batchVars, EpollSetSound, BatchIsCurrent, FdOf
<1>3. CASE Leave(c)
    <2>1. edge' = edge \cup {f \in FdOf(c) : mode[f] = "in"}
        BY <1>3 DEF Leave, Arrival
    <2>2. TypeOK'
        BY <1>3, <2>1 DEF Leave, batchVars, FdOf
    <2> QED
        BY <1>3, <2>1, <2>2 DEF Leave, batchVars, EpollSetSound, BatchIsCurrent, FdOf
<1> QED
    BY <1>1, <1>2, <1>3

LEMMA EpollWaitNext ==
    ASSUME Inv, EpollWait
    PROVE  Inv'
<1> DEFINE Ev(f) == [fd |-> f, conn |-> fdtab[f], env |-> env[f]]
<1>1. /\ fdtab \in [Fds -> Conns \cup {NoConn}]
      /\ env \in [Fds -> Env \cup {NoEnv}]
      /\ edge \subseteq Fds
    BY DEF Inv, TypeOK
<1>2. /\ \A f \in Fds : mode[f] = "none" <=> fdtab[f] = NoConn
      /\ \A f \in edge : mode[f] = "in"
      /\ \A f \in Fds : env[f] # NoEnv => env[f].fd = f
    BY DEF Inv, EpollSetSound
<1>3. ASSUME NEW f \in Ready
      PROVE  f \in Fds /\ fdtab[f] \in Conns
    <2>1. f \in Fds /\ mode[f] # "none"
        BY <1>1, <1>2 DEF Ready
    <2> QED
        BY <1>1, <1>2, <2>1
<1>4. batch' = {Ev(f) : f \in Ready}
    BY DEF EpollWait
<1>5. ASSUME NEW ev \in batch'
      PROVE  /\ ev \in Event
             /\ fdtab[ev.fd] = ev.conn
             /\ ev = Ev(ev.fd)
             /\ ev.env # NoEnv => ev.env.fd = ev.fd
    <2>1. PICK f \in Ready : ev = Ev(f)
        BY <1>4
    <2>2. f \in Fds /\ fdtab[f] \in Conns /\ env[f] \in Env \cup {NoEnv}
        BY <1>1, <1>3
    <2>3. Ev(f) \in Event
        BY <2>2 DEF Event
    <2>4. ev.fd = f /\ ev.conn = fdtab[f] /\ ev.env = env[f]
        BY <2>1
    <2> QED
        BY <1>2, <2>1, <2>2, <2>3, <2>4
<1>6. batch' \subseteq Event
    BY <1>5
<1>7. TypeOK'
    BY <1>6 DEF Inv, TypeOK, EpollWait, clientVars, socketVars
<1>8. BatchIsCurrent'
    BY <1>5 DEF EpollWait, BatchIsCurrent
<1>9. EpollSetSound'
    <2>1. \A ev1, ev2 \in batch' : ev1.fd = ev2.fd => ev1 = ev2
        BY <1>5
    <2> QED
        BY <1>2, <1>5, <2>1 DEF EpollWait, EpollSetSound
<1> QED
    BY <1>7, <1>8, <1>9 DEF Inv

LEMMA OnAcceptNext ==
    ASSUME Inv, OnAccept \/ OnAcceptEnd
    PROVE  Inv'
<1> USE DEF Inv, TypeOK
<1>1. CASE OnAccept
    <2>1. PICK f \in Fds :
            /\ fdtab[f] = NoConn
            /\ fdtab' = [fdtab EXCEPT ![f] = Head(backlog)]
            /\ ArmRead(f, Head(backlog))
        BY <1>1 DEF OnAccept
    <2>2. Head(backlog) \in Conns /\ backlog' \in Seq(Conns)
        BY <1>1, HeadTailProperties DEF OnAccept
    <2>3. /\ mode' = [mode EXCEPT ![f] = "in"]
          /\ env' = [env EXCEPT ![f] = NoEnv]
          /\ edge' = edge \cup {f} \/ edge' = edge \ {f}
        BY <2>1 DEF ArmRead
    <2>4. TypeOK'
        BY <1>1, <2>1, <2>2, <2>3 DEF OnAccept, clientVars
    <2>5. \A ev \in batch : ev.fd # f
        BY <2>1 DEF BatchIsCurrent, Event
    <2>6. BatchIsCurrent'
        BY <1>1, <2>1, <2>5 DEF OnAccept, BatchIsCurrent, Event
    <2>7. EpollSetSound'
        <3>1. batch' = batch /\ Head(backlog) # NoConn
            BY <1>1, <2>2 DEF OnAccept
        <3>2. \A g \in Fds : mode'[g] = "none" <=> fdtab'[g] = NoConn
            BY <2>1, <2>3, <3>1 DEF EpollSetSound
        <3>3. \A g \in edge' : mode'[g] = "in"
            <4>1. edge' \subseteq edge \cup {f} /\ edge \subseteq Fds
                BY <2>3
            <4>2. \A g \in edge : mode[g] = "in"
                BY DEF EpollSetSound
            <4>3. \A g \in Fds : mode'[g] = IF g = f THEN "in" ELSE mode[g]
                BY <2>3
            <4> HIDE DEF Inv, TypeOK
            <4> QED
                BY <4>1, <4>2, <4>3
        <3>4. \A g \in Fds : env'[g] # NoEnv => env'[g].fd = g
            BY <2>3 DEF EpollSetSound
        <3> QED
            BY <3>1, <3>2, <3>3, <3>4 DEF EpollSetSound
    <2> QED
        BY <2>4, <2>6, <2>7
<1>2. CASE OnAcceptEnd
    BY <1>2 DEF OnAcceptEnd, clientVars, socketVars, epollVars, EpollSetSound, BatchIsCurrent
<1> QED
    BY <1>1, <1>2

LEMMA OnHttpReadNext ==
    ASSUME Inv, NEW ev \in batch, OnHttpRead(ev)
    PROVE  Inv'
<1> USE DEF Inv, TypeOK
<1> DEFINE f == ev.fd
           c == fdtab[f]
<1>1. f \in Fds /\ c \in Conns
    BY DEF BatchIsCurrent, Event
<1>2. batch' = batch \ {ev} /\ \A ev2 \in batch' : ev2.fd # f
    BY DEF OnHttpRead, EpollSetSound
<1>3. rx' \in [Conns -> Seq(1 .. MaxSegments)] /\ eof' \in [Conns -> {"open", "fin", "err", "hup"}]
    BY <1>1 DEF OnHttpRead, ReportError
<1>4. CASE Close(f) /\ UNCHANGED <<queue, held>>
    <2>1. TypeOK'
        BY <1>1, <1>2, <1>3, <1>4 DEF OnHttpRead, Close, clientVars
    <2>2. BatchIsCurrent'
        BY <1>1, <1>2, <1>4 DEF Close, BatchIsCurrent, Event
    <2>3. EpollSetSound'
        BY <1>1, <1>2, <1>4 DEF Close, EpollSetSound
    <2> QED
        BY <2>1, <2>2, <2>3
<1>5. CASE /\ UNCHANGED <<fdtab, mode, env, edge>>
           /\ IF rx[c] # <<>>
              THEN TaskQ!Add([fd |-> f, conn |-> c, data |-> rx[c]])
              ELSE UNCHANGED <<queue, held>>
    <2>1. queue' \in Seq(Task) /\ held' = held
        <3>1. CASE rx[c] # <<>>
            <4>1. [fd |-> f, conn |-> c, data |-> rx[c]] \in Task
                BY <1>1, <3>1 DEF Task
            <4>2. queue' = Append(queue, [fd |-> f, conn |-> c, data |-> rx[c]]) /\ held' = held
                BY <1>5, <3>1 DEF TaskQ!Add
            <4>3. queue \in Seq(Task)
                OBVIOUS
            <4> HIDE DEF c, f, Task, Inv, TypeOK
            <4> QED
                BY <4>1, <4>2, <4>3, AppendProperties
        <3>2. CASE rx[c] = <<>>
            BY <1>5, <3>2
        <3> QED
            BY <3>1, <3>2
    <2>2. TypeOK'
        BY <1>1, <1>2, <1>3, <1>5, <2>1 DEF OnHttpRead, clientVars
    <2> QED
        BY <1>2, <1>5, <2>2 DEF EpollSetSound, BatchIsCurrent
<1> QED
    BY <1>4, <1>5 DEF OnHttpRead

LEMMA OnWriteNext ==
    ASSUME Inv, NEW ev \in batch, OnWrite(ev)
    PROVE  Inv'
<1> USE DEF Inv, TypeOK
<1> DEFINE out == ev.env
           f == ev.fd
           c == fdtab[out.fd]
<1>1. out \in Env /\ out.fd = f /\ f \in Fds /\ c \in Conns
    BY DEF OnWrite, EpollSetSound, BatchIsCurrent, Event
<1>2. batch' = batch \ {ev} /\ fdtab' = fdtab
    BY DEF OnWrite
<1>3. /\ mode' = [mode EXCEPT ![f] = "in"]
      /\ env' = [env EXCEPT ![f] = NoEnv]
      /\ edge' = edge \cup {f} \/ edge' = edge \ {f}
    BY <1>1 DEF OnWrite, ArmRead
<1>4. got' \in [Conns -> SUBSET Env] /\ eof' \in [Conns -> {"open", "fin", "err", "hup"}]
    <2>1. got[c] \cup {out} \in SUBSET Env
        BY <1>1
    <2>2. got' = [got EXCEPT ![c] = got[c] \cup {out}] \/ got' = got
        BY <1>1 DEF OnWrite
    <2>3. got' \in [Conns -> SUBSET Env]
        <3>1. got \in [Conns -> SUBSET Env]
            OBVIOUS
        <3> HIDE DEF Inv, TypeOK, c, out
        <3> QED
            BY <2>1, <2>2, <3>1
    <2>4. eof' \in [Conns -> {"open", "fin", "err", "hup"}]
        BY <1>1 DEF OnWrite, ReportError
    <2> QED
        BY <2>3, <2>4
<1>5. TypeOK'
    BY <1>1, <1>2, <1>3, <1>4 DEF OnWrite
<1>6. BatchIsCurrent'
    BY <1>2 DEF BatchIsCurrent
<1>7. EpollSetSound'
    <2>1. /\ mode \in [Fds -> {"none", "in", "out"}]
          /\ env \in [Fds -> Env \cup {NoEnv}]
          /\ edge \subseteq Fds
        OBVIOUS
    <2> HIDE DEF Inv, TypeOK, out, f, c
    <2>2. \A g \in Fds : mode'[g] = "none" <=> fdtab'[g] = NoConn
        <3>1. fdtab[f] # NoConn
            BY <1>1 DEF c
        <3> QED
            BY <1>1, <1>2, <1>3, <2>1, <3>1 DEF Inv, EpollSetSound
    <2>3. \A g \in edge' : mode'[g] = "in"
        <3>1. mode'[f] = "in" /\ \A g \in Fds : g # f => mode'[g] = mode[g]
            BY <1>1, <1>3, <2>1
        <3>2. \A g \in edge' : g \in Fds /\ (g = f \/ g \in edge)
            BY <1>1, <1>3, <2>1
        <3>3. \A g \in edge : mode[g] = "in"
            BY DEF Inv, EpollSetSound
        <3> QED
            BY <3>1, <3>2, <3>3
    <2>4. \A g \in Fds : env'[g] # NoEnv => env'[g].fd = g
        <3>1. env'[f] = NoEnv /\ \A g \in Fds : g # f => env'[g] = env[g]
            BY <1>1, <1>3, <2>1
        <3>2. \A g \in Fds : env[g] # NoEnv => env[g].fd = g
            BY DEF Inv, EpollSetSound
        <3> QED
            BY <3>1, <3>2
    <2>5. \A ev1, ev2 \in batch' : ev1.fd = ev2.fd => ev1 = ev2
        BY <1>2 DEF Inv, EpollSetSound
    <2>6. \A ev1 \in batch' : ev1.env # NoEnv => ev1.env.fd = ev1.fd
        BY <1>2 DEF Inv, EpollSetSound
    <2> QED
        BY <2>2, <2>3, <2>4, <2>5, <2>6 DEF EpollSetSound
<1> QED
    BY <1>5, <1>6, <1>7

LEMMA WorkerNext ==
    ASSUME Inv, NEW w \in Workers, Worker(w)
    PROVE  Inv'
<1> USE DEF Inv, TypeOK
<1>1. CASE GetTask(w)
    <2>1. queue \in Seq(Task) /\ queue # <<>> /\ held \in [Workers -> Task \cup {NoTask}]
        BY <1>1 DEF GetTask, TaskQ!Take
    <2>2. queue' = Tail(queue) /\ held' = [held EXCEPT ![w] = Head(queue)]
        BY <1>1 DEF GetTask, TaskQ!Take
    <2>3. held' \in [Workers -> Task \cup {NoTask}] /\ queue' \in Seq(Task)
        <3> HIDE DEF Inv, TypeOK
        <3> QED
            BY <2>1, <2>2, HeadTailProperties
    <2> QED
        BY <1>1, <2>3 DEF GetTask, clientVars, socketVars, epollVars, batchVars,
                          EpollSetSound, BatchIsCurrent
<1>2. CASE RunTask(w)
    <2> DEFINE f == held[w].fd
               e == [fd |-> f, conn |-> held[w].conn, n |-> Head(held[w].data)]
    <2>1. held[w] \in Task
        BY <1>2 DEF RunTask
    <2>2. Head(held[w].data) \in 1 .. MaxSegments
        BY <2>1, HeadTailProperties DEF Task
    <2>3. f \in Fds /\ e \in Env /\ e.fd = f
        BY <2>1, <2>2 DEF Task, Env
    <2>4. held' \in [Workers -> Task \cup {NoTask}] /\ queue' = queue
        BY <1>2 DEF RunTask, TaskQ!Finish
    <2>5. ArmWrite(f, e)
        BY <1>2 DEF RunTask
    <2>6. CASE fdtab[f] = NoConn
        <3>1. UNCHANGED <<mode, env, edge>>
            BY <2>5, <2>6 DEF ArmWrite
        <3>2. TypeOK'
            BY <1>2, <2>4, <3>1 DEF RunTask, clientVars, socketVars, batchVars
        <3> QED
            BY <1>2, <3>1, <3>2 DEF RunTask, batchVars, EpollSetSound, BatchIsCurrent
    <2>7. CASE fdtab[f] # NoConn
        <3>1. /\ mode' = [mode EXCEPT ![f] = "out"]
              /\ env' = [env EXCEPT ![f] = e]
              /\ edge' = edge \ {f}
            BY <2>5, <2>7 DEF ArmWrite
        <3>2. TypeOK'
            BY <1>2, <2>3, <2>4, <3>1 DEF RunTask, clientVars, socketVars, batchVars
        <3>3. EpollSetSound'
            BY <1>2, <2>3, <2>7, <3>1 DEF RunTask, batchVars, EpollSetSound
        <3>4. BatchIsCurrent'
            BY <1>2 DEF RunTask, batchVars, BatchIsCurrent
        <3> QED
            BY <3>2, <3>3, <3>4
    <2> QED
        BY <2>6, <2>7
<1> QED
    BY <1>1, <1>2 DEF Worker

LEMMA InvNext == Inv /\ [Next]_vars => Inv'
<1> SUFFICES ASSUME Inv, [Next]_vars PROVE Inv'
    OBVIOUS
<1>1. CASE UNCHANGED vars
    BY <1>1 DEF vars, Inv, TypeOK, EpollSetSound, BatchIsCurrent
<1> QED
    BY <1>1, ClientNext, EpollWaitNext, OnAcceptNext, OnHttpReadNext, OnWriteNext, WorkerNext
       DEF Next, Main

(* No handler of the event loop gets an event of a descriptor that was     *)
(* closed or given to another client since epoll_wait reported it          *)
(* (epoll.cpp 34-47, server.cpp 84-93).                                    *)
THEOREM BatchIsCurrentCorrect == Spec => []BatchIsCurrent
<1>1. Inv => BatchIsCurrent
    BY DEF Inv
<1> QED
    BY InvInit, InvNext, <1>1, PTL DEF Spec

(* The state stays in its types whatever the clients do; in particular a   *)
(* task has data, so there is a request to parse (server.cpp 136-145).     *)
THEOREM TypeCorrect == Spec => []TypeOK
<1>1. Inv => TypeOK
    BY DEF Inv
<1> QED
    BY InvInit, InvNext, <1>1, PTL DEF Spec

-----------------------------------------------------------------------------
(* The edges.                                                              *)

(* A descriptor has an environment exactly while it waits for output.      *)
EnvOfMode == \A f \in Fds : env[f] # NoEnv <=> mode[f] = "out"

EdgeInv == Inv /\ EnvOfMode /\ InputIsReported /\ BacklogIsReported

(* There is input for a descriptor that waits for it; its event is in the  *)
(* batch.                                                                  *)
Input(f) == mode[f] = "in" /\ (rx[fdtab[f]] # <<>> \/ eof[fdtab[f]] \in {"fin", "err"})
InBatch(f) == \E ev \in batch : ev.fd = f /\ ev.env = NoEnv

LEMMA EdgeInit == Init => EdgeInv
<1> SUFFICES ASSUME Init PROVE EdgeInv
    OBVIOUS
<1>1. EnvOfMode /\ InputIsReported /\ BacklogIsReported
    BY DEF Init, EnvOfMode, InputIsReported, BacklogIsReported
<1> QED
    BY <1>1, InvInit DEF EdgeInv

(* What arrives for a descriptor that waits for input makes an edge.       *)
LEMMA ClientEdge ==
    ASSUME EdgeInv, NEW c \in Conns, Connect(c) \/ Send(c) \/ Leave(c)
    PROVE  EnvOfMode' /\ InputIsReported' /\ BacklogIsReported'
<1> USE DEF EdgeInv, Inv, TypeOK
<1>1. UNCHANGED <<fdtab, mode, env, batch, accepting, emfile>>
    BY DEF Connect, Send, Leave, batchVars
<1>2. EnvOfMode'
    BY <1>1 DEF EnvOfMode
<1>3. BacklogIsReported'
    BY <1>1 DEF Connect, Send, Leave, BacklogIsReported
<1>4. ASSUME NEW f \in Fds, Input(f)'
      PROVE  f \in edge' \/ InBatch(f)'
    <2>1. mode[f] = "in" /\ fdtab[f] \in Conns
        BY <1>1, <1>4 DEF Input, EpollSetSound
    <2>2. CASE Input(f)
        BY <1>1, <2>2 DEF Connect, Send, Leave, Arrival, Input, InBatch, InputIsReported
    <2>3. CASE ~Input(f)
        <3>1. fdtab[f] = c /\ (Send(c) \/ Leave(c))
            BY <1>1, <1>4, <2>1, <2>3 DEF Connect, Send, Leave, Input
        <3> QED
            BY <2>1, <3>1 DEF Send, Leave, Arrival, FdOf
    <2> QED
        BY <2>2, <2>3
<1> QED
    BY <1>2, <1>3, <1>4 DEF InputIsReported, Input, InBatch

(* epoll_wait turns every edge into an event of the batch.                 *)
LEMMA WaitEdge ==
    ASSUME EdgeInv, EpollWait
    PROVE  EnvOfMode' /\ InputIsReported' /\ BacklogIsReported'
<1> DEFINE Ev(f) == [fd |-> f, conn |-> fdtab[f], env |-> env[f]]
<1>1. batch = {} /\ batch' = {Ev(f) : f \in Ready} /\ UNCHANGED <<rx, eof, backlog, fdtab, mode, env, emfile>>
    BY DEF EpollWait, socketVars
<1>2. EnvOfMode'
    BY <1>1 DEF EdgeInv, EnvOfMode
<1>3. BacklogIsReported'
    BY DEF EpollWait, EdgeInv, BacklogIsReported, socketVars
<1>4. ASSUME NEW f \in Fds, Input(f)'
      PROVE  InBatch(f)'
    <2>1. mode[f] = "in" /\ f \in edge
        BY <1>1, <1>4 DEF Input, EdgeInv, InputIsReported
    <2>2. Ev(f) \in batch' /\ Ev(f).fd = f /\ Ev(f).env = NoEnv
        BY <1>1, <2>1 DEF Ready, EdgeInv, EnvOfMode
    <2> HIDE DEF Ev
    <2> QED
        BY <2>2 DEF InBatch
<1> QED
    BY <1>2, <1>3, <1>4 DEF InputIsReported, Input, InBatch

(* Adding a descriptor to the epoll set looks at what is already there.    *)
LEMMA AcceptEdge ==
    ASSUME EdgeInv, OnAccept \/ OnAcceptEnd
    PROVE  EnvOfMode' /\ InputIsReported' /\ BacklogIsReported'
<1> USE DEF EdgeInv, Inv, TypeOK
<1>1. CASE OnAccept
    <2>1. PICK f \in Fds :
            /\ fdtab[f] = NoConn
            /\ fdtab' = [fdtab EXCEPT ![f] = Head(backlog)]
            /\ ArmRead(f, Head(backlog))
        BY <1>1 DEF OnAccept
    <2>2. UNCHANGED <<rx, eof, batch>>
        BY <1>1 DEF OnAccept
    <2>3. EnvOfMode'
        BY <2>1 DEF ArmRead, EnvOfMode
    <2>4. BacklogIsReported'
        BY <1>1 DEF OnAccept, BacklogIsReported
    <2>5. ASSUME NEW g \in Fds, Input(g)' PROVE g \in edge' \/ InBatch(g)'
        BY <2>1, <2>2, <2>5 DEF Input, InBatch, InputIsReported, ArmRead, Readable
    <2> QED
        BY <2>3, <2>4, <2>5 DEF InputIsReported, Input, InBatch
<1>2. CASE OnAcceptEnd
    <2>1. UNCHANGED <<rx, eof, backlog, fdtab, mode, env, edge, svr_edge, batch>>
        BY <1>2 DEF OnAcceptEnd, socketVars, epollVars
    <2>2. emfile' = (backlog # <<>>)
        BY <1>2 DEF OnAcceptEnd
    <2> HIDE DEF EdgeInv, Inv, TypeOK
    <2>3. EnvOfMode'
        BY <2>1 DEF EdgeInv, EnvOfMode
    <2>4. InputIsReported'
        BY <2>1 DEF EdgeInv, InputIsReported
    <2>5. BacklogIsReported'
        BY <2>1, <2>2 DEF BacklogIsReported
    <2> QED
        BY <2>3, <2>4, <2>5
<1> QED
    BY <1>1, <1>2

(* The handler that takes an event off the batch reads all there is.       *)
LEMMA ReadEdge ==
    ASSUME EdgeInv, NEW ev \in batch, OnHttpRead(ev)
    PROVE  EnvOfMode' /\ InputIsReported' /\ BacklogIsReported'
<1> USE DEF EdgeInv, Inv, TypeOK
<1> DEFINE f == ev.fd
           c == fdtab[f]
<1>1. f \in Fds /\ c \in Conns
    BY DEF BatchIsCurrent, Event
<1>2. /\ batch' = batch \ {ev}
      /\ rx' = [rx EXCEPT ![c] = <<>>]
      /\ eof' = [eof EXCEPT ![c] = IF eof[c] = "err" THEN "hup" ELSE eof[c]]
      /\ UNCHANGED <<backlog, svr_edge, accepting, emfile>>
    BY DEF OnHttpRead, ReportError
<1>3. \/ Close(f)
      \/ eof[c] \notin {"fin", "hup"} /\ UNCHANGED <<fdtab, mode, env, edge>>
    BY DEF OnHttpRead
<1>4. EnvOfMode'
    BY <1>1, <1>3 DEF Close, EnvOfMode
<1>5. BacklogIsReported'
    BY <1>2 DEF BacklogIsReported
<1>6. ASSUME NEW g \in Fds, Input(g)' PROVE g \in edge' \/ InBatch(g)'
    <2>1. mode'[g] = "in" /\ (rx'[fdtab'[g]] # <<>> \/ eof'[fdtab'[g]] \in {"fin", "err"})
        BY <1>6 DEF Input
    <2>2. g # f
        BY <1>1, <1>2, <1>3, <2>1 DEF Close
    <2>3. mode[g] = "in" /\ fdtab'[g] = fdtab[g] /\ (g \in edge' <=> g \in edge)
        BY <1>1, <1>3, <2>1, <2>2 DEF Close
    <2>4. fdtab[g] \in Conns
        BY <2>3 DEF EpollSetSound
    <2>5. Input(g)
        BY <1>1, <1>2, <2>1, <2>3, <2>4 DEF Input
    <2> QED
        BY <1>2, <2>2, <2>3, <2>5 DEF Input, InBatch, InputIsReported
<1> QED
    BY <1>4, <1>5, <1>6 DEF InputIsReported, Input, InBatch

(* Going back to reading looks at what arrived in the meantime.            *)
LEMMA WriteEdge ==
    ASSUME EdgeInv, NEW ev \in batch, OnWrite(ev)
    PROVE  EnvOfMode' /\ InputIsReported' /\ BacklogIsReported'
<1> USE DEF EdgeInv, Inv, TypeOK
<1> DEFINE f == ev.fd
           c == fdtab[f]
<1>1. ev.env # NoEnv /\ ev.env.fd = f /\ f \in Fds /\ c \in Conns
    BY DEF OnWrite, EpollSetSound, BatchIsCurrent, Event
<1>2. /\ batch' = batch \ {ev}
      /\ ArmRead(f, c)
      /\ eof' = [eof EXCEPT ![c] = IF eof[c] = "err" THEN "hup" ELSE eof[c]]
      /\ UNCHANGED <<rx, backlog, fdtab, svr_edge, accepting, emfile>>
    BY <1>1 DEF OnWrite, ReportError
<1>3. EnvOfMode'
    BY <1>1, <1>2 DEF ArmRead, EnvOfMode
<1>4. BacklogIsReported'
    BY <1>2 DEF BacklogIsReported
<1>5. ASSUME NEW g \in Fds, Input(g)' PROVE g \in edge' \/ InBatch(g)'
    <2>1. mode'[g] = "in" /\ (rx[fdtab[g]] # <<>> \/ eof'[fdtab[g]] \in {"fin", "err"})
        BY <1>2, <1>5 DEF Input
    <2>2. fdtab[g] \in Conns
        BY <1>1, <1>2, <2>1 DEF ArmRead, EpollSetSound
    <2>3. rx[fdtab[g]] # <<>> \/ eof[fdtab[g]] \in {"fin", "err"}
        BY <1>1, <1>2, <2>1, <2>2
    <2>4. CASE g = f
        BY <1>1, <1>2, <2>3, <2>4 DEF ArmRead, Readable
    <2>5. CASE g # f
        <3>1. Input(g) /\ (g \in edge' <=> g \in edge)
            BY <1>1, <1>2, <2>1, <2>3, <2>5 DEF ArmRead, Input
        <3> QED
            BY <1>1, <1>2, <3>1 DEF Input, InBatch, InputIsReported
    <2> QED
        BY <2>4, <2>5
<1> QED
    BY <1>3, <1>4, <1>5 DEF InputIsReported, Input, InBatch

(* A worker only takes descriptors from reading to writing.                *)
LEMMA WorkerEdge ==
    ASSUME EdgeInv, NEW w \in Workers, Worker(w)
    PROVE  EnvOfMode' /\ InputIsReported' /\ BacklogIsReported'
<1> USE DEF EdgeInv, Inv, TypeOK
<1>1. CASE GetTask(w)
    BY <1>1 DEF GetTask, socketVars, epollVars, batchVars,
                EnvOfMode, InputIsReported, BacklogIsReported
<1>2. CASE RunTask(w)
    <2> DEFINE f == held[w].fd
               e == [fd |-> f, conn |-> held[w].conn, n |-> Head(held[w].data)]
    <2>1. held[w] \in Task
        BY <1>2 DEF RunTask
    <2>2. Head(held[w].data) \in 1 .. MaxSegments
        BY <2>1, HeadTailProperties DEF Task
    <2>3. f \in Fds /\ e # NoEnv
        BY <2>1, <2>2 DEF Task, Env
    <2>4. ArmWrite(f, e) /\ UNCHANGED <<rx, eof, backlog, fdtab, svr_edge, batch, accepting, emfile>>
        BY <1>2 DEF RunTask, socketVars, batchVars
    <2>5. EnvOfMode'
        BY <2>3, <2>4 DEF ArmWrite, EnvOfMode
    <2>6. BacklogIsReported'
        BY <2>4 DEF BacklogIsReported
    <2>7. ASSUME NEW g \in Fds, Input(g)' PROVE g \in edge' \/ InBatch(g)'
        <3>1. Input(g) /\ (g \in edge' <=> g \in edge)
            BY <2>3, <2>4, <2>7 DEF ArmWrite, Input
        <3> QED
            BY <2>4, <3>1 DEF Input, InBatch, InputIsReported
    <2> QED
        BY <2>5, <2>6, <2>7 DEF InputIsReported, Input, InBatch
<1> QED
    BY <1>1, <1>2 DEF Worker

LEMMA EdgeInvariant == Spec => []EdgeInv
<1>1. ASSUME EdgeInv, [Next]_vars PROVE EdgeInv'
    <2>1. Inv'
        BY <1>1, InvNext DEF EdgeInv
    <2>2. CASE UNCHANGED vars
        <3>1. EnvOfMode' /\ InputIsReported' /\ BacklogIsReported'
            BY <1>1, <2>2 DEF vars, EdgeInv, EnvOfMode, InputIsReported, BacklogIsReported
        <3> QED
            BY <2>1, <3>1 DEF EdgeInv
    <2>3. CASE Next
        <3>1. EnvOfMode' /\ InputIsReported' /\ BacklogIsReported'
            BY <1>1, <2>3, ClientEdge, WaitEdge, AcceptEdge, ReadEdge, WriteEdge, WorkerEdge
               DEF Next, Main
        <3> QED
            BY <2>1, <3>1 DEF EdgeInv
    <2> QED
        BY <1>1, <2>2, <2>3
<1> QED
    BY EdgeInit, <1>1, PTL DEF Spec

(* Edge-triggered input is never stranded: what has arrived on a           *)
(* descriptor that waits for input is about to be reported, or is in the   *)
(* batch (server.cpp 105-134, epoll.cpp 74).                               *)
THEOREM InputIsReportedCorrect == Spec => []InputIsReported
<1>1. EdgeInv => InputIsReported
    BY DEF EdgeInv
<1> QED
    BY <1>1, EdgeInvariant, PTL

(* A connection waits in the backlog without an event to come only after   *)
(* accept has run out of descriptors (server.cpp 84).                      *)
THEOREM BacklogIsReportedCorrect == Spec => []BacklogIsReported
<1>1. EdgeInv => BacklogIsReported
    BY DEF EdgeInv
<1> QED
    BY <1>1, EdgeInvariant, PTL

-----------------------------------------------------------------------------
(* The environments.  A response is known by the connection and the        *)
(* segment it answers.                                                     *)

Key(t) == <<t.conn, Head(t.data)>>
EnvKey(e) == <<e.conn, e.n>>

(* The environments there have been and may still be referred to.          *)
Made == (freed \cup {env[f] : f \in Fds} \cup {ev.env : ev \in batch}) \ {NoEnv}

(* The segment was sent and is no longer in the socket.                    *)
Read(k) == k[2] <= sent[k[1]] /\ \A i \in 1 .. Len(rx[k[1]]) : rx[k[1]][i] # k[2]

(* No segment is answered twice: its number is in at most one task, and in *)
(* none once an environment has been made for it.                          *)
AnsweredOnce ==
    /\ \A c \in Conns : \A i \in 1 .. Len(rx[c]) : rx[c][i] <= sent[c]
    /\ \A i \in 1 .. Len(queue) : Read(Key(queue[i]))
    /\ \A w \in Workers : held[w] # NoTask => Read(Key(held[w]))
    /\ \A e \in Made : Read(EnvKey(e))
    /\ \A i, j \in 1 .. Len(queue) : i # j => Key(queue[i]) # Key(queue[j])
    /\ \A i \in 1 .. Len(queue) : \A w \in Workers :
           held[w] # NoTask => Key(queue[i]) # Key(held[w])
    /\ \A v, w \in Workers :
           v # w /\ held[v] # NoTask /\ held[w] # NoTask => Key(held[v]) # Key(held[w])
    /\ \A e \in Made : \A i \in 1 .. Len(queue) : Key(queue[i]) # EnvKey(e)
    /\ \A e \in Made : \A w \in Workers : held[w] # NoTask => Key(held[w]) # EnvKey(e)

EnvInv == Inv /\ AnsweredOnce /\ EnvAliveWhenUsed

LEMMA EnvInit == Init => EnvInv
<1> SUFFICES ASSUME Init PROVE EnvInv
    OBVIOUS
<1>1. queue = <<>> /\ held = [w \in Workers |-> NoTask] /\ Made = {}
    BY DEF Init, TaskQ!Init, Made
<1>2. AnsweredOnce /\ EnvAliveWhenUsed
    BY <1>1 DEF Init, AnsweredOnce, EnvAliveWhenUsed
<1> QED
    BY <1>2, InvInit DEF EnvInv

LEMMA MadeAreEnvs == ASSUME Inv PROVE Made \subseteq Env
BY DEF Inv, TypeOK, Made, Event

LEMMA KeyOfTask == \A t \in Task : Key(t) \in Conns \X Nat
<1> SUFFICES ASSUME NEW t \in Task PROVE Key(t) \in Conns \X Nat
    OBVIOUS
<1>1. t.conn \in Conns /\ Head(t.data) \in 1 .. MaxSegments
    BY HeadTailProperties DEF Task
<1> QED
    BY <1>1 DEF Key

LEMMA KeyOfEnv == \A e \in Env : EnvKey(e) \in Conns \X Nat
BY DEF Env, EnvKey

(* A number that was read stays so: new segments have new numbers.         *)
LEMMA ReadStays ==
    ASSUME Inv, NEW c \in Conns, NEW k \in Conns \X Nat, Read(k),
           \/ sent' = sent /\ rx' = rx
           \/ sent' = sent /\ rx' = [rx EXCEPT ![c] = <<>>]
           \/ /\ sent' = [sent EXCEPT ![c] = sent[c] + 1]
              /\ rx' = [rx EXCEPT ![c] = Append(rx[c], sent[c] + 1)]
    PROVE  Read(k)'
<1> USE DEF Inv, TypeOK
<1>1. /\ rx[c] \in Seq(1 .. MaxSegments) /\ sent[c] \in Nat /\ sent[k[1]] \in Nat
      /\ k[1] \in Conns /\ k[2] \in Nat
    OBVIOUS
<1>2. CASE sent' = sent /\ rx' = rx
    BY <1>2 DEF Read
<1>3. CASE sent' = sent /\ rx' = [rx EXCEPT ![c] = <<>>]
    BY <1>3 DEF Read
<1>4. CASE /\ sent' = [sent EXCEPT ![c] = sent[c] + 1]
           /\ rx' = [rx EXCEPT ![c] = Append(rx[c], sent[c] + 1)]
    <2>1. CASE k[1] = c
        <3>1. rx'[c] = Append(rx[c], sent[c] + 1) /\ sent'[c] = sent[c] + 1
            BY <1>4
        <3>2. k[2] <= sent[c] /\ \A i \in 1 .. Len(rx[c]) : rx[c][i] # k[2]
            BY <2>1 DEF Read
        <3>3. Len(rx'[c]) = Len(rx[c]) + 1
            BY <1>1, <3>1
        <3>4. \A i \in 1 .. Len(rx'[c]) : rx'[c][i] # k[2]
            <4> TAKE i \in 1 .. Len(rx'[c])
            <4>1. CASE i = Len(rx[c]) + 1
                BY <1>1, <3>1, <3>2, <4>1
            <4>2. CASE i \in 1 .. Len(rx[c])
                BY <1>1, <3>1, <3>2, <4>2
            <4> QED
                BY <1>1, <3>3, <4>1, <4>2
        <3> QED
            BY <1>1, <2>1, <3>1, <3>2, <3>4 DEF Read
    <2>2. CASE k[1] # c
        BY <1>4, <2>2 DEF Read
    <2> QED
        BY <2>1, <2>2
<1> QED
    BY <1>2, <1>3, <1>4

(* A step of the other parts of the server, which may forget environments. *)
LEMMA OnceKept ==
    ASSUME EnvInv, UNCHANGED <<queue, held>>, Made' \subseteq Made,
           \/ UNCHANGED <<sent, rx>>
           \/ \E c \in Conns :
               \/ sent' = sent /\ rx' = [rx EXCEPT ![c] = <<>>]
               \/ /\ sent' = [sent EXCEPT ![c] = sent[c] + 1]
                  /\ rx' = [rx EXCEPT ![c] = Append(rx[c], sent[c] + 1)]
    PROVE  AnsweredOnce'
<1> USE DEF EnvInv
<1>1. \A d \in Conns : \A i \in 1 .. Len(rx'[d]) : rx'[d][i] <= sent'[d]
    <2> SUFFICES ASSUME NEW d \in Conns, NEW i \in 1 .. Len(rx'[d])
                 PROVE  rx'[d][i] <= sent'[d]
        OBVIOUS
    <2>1. /\ rx[d] \in Seq(1 .. MaxSegments) /\ sent[d] \in Nat
          /\ \A j \in 1 .. Len(rx[d]) : rx[d][j] <= sent[d]
          /\ rx \in [Conns -> Seq(1 .. MaxSegments)] /\ sent \in [Conns -> 0 .. MaxSegments]
        BY DEF AnsweredOnce, Inv, TypeOK
    <2>2. CASE rx'[d] = rx[d] /\ sent'[d] = sent[d]
        BY <2>1, <2>2
    <2>3. CASE rx'[d] = Append(rx[d], sent[d] + 1) /\ sent'[d] = sent[d] + 1
        <3>1. CASE i = Len(rx[d]) + 1
            BY <2>1, <2>3, <3>1
        <3>2. CASE i \in 1 .. Len(rx[d])
            <4>1. rx'[d][i] = rx[d][i]
                BY <2>1, <2>3, <3>2
            <4>2. rx[d][i] \in Nat /\ rx[d][i] <= sent[d]
                BY <2>1, <3>2
            <4>3. sent'[d] \in Nat /\ sent[d] <= sent'[d]
                BY <2>1, <2>3
            <4> HIDE DEF EnvInv
            <4> QED
                BY <2>1, <4>1, <4>2, <4>3
        <3> QED
            BY <2>1, <2>3, <3>1, <3>2
    <2>4. CASE rx'[d] = <<>>
        BY <2>4
    <2> QED
        BY <2>1, <2>2, <2>3, <2>4
<1>2. ASSUME NEW k \in Conns \X Nat, Read(k) PROVE Read(k)'
    BY <1>2, ReadStays
<1>3. /\ \A i \in 1 .. Len(queue) : queue[i] \in Task
      /\ \A w \in Workers : held[w] # NoTask => held[w] \in Task
      /\ \A e \in Made : e \in Env
    BY MadeAreEnvs DEF Inv, TypeOK
<1>4. ASSUME NEW i \in 1 .. Len(queue) PROVE Read(Key(queue[i]))'
    <2>1. Key(queue[i]) \in Conns \X Nat /\ Read(Key(queue[i]))
        BY <1>3, KeyOfTask DEF AnsweredOnce
    <2> QED
        BY <1>2, <2>1 DEF Read, Key
<1>5. ASSUME NEW w \in Workers, held[w] # NoTask PROVE Read(Key(held[w]))'
    <2>1. Key(held[w]) \in Conns \X Nat /\ Read(Key(held[w]))
        BY <1>3, <1>5, KeyOfTask DEF AnsweredOnce
    <2> QED
        BY <1>2, <2>1 DEF Read, Key
<1>6. ASSUME NEW e \in Made PROVE Read(EnvKey(e))'
    <2>1. EnvKey(e) \in Conns \X Nat /\ Read(EnvKey(e))
        BY <1>3, KeyOfEnv DEF AnsweredOnce
    <2> QED
        BY <1>2, <2>1 DEF Read, EnvKey
<1> QED
    BY <1>1, <1>4, <1>5, <1>6 DEF AnsweredOnce, Key

LEMMA ClientOnce ==
    ASSUME EnvInv, NEW c \in Conns, Connect(c) \/ Send(c) \/ Leave(c)
    PROVE  AnsweredOnce' /\ EnvAliveWhenUsed'
<1>1. UNCHANGED <<env, batch, freed, queue, held>>
    BY DEF Connect, Send, Leave, batchVars
<1>2. \/ sent' = sent /\ rx' = rx
      \/ /\ sent' = [sent EXCEPT ![c] = sent[c] + 1]
         /\ rx' = [rx EXCEPT ![c] = Append(rx[c], sent[c] + 1)]
    BY DEF Connect, Send, Leave, EnvInv, Inv, TypeOK
<1>3. Made' \subseteq Made
    BY <1>1 DEF Made
<1> QED
    BY <1>1, <1>2, <1>3, OnceKept DEF EnvInv, EnvAliveWhenUsed

(* A batch refers to the environments of the epoll set.                    *)
LEMMA WaitOnce ==
    ASSUME EnvInv, EpollWait
    PROVE  AnsweredOnce' /\ EnvAliveWhenUsed'
<1> DEFINE Ev(f) == [fd |-> f, conn |-> fdtab[f], env |-> env[f]]
<1>1. batch' = {Ev(f) : f \in Ready} /\ UNCHANGED <<env, freed, queue, held, sent, rx>>
    BY DEF EpollWait, clientVars, socketVars
<1>2. \A ev \in batch' : \E f \in Fds : ev.env = env[f]
    BY <1>1 DEF Ready
<1>3. Made' \subseteq Made
    <2> HIDE DEF Ev
    <2> QED
        BY <1>1, <1>2 DEF Made
<1>4. EnvAliveWhenUsed'
    <2> HIDE DEF Ev
    <2> QED
        BY <1>1, <1>2 DEF EnvInv, EnvAliveWhenUsed
<1> QED
    BY <1>1, <1>3, <1>4, OnceKept

LEMMA AcceptOnce ==
    ASSUME EnvInv, OnAccept \/ OnAcceptEnd
    PROVE  AnsweredOnce' /\ EnvAliveWhenUsed'
<1> USE DEF EnvInv, Inv, TypeOK
<1>1. CASE OnAccept
    <2>1. Head(backlog) \in Conns
        BY <1>1, HeadTailProperties DEF OnAccept
    <2>2. PICK f \in Fds : env' = [env EXCEPT ![f] = NoEnv]
        BY <1>1 DEF OnAccept, ArmRead
    <2>3. UNCHANGED <<freed, batch, queue, held, sent, rx>>
        BY <1>1 DEF OnAccept, clientVars
    <2>4. Made' \subseteq Made
        BY <2>2, <2>3 DEF Made
    <2>5. EnvAliveWhenUsed'
        BY <2>2, <2>3 DEF EnvAliveWhenUsed
    <2> HIDE DEF EnvInv, Inv, TypeOK
    <2> QED
        BY <2>1, <2>3, <2>4, <2>5, OnceKept
<1>2. CASE OnAcceptEnd
    BY <1>2 DEF OnAcceptEnd, clientVars, socketVars, epollVars, AnsweredOnce, EnvAliveWhenUsed,
                Made, Read, Key, EnvKey
<1> QED
    BY <1>1, <1>2

(* A task is made for a segment that was still in the socket.              *)
LEMMA ReadOnce ==
    ASSUME EnvInv, NEW ev \in batch, OnHttpRead(ev)
    PROVE  AnsweredOnce' /\ EnvAliveWhenUsed'
<1> USE DEF EnvInv, Inv, TypeOK
<1> DEFINE f == ev.fd
           c == fdtab[f]
           t == [fd |-> f, conn |-> c, data |-> rx[c]]
<1>1. f \in Fds /\ c \in Conns
    BY DEF BatchIsCurrent, Event
<1>2. /\ batch' = batch \ {ev} /\ freed' = freed /\ sent' = sent
      /\ rx' = [rx EXCEPT ![c] = <<>>]
    BY DEF OnHttpRead, clientVars
<1>3. \A g \in Fds : env'[g] = env[g] \/ env'[g] = NoEnv
    BY <1>1 DEF OnHttpRead, Close
<1>4. Made' \subseteq Made
    BY <1>2, <1>3 DEF Made
<1>5. EnvAliveWhenUsed'
    BY <1>2, <1>3 DEF EnvAliveWhenUsed
<1>6. CASE UNCHANGED <<queue, held>>
    <2> HIDE DEF EnvInv, Inv, TypeOK, c, f
    <2> QED
        BY <1>1, <1>2, <1>4, <1>5, <1>6, OnceKept
<1>7. CASE rx[c] # <<>> /\ TaskQ!Add(t)
    <2>1. t \in Task /\ Key(t) = <<c, rx[c][1]>> /\ 1 \in 1 .. Len(rx[c])
        BY <1>1, <1>7 DEF Task, Key
    <2>2. queue' = Append(queue, t) /\ held' = held /\ queue \in Seq(Task)
        BY <1>7 DEF TaskQ!Add
    <2>3. /\ Len(queue') = Len(queue) + 1 /\ Len(queue) \in Nat
          /\ \A i \in 1 .. Len(queue) : queue'[i] = queue[i]
          /\ queue'[Len(queue) + 1] = t
        <3> HIDE DEF EnvInv, Inv, TypeOK, t
        <3> QED
            BY <2>1, <2>2, AppendProperties
    <2>4. \A k \in Conns \X Nat : Read(k) => Read(k)' /\ k # Key(t)
        <3> SUFFICES ASSUME NEW k \in Conns \X Nat, Read(k) PROVE Read(k)' /\ k # Key(t)
            OBVIOUS
        <3>1. Read(k)'
            <4> HIDE DEF c, f
            <4> QED
                BY <1>1, <1>2, ReadStays
        <3>2. k # Key(t)
            BY <2>1 DEF Read
        <3> QED
            BY <3>1, <3>2
    <2>5. /\ \A i \in 1 .. Len(queue) : queue[i] \in Task
          /\ \A w \in Workers : held[w] # NoTask => held[w] \in Task
          /\ \A e \in Made : e \in Env
        BY MadeAreEnvs
    <2>6. ASSUME NEW i \in 1 .. Len(queue)
          PROVE  Read(Key(queue[i]))' /\ Key(queue[i]) # Key(t)
        <3>1. Key(queue[i]) \in Conns \X Nat /\ Read(Key(queue[i]))
            BY <2>5, KeyOfTask DEF AnsweredOnce
        <3>2. PICK k \in Conns \X Nat : k = Key(queue[i])
            BY <3>1
        <3>3. Read(k)' /\ k # Key(t)
            BY <2>4, <3>1, <3>2
        <3> HIDE DEF EnvInv, Inv, TypeOK, t
        <3> QED
            BY <2>3, <3>2, <3>3 DEF Read, Key
    <2>7. ASSUME NEW w \in Workers, held[w] # NoTask
          PROVE  Read(Key(held[w]))' /\ Key(held[w]) # Key(t)
        <3>1. Key(held[w]) \in Conns \X Nat /\ Read(Key(held[w]))
            BY <2>5, <2>7, KeyOfTask DEF AnsweredOnce
        <3>2. PICK k \in Conns \X Nat : k = Key(held[w])
            BY <3>1
        <3>3. Read(k)' /\ k # Key(t)
            BY <2>4, <3>1, <3>2
        <3> HIDE DEF EnvInv, Inv, TypeOK, t
        <3> QED
            BY <2>2, <3>2, <3>3 DEF Read, Key
    <2>8. ASSUME NEW e \in Made
          PROVE  Read(EnvKey(e))' /\ EnvKey(e) # Key(t)
        <3>1. EnvKey(e) \in Conns \X Nat /\ Read(EnvKey(e))
            BY <2>5, KeyOfEnv DEF AnsweredOnce
        <3>2. PICK k \in Conns \X Nat : k = EnvKey(e)
            BY <3>1
        <3>3. Read(k)' /\ k # Key(t)
            BY <2>4, <3>1, <3>2
        <3> HIDE DEF EnvInv, Inv, TypeOK, t
        <3> QED
            BY <3>2, <3>3 DEF Read, EnvKey
    <2>9. /\ \A d \in Conns : \A i \in 1 .. Len(rx'[d]) : rx'[d][i] <= sent'[d]
          /\ Key(t)[2] <= sent'[Key(t)[1]] /\ rx'[Key(t)[1]] = <<>>
        BY <1>1, <1>2, <2>1 DEF AnsweredOnce
    <2>10. \A i \in 1 .. Len(queue') : i = Len(queue) + 1 \/ i \in 1 .. Len(queue)
        BY <2>3
    <2> DEFINE K(i) == Key(queue'[i])
               ReadNow(k) == /\ k[2] <= sent'[k[1]]
                             /\ \A i \in 1 .. Len(rx'[k[1]]) : rx'[k[1]][i] # k[2]
    <2>11. ReadNow(Key(t))
        BY <2>9
    <2>12. \A i \in 1 .. Len(queue) : ReadNow(K(i))
        <3> HIDE DEF EnvInv, Inv, TypeOK, t
        <3> QED
            BY <2>3, <2>6 DEF Read, Key
    <2>13. \A i \in 1 .. Len(queue') : ReadNow(K(i))
        <3>1. K(Len(queue) + 1) = Key(t)
            BY <2>3
        <3> HIDE DEF EnvInv, Inv, TypeOK, t, ReadNow, K
        <3> QED
            BY <2>10, <2>11, <2>12, <3>1
    <2>14. \A i, j \in 1 .. Len(queue') : i # j => K(i) # K(j)
        <3>1. \A i, j \in 1 .. Len(queue) : i # j => Key(queue[i]) # Key(queue[j])
            BY DEF AnsweredOnce
        <3>2. /\ \A i \in 1 .. Len(queue) : K(i) = Key(queue[i])
              /\ K(Len(queue) + 1) = Key(t)
            BY <2>3
        <3> HIDE DEF EnvInv, Inv, TypeOK, t, K
        <3> QED
            BY <2>6, <2>10, <3>1, <3>2
    <2>15. \A i \in 1 .. Len(queue') : \A w \in Workers : held[w] # NoTask => K(i) # Key(held[w])
        <3>1. \A i \in 1 .. Len(queue) : \A w \in Workers :
                  held[w] # NoTask => Key(queue[i]) # Key(held[w])
            BY DEF AnsweredOnce
        <3>2. /\ \A i \in 1 .. Len(queue) : K(i) = Key(queue[i])
              /\ K(Len(queue) + 1) = Key(t)
            BY <2>3
        <3> HIDE DEF EnvInv, Inv, TypeOK, t, K
        <3> QED
            BY <2>7, <2>10, <3>1, <3>2
    <2>16. \A e \in Made : \A i \in 1 .. Len(queue') : K(i) # EnvKey(e)
        <3>1. \A e \in Made : \A i \in 1 .. Len(queue) : Key(queue[i]) # EnvKey(e)
            BY DEF AnsweredOnce
        <3>2. /\ \A i \in 1 .. Len(queue) : K(i) = Key(queue[i])
              /\ K(Len(queue) + 1) = Key(t)
            BY <2>3
        <3> HIDE DEF EnvInv, Inv, TypeOK, t, K
        <3> QED
            BY <2>8, <2>10, <3>1, <3>2
    <2>17. /\ \A v, w \in Workers :
                 v # w /\ held[v] # NoTask /\ held[w] # NoTask => Key(held[v]) # Key(held[w])
           /\ \A e \in Made : \A w \in Workers : held[w] # NoTask => Key(held[w]) # EnvKey(e)
        BY DEF AnsweredOnce
    <2>18. AnsweredOnce'
        <3> HIDE DEF EnvInv, Inv, TypeOK, t
        <3> QED
            BY <1>4, <2>2, <2>7, <2>8, <2>9, <2>13, <2>14, <2>15, <2>16, <2>17
               DEF AnsweredOnce, Key, EnvKey, Read
    <2> QED
        BY <1>5, <2>18
<1> QED
    BY <1>2, <1>6, <1>7 DEF OnHttpRead

(* The environment that is deleted is left by the epoll set, and the batch *)
(* had no other event for its descriptor.                                  *)
LEMMA WriteOnce ==
    ASSUME EnvInv, NEW ev \in batch, OnWrite(ev)
    PROVE  AnsweredOnce' /\ EnvAliveWhenUsed'
<1> USE DEF EnvInv, Inv, TypeOK
<1> DEFINE f == ev.fd
           out == ev.env
<1>1. out # NoEnv /\ out.fd = f /\ f \in Fds /\ out \in Env
    BY DEF OnWrite, EpollSetSound, Event
<1>2. /\ batch' = batch \ {ev} /\ freed' = freed \cup {out}
      /\ env' = [env EXCEPT ![f] = NoEnv]
      /\ UNCHANGED <<sent, rx, queue, held>>
    BY <1>1 DEF OnWrite, ArmRead
<1>3. Made' \subseteq Made
    BY <1>1, <1>2 DEF Made
<1>4. \A g \in Fds : env'[g] \notin freed'
    <2>1. \A g \in Fds : g # f => env[g] # out
        BY <1>1 DEF EpollSetSound
    <2> QED
        BY <1>1, <1>2, <2>1 DEF EnvAliveWhenUsed
<1>5. \A ev2 \in batch' : ev2.env \notin freed'
    <2>1. \A ev2 \in batch' : ev2.fd # f
        BY <1>2 DEF EpollSetSound
    <2>2. \A ev2 \in batch' : ev2.env # out
        BY <1>1, <1>2, <2>1 DEF EpollSetSound
    <2> QED
        BY <1>2, <2>2 DEF EnvAliveWhenUsed
<1>6. EnvAliveWhenUsed'
    BY <1>4, <1>5 DEF EnvAliveWhenUsed
<1> HIDE DEF EnvInv, Inv, TypeOK, f, out
<1> QED
    BY <1>2, <1>3, <1>6, OnceKept

(* A task moves from the queue to a worker.                                *)
LEMMA TakeOnce ==
    ASSUME EnvInv, NEW w \in Workers, GetTask(w)
    PROVE  AnsweredOnce' /\ EnvAliveWhenUsed'
<1>1. /\ queue \in Seq(Task) /\ queue # <<>> /\ held[w] = NoTask
      /\ held \in [Workers -> Task \cup {NoTask}]
      /\ queue' = Tail(queue) /\ held' = [held EXCEPT ![w] = Head(queue)]
    BY DEF GetTask, TaskQ!Take, EnvInv, Inv, TypeOK
<1>2. UNCHANGED <<sent, rx, env, batch, freed>>
    BY DEF GetTask, clientVars, socketVars, epollVars, batchVars
<1>3. /\ Head(queue) = queue[1] /\ 1 \in 1 .. Len(queue)
      /\ Len(queue) \in Nat /\ Len(queue') = Len(queue) - 1
      /\ \A i \in 1 .. Len(queue') : i + 1 \in 1 .. Len(queue) /\ queue'[i] = queue[i + 1]
    BY <1>1, HeadTailProperties
<1>4. \A v \in Workers : held'[v] = IF v = w THEN queue[1] ELSE held[v]
    BY <1>1, <1>3
<1>5. Made' = Made
    BY <1>2 DEF Made
<1>6. EnvAliveWhenUsed'
    BY <1>2 DEF EnvInv, EnvAliveWhenUsed
<1>7. /\ \A i \in 1 .. Len(queue') : Read(Key(queue[i + 1]))
      /\ \A i, j \in 1 .. Len(queue') : i # j => Key(queue[i + 1]) # Key(queue[j + 1])
      /\ \A i \in 1 .. Len(queue') : Key(queue[i + 1]) # Key(queue[1])
      /\ \A i \in 1 .. Len(queue') : \A v \in Workers :
             held[v] # NoTask => Key(queue[i + 1]) # Key(held[v])
      /\ \A e \in Made : \A i \in 1 .. Len(queue') : Key(queue[i + 1]) # EnvKey(e)
    BY <1>3 DEF EnvInv, AnsweredOnce
<1>8. /\ Read(Key(queue[1]))
      /\ \A v \in Workers : held[v] # NoTask => Key(queue[1]) # Key(held[v])
      /\ \A e \in Made : Key(queue[1]) # EnvKey(e)
    BY <1>3 DEF EnvInv, AnsweredOnce
<1>9. /\ \A c \in Conns : \A i \in 1 .. Len(rx[c]) : rx[c][i] <= sent[c]
      /\ \A v \in Workers : held[v] # NoTask => Read(Key(held[v]))
      /\ \A e \in Made : Read(EnvKey(e))
      /\ \A v, u \in Workers :
             v # u /\ held[v] # NoTask /\ held[u] # NoTask => Key(held[v]) # Key(held[u])
      /\ \A e \in Made : \A v \in Workers : held[v] # NoTask => Key(held[v]) # EnvKey(e)
    BY DEF EnvInv, AnsweredOnce
<1> DEFINE K(i) == Key(queue'[i])
           H(v) == Key(held'[v])
           ReadNow(k) == /\ k[2] <= sent'[k[1]]
                         /\ \A i \in 1 .. Len(rx'[k[1]]) : rx'[k[1]][i] # k[2]
<1>10. \A k : Read(k) => ReadNow(k)
    BY <1>2 DEF Read
<1>11. \A i \in 1 .. Len(queue') : K(i) = Key(queue[i + 1])
    BY <1>3
<1>12. H(w) = Key(queue[1]) /\ \A v \in Workers : v # w => H(v) = Key(held[v]) /\ held'[v] = held[v]
    BY <1>4
<1> HIDE DEF K, H, ReadNow
<1>13. \A i \in 1 .. Len(queue') : ReadNow(K(i))
    BY <1>7, <1>10, <1>11
<1>14. \A v \in Workers : held'[v] # NoTask => ReadNow(H(v))
    BY <1>8, <1>9, <1>10, <1>12
<1>15. \A e \in Made : ReadNow(EnvKey(e))
    BY <1>9, <1>10
<1>16. \A i, j \in 1 .. Len(queue') : i # j => K(i) # K(j)
    BY <1>7, <1>11
<1>17. \A i \in 1 .. Len(queue') : \A v \in Workers : held'[v] # NoTask => K(i) # H(v)
    BY <1>7, <1>11, <1>12
<1>18. \A v, u \in Workers :
          v # u /\ held'[v] # NoTask /\ held'[u] # NoTask => H(v) # H(u)
    BY <1>8, <1>9, <1>12
<1>19. \A e \in Made : \A i \in 1 .. Len(queue') : K(i) # EnvKey(e)
    BY <1>7, <1>11
<1>20. \A e \in Made : \A v \in Workers : held'[v] # NoTask => H(v) # EnvKey(e)
    BY <1>8, <1>9, <1>12
<1>21. \A c \in Conns : \A i \in 1 .. Len(rx'[c]) : rx'[c][i] <= sent'[c]
    BY <1>2, <1>9
<1>22. AnsweredOnce'
    BY <1>5, <1>13, <1>14, <1>15, <1>16, <1>17, <1>18, <1>19, <1>20, <1>21
       DEF AnsweredOnce, Key, EnvKey, Read, K, H, ReadNow
<1> QED
    BY <1>6, <1>22

(* An environment takes the place of the task it answers.                  *)
LEMMA RunOnce ==
    ASSUME EnvInv, NEW w \in Workers, RunTask(w)
    PROVE  AnsweredOnce' /\ EnvAliveWhenUsed'
<1> DEFINE f == held[w].fd
           e == [fd |-> f, conn |-> held[w].conn, n |-> Head(held[w].data)]
<1>1. /\ held[w] # NoTask /\ held[w] \in Task
      /\ held \in [Workers -> Task \cup {NoTask}]
      /\ queue' = queue /\ held' = [held EXCEPT ![w] = NoTask]
    BY DEF RunTask, TaskQ!Finish, EnvInv, Inv, TypeOK
<1>2. UNCHANGED <<sent, rx, batch, freed>>
    BY DEF RunTask, clientVars, socketVars, batchVars
<1>3. f \in Fds /\ e \in Env /\ EnvKey(e) = Key(held[w])
    BY <1>1, HeadTailProperties DEF Task, Env, EnvKey, Key
<1>4. env' = env \/ env' = [env EXCEPT ![f] = e]
    BY DEF RunTask, ArmWrite
<1>5. Made' \subseteq Made \cup {e}
    BY <1>2, <1>3, <1>4 DEF Made, EnvInv, Inv, TypeOK
<1>6. e \notin Made
    BY <1>1, <1>3 DEF EnvInv, AnsweredOnce
<1>7. EnvAliveWhenUsed'
    <2>1. e \notin freed
        BY <1>3, <1>6 DEF Made
    <2> HIDE DEF e, f
    <2> QED
        BY <1>2, <1>4, <2>1 DEF EnvInv, EnvAliveWhenUsed, Inv, TypeOK
<1>8. \A v \in Workers : held'[v] # NoTask => v # w /\ held'[v] = held[v]
    BY <1>1
<1>9. /\ Read(EnvKey(e))
      /\ \A i \in 1 .. Len(queue) : Key(queue[i]) # EnvKey(e)
      /\ \A v \in Workers : v # w /\ held[v] # NoTask => Key(held[v]) # EnvKey(e)
    BY <1>1, <1>3 DEF EnvInv, AnsweredOnce
<1> HIDE DEF e, f
<1>10. /\ \A d \in Made' : Read(EnvKey(d))
       /\ \A d \in Made' : \A i \in 1 .. Len(queue) : Key(queue[i]) # EnvKey(d)
       /\ \A d \in Made' : \A v \in Workers :
              v # w /\ held[v] # NoTask => Key(held[v]) # EnvKey(d)
    BY <1>5, <1>9 DEF EnvInv, AnsweredOnce
<1>11. AnsweredOnce'
    BY <1>1, <1>2, <1>8, <1>10 DEF EnvInv, AnsweredOnce, Key, EnvKey, Read
<1> QED
    BY <1>7, <1>11

LEMMA EnvInvariant == Spec => []EnvInv
<1>1. ASSUME EnvInv, [Next]_vars PROVE EnvInv'
    <2>1. Inv'
        BY <1>1, InvNext DEF EnvInv
    <2>2. CASE UNCHANGED vars
        <3>1. UNCHANGED <<queue, held, sent, rx, env, batch, freed>>
            BY <2>2 DEF vars, clientVars, socketVars, epollVars, batchVars
        <3>2. Made' \subseteq Made
            BY <3>1 DEF Made
        <3>3. AnsweredOnce'
            BY <1>1, <3>1, <3>2, OnceKept
        <3>4. EnvAliveWhenUsed'
            BY <1>1, <3>1 DEF EnvInv, EnvAliveWhenUsed
        <3> QED
            BY <2>1, <3>3, <3>4 DEF EnvInv
    <2>3. CASE Next
        <3>1. AnsweredOnce' /\ EnvAliveWhenUsed'
            BY <1>1, <2>3, ClientOnce, WaitOnce, AcceptOnce, ReadOnce, WriteOnce, TakeOnce, RunOnce
               DEF Next, Main, Worker
        <3> QED
            BY <2>1, <3>1 DEF EnvInv
    <2> QED
        BY <1>1, <2>2, <2>3
<1> QED
    BY EnvInit, <1>1, PTL DEF Spec

(* An environment is deleted once, and then neither the epoll set nor the  *)
(* batch points to it, whatever the workers register in the meantime       *)
(* (req_task.cpp 58-63, epoll.cpp 74-79).                                  *)
THEOREM EnvAliveWhenUsedCorrect == Spec => []EnvAliveWhenUsed
<1>1. EnvInv => EnvAliveWhenUsed
    BY DEF EnvInv
<1> QED
    BY <1>1, EnvInvariant, PTL

-----------------------------------------------------------------------------
(* Clients that wait for their answers.  The tasks that are queued or held. *)

TaskSet == {queue[i] : i \in 1 .. Len(queue)} \cup ({held[w] : w \in Workers} \ {NoTask})

(* A connection has one segment at a time on its way, the last it sent: in *)
(* the socket, in a task or in an environment, of a descriptor that is     *)
(* still the connection's.                                                 *)
OneAtATime ==
    /\ \A c \in Conns :
          rx[c] = <<>> \/ (rx[c] = <<sent[c]>> /\ sent[c] > 0 /\ ~Delivered(c, sent[c]))
    /\ \A t \in TaskSet :
          /\ t.data = <<sent[t.conn]>> /\ sent[t.conn] > 0 /\ fdtab[t.fd] = t.conn
          /\ rx[t.conn] = <<>> /\ ~Delivered(t.conn, sent[t.conn])
    /\ \A t, u \in TaskSet : t.conn = u.conn => t = u
    /\ \A f \in Fds : env[f] # NoEnv =>
          /\ env[f].n = sent[env[f].conn] /\ fdtab[f] = env[f].conn
          /\ rx[env[f].conn] = <<>> /\ ~Delivered(env[f].conn, sent[env[f].conn])
          /\ \A t \in TaskSet : t.conn # env[f].conn
    /\ \A f, g \in Fds :
          env[f] # NoEnv /\ env[g] # NoEnv /\ env[f].conn = env[g].conn => f = g

(* Nothing is lost: the last segment is on its way or answered, the others *)
(* are answered, and a client that has closed waits for nothing.           *)
NothingLost ==
    /\ \A c \in Conns : \A n \in 1 .. sent[c] : n < sent[c] => Delivered(c, n)
    /\ \A c \in Conns : sent[c] > 0 =>
          \/ rx[c] # <<>>
          \/ \E t \in TaskSet : t.conn = c
          \/ \E f \in Fds : env[f] # NoEnv /\ env[f].conn = c
          \/ Delivered(c, sent[c])
    /\ \A c \in Conns : eof[c] = "open" \/ (eof[c] = "fin" /\ client[c] = "gone")
    /\ \A c \in Conns : client[c] # "open" /\ sent[c] > 0 => Delivered(c, sent[c])
    /\ \A c \in Conns : \A r \in got[c] : r.n <= sent[c]
    /\ \A ev \in batch : ev.env # NoEnv => env[ev.fd] = ev.env

SerialInv == OneAtATime /\ NothingLost /\ ResponseReachesItsClient

LEMMA SerialInit == Init => SerialInv
<1> SUFFICES ASSUME Init PROVE SerialInv
    OBVIOUS
<1>1. TaskSet = {}
    BY DEF Init, TaskQ!Init, TaskSet
<1>2. /\ \A c \in Conns : rx[c] = <<>> /\ sent[c] = 0 /\ got[c] = {} /\ eof[c] = "open"
      /\ \A f \in Fds : env[f] = NoEnv
      /\ batch = {}
    BY DEF Init
<1>3. OneAtATime
    BY <1>1, <1>2 DEF OneAtATime, Delivered
<1>4. NothingLost
    BY <1>2 DEF NothingLost, Delivered
<1> QED
    BY <1>2, <1>3, <1>4 DEF SerialInv, ResponseReachesItsClient

LEMMA TasksAreTasks == ASSUME Inv PROVE TaskSet \subseteq Task
BY DEF Inv, TypeOK, TaskSet

(* What the operations of the queue do to the tasks.                       *)
LEMMA TaskSetSame == ASSUME UNCHANGED <<queue, held>> PROVE TaskSet' = TaskSet
BY DEF TaskSet

LEMMA TaskSetAdd ==
    ASSUME Inv, NEW t \in Task, TaskQ!Add(t) PROVE TaskSet' = TaskSet \cup {t}
<1>1. queue' = Append(queue, t) /\ held' = held /\ queue \in Seq(Task)
    BY DEF TaskQ!Add, Inv, TypeOK
<1>2. /\ Len(queue') = Len(queue) + 1 /\ Len(queue) \in Nat
      /\ \A i \in 1 .. Len(queue) : queue'[i] = queue[i]
      /\ queue'[Len(queue) + 1] = t
    BY <1>1, AppendProperties
<1>3. {queue'[i] : i \in 1 .. Len(queue')} = {queue[i] : i \in 1 .. Len(queue)} \cup {t}
    BY <1>2
<1> QED
    BY <1>1, <1>3 DEF TaskSet

LEMMA TaskSetTake ==
    ASSUME Inv, NEW w \in Workers, TaskQ!Take(w) PROVE TaskSet' = TaskSet
<1>1. /\ queue \in Seq(Task) /\ queue # <<>> /\ held[w] = NoTask
      /\ held \in [Workers -> Task \cup {NoTask}]
      /\ queue' = Tail(queue) /\ held' = [held EXCEPT ![w] = Head(queue)]
    BY DEF TaskQ!Take, Inv, TypeOK
<1>2. /\ Head(queue) = queue[1] /\ queue[1] \in Task /\ 1 \in 1 .. Len(queue)
      /\ Len(queue) \in Nat /\ Len(queue') = Len(queue) - 1
      /\ \A i \in 1 .. Len(queue') : i + 1 \in 1 .. Len(queue) /\ queue'[i] = queue[i + 1]
    BY <1>1, HeadTailProperties
<1>3. {queue[i] : i \in 1 .. Len(queue)} = {queue'[i] : i \in 1 .. Len(queue')} \cup {queue[1]}
    <2>1. ASSUME NEW i \in 1 .. Len(queue), i # 1
          PROVE  \E j \in 1 .. Len(queue') : queue[i] = queue'[j]
        <3>1. i - 1 \in 1 .. Len(queue') /\ (i - 1) + 1 = i
            BY <1>2, <2>1
        <3> QED
            BY <1>2, <3>1
    <2>2. {queue[i] : i \in 1 .. Len(queue)} \subseteq {queue'[i] : i \in 1 .. Len(queue')} \cup {queue[1]}
        BY <2>1
    <2>3. {queue'[i] : i \in 1 .. Len(queue')} \cup {queue[1]} \subseteq {queue[i] : i \in 1 .. Len(queue)}
        BY <1>2
    <2> QED
        BY <2>2, <2>3
<1>4. {held'[v] : v \in Workers} \ {NoTask} = ({held[v] : v \in Workers} \ {NoTask}) \cup {queue[1]}
    <2>1. held'[w] = queue[1] /\ \A v \in Workers : v # w => held'[v] = held[v]
        BY <1>1, <1>2
    <2> QED
        BY <1>1, <1>2, <2>1
<1> QED
    BY <1>3, <1>4 DEF TaskSet

LEMMA TaskSetFinish ==
    ASSUME EnvInv, NEW w \in Workers, TaskQ!Finish(w)
    PROVE  TaskSet' = TaskSet \ {held[w]} /\ held[w] \in TaskSet
<1>1. /\ held[w] # NoTask /\ queue' = queue /\ held' = [held EXCEPT ![w] = NoTask]
      /\ held \in [Workers -> Task \cup {NoTask}]
    BY DEF TaskQ!Finish, EnvInv, Inv, TypeOK
<1>2. /\ \A i \in 1 .. Len(queue) : queue[i] # held[w]
      /\ \A v \in Workers : v # w => held[v] # held[w]
    BY <1>1 DEF EnvInv, AnsweredOnce
<1>3. held'[w] = NoTask /\ \A v \in Workers : v # w => held'[v] = held[v]
    BY <1>1
<1> QED
    BY <1>1, <1>2, <1>3 DEF TaskSet

(* A connection whose last segment is answered has none on its way.        *)
LEMMA AnsweredIsQuiet ==
    ASSUME EnvInv, SerialInv, NEW c \in Conns, Answered(c)
    PROVE  /\ rx[c] = <<>>
           /\ \A t \in TaskSet : t.conn # c
           /\ \A f \in Fds : env[f] # NoEnv => env[f].conn # c
<1>1. sent[c] > 0 => Delivered(c, sent[c])
    <2>1. sent[c] \in Nat
        BY DEF EnvInv, Inv, TypeOK
    <2>2. sent[c] > 0 => sent[c] \in 1 .. sent[c]
        BY <2>1
    <2> QED
        BY <2>2 DEF Answered, Delivered
<1>2. \A f \in Fds : env[f] # NoEnv => env[f].n > 0
    BY DEF EnvInv, Inv, TypeOK, Env
<1>3. sent[c] \in Nat
    BY DEF EnvInv, Inv, TypeOK
<1> QED
    BY <1>1, <1>2, <1>3 DEF SerialInv, OneAtATime

LEMMA ClientSerial ==
    ASSUME ClientMay = {}, EnvInv, SerialInv, NEW c \in Conns, Connect(c) \/ Send(c) \/ Leave(c)
    PROVE  SerialInv'
<1>1. UNCHANGED <<got, fdtab, env, batch>> /\ TaskSet' = TaskSet
    BY TaskSetSame DEF Connect, Send, Leave, batchVars
<1>2. /\ sent \in [Conns -> 0 .. MaxSegments] /\ rx \in [Conns -> Seq(1 .. MaxSegments)]
      /\ client \in [Conns -> {"new", "open", "gone"}]
      /\ eof \in [Conns -> {"open", "fin", "err", "hup"}]
      /\ \A d \in Conns : got[d] \subseteq Env
    BY DEF EnvInv, Inv, TypeOK
<1>3. \A d \in Conns : \A n : Delivered(d, n)' = Delivered(d, n)
    BY <1>1 DEF Delivered
<1>4. ResponseReachesItsClient'
    BY <1>1 DEF SerialInv, ResponseReachesItsClient
<1>5. CASE Connect(c)
    <2>1. /\ UNCHANGED <<sent, rx, eof>>
          /\ client[c] = "new" /\ client' = [client EXCEPT ![c] = "open"]
        BY <1>5 DEF Connect
    <2>2. OneAtATime'
        BY <1>1, <2>1 DEF SerialInv, OneAtATime, Delivered
    <2>3. \A d \in Conns : eof[d] = "open" \/ (eof[d] = "fin" /\ client'[d] = "gone")
        <3>1. \A d \in Conns : client[d] = "gone" => client'[d] = "gone"
            BY <1>2, <2>1
        <3> QED
            BY <3>1 DEF SerialInv, NothingLost
    <2>4. \A d \in Conns : client'[d] # "open" => client[d] # "open"
        BY <1>2, <2>1
    <2>5. \A d \in Conns : client'[d] # "open" /\ sent[d] > 0 => Delivered(d, sent[d])
        BY <2>4 DEF SerialInv, NothingLost
    <2>6. NothingLost'
        BY <1>1, <2>1, <2>3, <2>5 DEF SerialInv, NothingLost, Delivered
    <2> QED
        BY <1>4, <2>2, <2>6 DEF SerialInv
<1>6. CASE Leave(c)
    <2>1. /\ UNCHANGED <<sent, rx>> /\ Answered(c)
          /\ client' = [client EXCEPT ![c] = "gone"] /\ eof' = [eof EXCEPT ![c] = "fin"]
        BY <1>6 DEF Leave
    <2>2. OneAtATime'
        BY <1>1, <2>1 DEF SerialInv, OneAtATime, Delivered
    <2>3. sent[c] > 0 => Delivered(c, sent[c])
        <3>1. sent[c] > 0 => sent[c] \in 1 .. sent[c]
            BY <1>2
        <3> QED
            BY <2>1, <3>1 DEF Answered, Delivered
    <2>4. /\ client'[c] = "gone" /\ eof'[c] = "fin"
          /\ \A d \in Conns : d # c => client'[d] = client[d] /\ eof'[d] = eof[d]
        BY <1>2, <2>1
    <2>5. \A d \in Conns : eof'[d] = "open" \/ (eof'[d] = "fin" /\ client'[d] = "gone")
        BY <2>4 DEF SerialInv, NothingLost
    <2>6. \A d \in Conns : client'[d] # "open" /\ sent[d] > 0 => Delivered(d, sent[d])
        BY <2>3, <2>4 DEF SerialInv, NothingLost
    <2>7. NothingLost'
        BY <1>1, <2>1, <2>5, <2>6 DEF SerialInv, NothingLost, Delivered
    <2> QED
        BY <1>4, <2>2, <2>7 DEF SerialInv
<1>7. CASE Send(c)
    <2>1. /\ UNCHANGED <<client, eof>> /\ Answered(c) /\ client[c] = "open"
          /\ sent' = [sent EXCEPT ![c] = sent[c] + 1]
          /\ rx' = [rx EXCEPT ![c] = Append(rx[c], sent[c] + 1)]
        BY <1>2, <1>7 DEF Send
    <2>2. /\ rx[c] = <<>>
          /\ \A t \in TaskSet : t.conn # c
          /\ \A f \in Fds : env[f] # NoEnv => env[f].conn # c
        BY <2>1, AnsweredIsQuiet
    <2>3. sent'[c] = sent[c] + 1 /\ rx'[c] = <<sent'[c]>> /\ sent'[c] > 0 /\ sent'[c] \in Nat
        BY <1>2, <2>1, <2>2
    <2>4. ~Delivered(c, sent'[c])
        BY <1>2, <2>3 DEF SerialInv, NothingLost, Delivered
    <2>5. \A d \in Conns : d # c => rx'[d] = rx[d] /\ sent'[d] = sent[d]
        BY <1>2, <2>1
    <2>6. /\ \A t \in TaskSet : t.conn \in Conns /\ t.conn # c
          /\ \A f \in Fds : env[f] # NoEnv => env[f].conn \in Conns /\ env[f].conn # c
        BY <2>2, TasksAreTasks DEF EnvInv, Inv, TypeOK, Task, Env
    <2>7. OneAtATime'
        <3>1. \A d \in Conns :
                 rx'[d] = <<>> \/ (rx'[d] = <<sent'[d]>> /\ sent'[d] > 0 /\ ~Delivered(d, sent'[d]))
            BY <2>3, <2>4, <2>5 DEF SerialInv, OneAtATime
        <3>2. \A t \in TaskSet :
                 /\ t.data = <<sent'[t.conn]>> /\ sent'[t.conn] > 0 /\ fdtab[t.fd] = t.conn
                 /\ rx'[t.conn] = <<>> /\ ~Delivered(t.conn, sent'[t.conn])
            BY <2>5, <2>6 DEF SerialInv, OneAtATime
        <3>3. \A f \in Fds : env[f] # NoEnv =>
                 /\ env[f].n = sent'[env[f].conn] /\ fdtab[f] = env[f].conn
                 /\ rx'[env[f].conn] = <<>> /\ ~Delivered(env[f].conn, sent'[env[f].conn])
                 /\ \A t \in TaskSet : t.conn # env[f].conn
            BY <2>5, <2>6 DEF SerialInv, OneAtATime
        <3>4. /\ \A t, u \in TaskSet : t.conn = u.conn => t = u
              /\ \A f, g \in Fds :
                    env[f] # NoEnv /\ env[g] # NoEnv /\ env[f].conn = env[g].conn => f = g
            BY DEF SerialInv, OneAtATime
        <3> QED
            BY <1>1, <3>1, <3>2, <3>3, <3>4 DEF OneAtATime, Delivered
    <2>8. NothingLost'
        <3>1. \A d \in Conns : \A n \in 1 .. sent'[d] : n < sent'[d] => Delivered(d, n)
            <4> SUFFICES ASSUME NEW n \in 1 .. sent'[c], n < sent'[c] PROVE Delivered(c, n)
                BY <2>5 DEF SerialInv, NothingLost
            <4>1. n \in 1 .. sent[c]
                BY <1>2, <2>3
            <4> QED
                BY <2>1, <4>1 DEF Answered, Delivered
        <3>2. \A d \in Conns : sent'[d] > 0 =>
                 \/ rx'[d] # <<>>
                 \/ \E t \in TaskSet : t.conn = d
                 \/ \E f \in Fds : env[f] # NoEnv /\ env[f].conn = d
                 \/ Delivered(d, sent'[d])
            <4>1. rx'[c] # <<>>
                BY <2>3
            <4> QED
                BY <2>5, <4>1 DEF SerialInv, NothingLost
        <3>3. \A d \in Conns : client[d] # "open" /\ sent'[d] > 0 => Delivered(d, sent'[d])
            BY <2>1, <2>5 DEF SerialInv, NothingLost
        <3>4. \A d \in Conns : \A r \in got[d] : r.n <= sent'[d]
            <4> SUFFICES ASSUME NEW r \in got[c] PROVE r.n <= sent'[c]
                BY <2>5 DEF SerialInv, NothingLost
            <4>1. r.n \in Nat /\ r.n <= sent[c] /\ sent[c] \in Nat
                BY <1>2 DEF SerialInv, NothingLost, Env
            <4> QED
                BY <2>3, <4>1
        <3> QED
            BY <1>1, <2>1, <3>1, <3>2, <3>3, <3>4 DEF SerialInv, NothingLost, Delivered
    <2> QED
        BY <1>4, <2>7, <2>8 DEF SerialInv
<1> QED
    BY <1>5, <1>6, <1>7

LEMMA WaitSerial == ASSUME EnvInv, SerialInv, EpollWait PROVE SerialInv'
<1> DEFINE Ev(f) == [fd |-> f, conn |-> fdtab[f], env |-> env[f]]
<1>1. /\ batch' = {Ev(f) : f \in Ready} /\ TaskSet' = TaskSet
      /\ UNCHANGED <<client, sent, got, rx, eof, env, fdtab>>
    BY TaskSetSame DEF EpollWait, clientVars, socketVars
<1>2. \A ev \in batch' : ev.env = env[ev.fd]
    BY <1>1
<1> HIDE DEF Ev
<1>3. OneAtATime' /\ ResponseReachesItsClient'
    BY <1>1 DEF SerialInv, OneAtATime, ResponseReachesItsClient, Delivered
<1>4. NothingLost'
    <2>1. UNCHANGED <<client, sent, got, rx, eof, env>> /\ TaskSet' = TaskSet
        BY <1>1
    <2>2. \A ev \in batch' : ev.env # NoEnv => env'[ev.fd] = ev.env
        BY <1>2, <2>1
    <2> QED
        BY <2>1, <2>2 DEF SerialInv, NothingLost, Delivered
<1> QED
    BY <1>3, <1>4 DEF SerialInv

(* A descriptor that is given away is not one that a task or an            *)
(* environment has.                                                        *)
LEMMA AcceptSerial ==
    ASSUME EnvInv, SerialInv, OnAccept \/ OnAcceptEnd PROVE SerialInv'
<1>1. TaskSet' = TaskSet /\ UNCHANGED <<client, sent, got, rx, eof, batch>>
    BY TaskSetSame DEF OnAccept, OnAcceptEnd, clientVars, socketVars
<1>2. CASE UNCHANGED <<fdtab, env>>
    BY <1>1, <1>2 DEF SerialInv, OneAtATime, NothingLost, ResponseReachesItsClient, Delivered
<1>3. CASE OnAccept
    <2>1. PICK f \in Fds : /\ fdtab[f] = NoConn
                          /\ fdtab' = [fdtab EXCEPT ![f] = Head(backlog)]
                          /\ env' = [env EXCEPT ![f] = NoEnv]
        BY <1>3 DEF OnAccept, ArmRead
    <2>2. /\ fdtab \in [Fds -> Conns \cup {NoConn}] /\ env \in [Fds -> Env \cup {NoEnv}]
          /\ \A t \in TaskSet : t.fd \in Fds /\ t.conn \in Conns
          /\ \A g \in Fds : env[g] # NoEnv => env[g].conn \in Conns
        BY TasksAreTasks DEF EnvInv, Inv, TypeOK, Task, Env
    <2>3. \A t \in TaskSet : t.fd # f
        BY <2>1, <2>2 DEF SerialInv, OneAtATime
    <2>4. env[f] = NoEnv
        BY <2>1, <2>2 DEF SerialInv, OneAtATime
    <2>5. env' = env
        BY <2>1, <2>2, <2>4
    <2>6. \A g \in Fds : g # f => fdtab'[g] = fdtab[g]
        BY <2>1, <2>2
    <2>7. \A t \in TaskSet : fdtab'[t.fd] = t.conn
        <3>1. \A t \in TaskSet : fdtab[t.fd] = t.conn
            BY DEF SerialInv, OneAtATime
        <3> QED
            BY <2>2, <2>3, <2>6, <3>1
    <2>8. \A g \in Fds : env[g] # NoEnv => fdtab'[g] = env[g].conn
        <3>1. \A g \in Fds : env[g] # NoEnv => fdtab[g] = env[g].conn
            BY DEF SerialInv, OneAtATime
        <3> QED
            BY <2>4, <2>6, <3>1
    <2>9. OneAtATime'
        <3>1. \A t \in TaskSet :
                 /\ t.data = <<sent[t.conn]>> /\ sent[t.conn] > 0 /\ fdtab'[t.fd] = t.conn
                 /\ rx[t.conn] = <<>> /\ ~Delivered(t.conn, sent[t.conn])
            BY <2>7 DEF SerialInv, OneAtATime
        <3>2. \A g \in Fds : env[g] # NoEnv =>
                 /\ env[g].n = sent[env[g].conn] /\ fdtab'[g] = env[g].conn
                 /\ rx[env[g].conn] = <<>> /\ ~Delivered(env[g].conn, sent[env[g].conn])
                 /\ \A t \in TaskSet : t.conn # env[g].conn
            BY <2>8 DEF SerialInv, OneAtATime
        <3>3. /\ \A d \in Conns :
                    rx[d] = <<>> \/ (rx[d] = <<sent[d]>> /\ sent[d] > 0 /\ ~Delivered(d, sent[d]))
              /\ \A t, u \in TaskSet : t.conn = u.conn => t = u
              /\ \A g, h \in Fds :
                    env[g] # NoEnv /\ env[h] # NoEnv /\ env[g].conn = env[h].conn => g = h
            BY DEF SerialInv, OneAtATime
        <3> HIDE DEF EnvInv, SerialInv, TaskSet
        <3> QED
            BY <1>1, <2>5, <3>1, <3>2, <3>3 DEF OneAtATime, Delivered
    <2> QED
        BY <1>1, <2>5, <2>9 DEF SerialInv, NothingLost, ResponseReachesItsClient, Delivered
<1> QED
    BY <1>2, <1>3 DEF OnAcceptEnd, epollVars

(* A segment moves from the socket into a task.  A descriptor is closed    *)
(* when its client has closed, which then waited for nothing.              *)
LEMMA ReadSerial ==
    ASSUME EnvInv, SerialInv, NEW ev \in batch, OnHttpRead(ev)
    PROVE  SerialInv'
<1> DEFINE f == ev.fd
           c == fdtab[f]
           t == [fd |-> f, conn |-> c, data |-> rx[c]]
<1>1. /\ f \in Fds /\ c \in Conns
      /\ rx \in [Conns -> Seq(1 .. MaxSegments)] /\ sent \in [Conns -> 0 .. MaxSegments]
      /\ fdtab \in [Fds -> Conns \cup {NoConn}] /\ env \in [Fds -> Env \cup {NoEnv}]
      /\ eof \in [Conns -> {"open", "fin", "err", "hup"}]
    BY DEF EnvInv, Inv, TypeOK, BatchIsCurrent, Event
<1>2. /\ batch' = batch \ {ev} /\ ev.env = NoEnv /\ UNCHANGED <<client, sent, got>>
      /\ rx' = [rx EXCEPT ![c] = <<>>]
    BY DEF OnHttpRead, clientVars
<1>3. /\ \A u \in TaskSet : u.fd \in Fds /\ u.conn \in Conns
      /\ \A g \in Fds : env[g] # NoEnv => env[g].conn \in Conns
    BY <1>1, TasksAreTasks DEF EnvInv, Inv, TypeOK, Task, Env
<1>4. eof' = eof
    <2>1. eof[c] # "err"
        BY <1>1 DEF SerialInv, NothingLost
    <2> QED
        BY <1>1, <2>1 DEF OnHttpRead, ReportError
<1>5. rx'[c] = <<>> /\ \A d \in Conns : d # c => rx'[d] = rx[d]
    BY <1>1, <1>2
<1>6. ResponseReachesItsClient'
    BY <1>2 DEF SerialInv, ResponseReachesItsClient
<1> HIDE DEF c, f
<1>7. CASE rx[c] = <<>> /\ UNCHANGED <<queue, held, fdtab, env>>
    <2>1. TaskSet' = TaskSet /\ rx' = rx
        BY <1>1, <1>2, <1>7, TaskSetSame
    <2> QED
        BY <1>2, <1>4, <1>6, <1>7, <2>1 DEF SerialInv, OneAtATime, NothingLost, Delivered
<1>8. CASE AtEnd(c) /\ Close(f) /\ UNCHANGED <<queue, held>>
    <2>1. eof[c] = "fin" /\ client[c] = "gone"
        BY <1>1, <1>8 DEF SerialInv, NothingLost
    <2>2. sent[c] > 0 => Delivered(c, sent[c])
        BY <1>1, <2>1 DEF SerialInv, NothingLost
    <2>3. rx[c] = <<>> /\ \A u \in TaskSet : u.conn # c
        BY <1>1, <2>2 DEF SerialInv, OneAtATime
    <2>4. env[f] = NoEnv
        <3> SUFFICES ASSUME env[f] # NoEnv PROVE FALSE
            OBVIOUS
        <3>1. env[f] \in Env /\ env[f].conn = c /\ env[f].n = sent[c] /\ ~Delivered(c, sent[c])
            BY <1>1 DEF SerialInv, OneAtATime, c
        <3> QED
            BY <2>2, <3>1 DEF Env
    <2>5. env' = env /\ fdtab' = [fdtab EXCEPT ![f] = NoConn] /\ rx' = rx /\ TaskSet' = TaskSet
        BY <1>1, <1>2, <1>8, <2>3, <2>4, TaskSetSame DEF Close
    <2>6. /\ \A g \in Fds : g # f => fdtab'[g] = fdtab[g]
          /\ \A u \in TaskSet : u.fd # f
        <3>1. \A g \in Fds : g # f => fdtab'[g] = fdtab[g]
            BY <1>1, <2>5
        <3>2. \A u \in TaskSet : u.fd # f
            BY <2>3 DEF SerialInv, OneAtATime, c
        <3> QED
            BY <3>1, <3>2
    <2>7. OneAtATime'
        BY <1>2, <1>3, <2>4, <2>5, <2>6 DEF SerialInv, OneAtATime, Delivered
    <2> QED
        BY <1>2, <1>4, <1>6, <2>5, <2>7 DEF SerialInv, NothingLost, Delivered
<1>9. CASE rx[c] # <<>> /\ TaskQ!Add(t) /\ UNCHANGED <<fdtab, env>>
    <2>1. rx[c] = <<sent[c]>> /\ sent[c] > 0 /\ ~Delivered(c, sent[c])
        BY <1>1, <1>9 DEF SerialInv, OneAtATime
    <2>2. t \in Task /\ t.conn = c /\ t.fd = f /\ t.data = <<sent[c]>>
        BY <1>1, <1>9, <2>1 DEF Task
    <2> HIDE DEF t
    <2>3. TaskSet' = TaskSet \cup {t}
        BY <1>9, <2>2, TaskSetAdd DEF EnvInv
    <2>4. /\ \A u \in TaskSet : u.conn # c
          /\ \A g \in Fds : env[g] # NoEnv => env[g].conn # c
        BY <1>9 DEF SerialInv, OneAtATime
    <2>5. \A d \in Conns : rx'[d] = <<>> \/ (d # c /\ rx'[d] = rx[d])
        BY <1>5
    <2>6. OneAtATime'
        <3>1. \A d \in Conns :
                 rx'[d] = <<>> \/ (rx'[d] = <<sent[d]>> /\ sent[d] > 0 /\ ~Delivered(d, sent[d]))
            BY <2>5 DEF SerialInv, OneAtATime
        <3>2. \A u \in TaskSet' :
                 /\ u.data = <<sent[u.conn]>> /\ sent[u.conn] > 0 /\ fdtab[u.fd] = u.conn
                 /\ rx'[u.conn] = <<>> /\ ~Delivered(u.conn, sent[u.conn])
            BY <1>3, <1>5, <2>1, <2>2, <2>3, <2>4 DEF SerialInv, OneAtATime, c
        <3>3. \A u, v \in TaskSet' : u.conn = v.conn => u = v
            BY <2>2, <2>3, <2>4 DEF SerialInv, OneAtATime
        <3>4. \A g \in Fds : env[g] # NoEnv =>
                 /\ env[g].n = sent[env[g].conn] /\ fdtab[g] = env[g].conn
                 /\ rx'[env[g].conn] = <<>> /\ ~Delivered(env[g].conn, sent[env[g].conn])
                 /\ \A u \in TaskSet' : u.conn # env[g].conn
            BY <1>3, <1>5, <2>2, <2>3, <2>4 DEF SerialInv, OneAtATime
        <3>5. \A g, h \in Fds :
                 env[g] # NoEnv /\ env[h] # NoEnv /\ env[g].conn = env[h].conn => g = h
            BY DEF SerialInv, OneAtATime
        <3> QED
            BY <1>2, <1>9, <3>1, <3>2, <3>3, <3>4, <3>5 DEF OneAtATime, Delivered
    <2>7. NothingLost'
        <3>1. \A d \in Conns : sent[d] > 0 =>
                 \/ rx'[d] # <<>>
                 \/ \E u \in TaskSet' : u.conn = d
                 \/ \E g \in Fds : env[g] # NoEnv /\ env[g].conn = d
                 \/ Delivered(d, sent[d])
            BY <1>5, <2>2, <2>3 DEF SerialInv, NothingLost
        <3> QED
            BY <1>2, <1>4, <1>9, <3>1 DEF SerialInv, NothingLost, Delivered
    <2> QED
        BY <1>6, <2>6, <2>7 DEF SerialInv
<1> QED
    BY <1>7, <1>8, <1>9 DEF OnHttpRead, c, f

(* The response reaches the client that waits for it.                      *)
LEMMA WriteSerial ==
    ASSUME ClientMay = {}, EnvInv, SerialInv, NEW ev \in batch, OnWrite(ev)
    PROVE  SerialInv'
<1> DEFINE f == ev.fd
           out == ev.env
           c == fdtab[f]
<1>1. /\ f \in Fds /\ out # NoEnv /\ out.fd = f /\ out \in Env /\ env[f] = out
      /\ out.conn = c /\ c \in Conns /\ out.n = sent[c] /\ ~Delivered(c, sent[c])
      /\ rx[c] = <<>> /\ \A t \in TaskSet : t.conn # c
    <2>1. f \in Fds /\ out # NoEnv /\ out.fd = f /\ out \in Env /\ env[f] = out /\ c \in Conns
        BY DEF OnWrite, EnvInv, Inv, TypeOK, EpollSetSound, BatchIsCurrent, Event,
               SerialInv, NothingLost
    <2>2. c = fdtab[f]
        OBVIOUS
    <2> HIDE DEF f, out, c
    <2>3. /\ env[f].n = sent[env[f].conn] /\ fdtab[f] = env[f].conn
          /\ rx[env[f].conn] = <<>> /\ ~Delivered(env[f].conn, sent[env[f].conn])
          /\ \A t \in TaskSet : t.conn # env[f].conn
        BY <2>1 DEF SerialInv, OneAtATime
    <2> QED
        BY <2>1, <2>2, <2>3
<1>2. /\ got \in [Conns -> SUBSET Env] /\ env \in [Fds -> Env \cup {NoEnv}]
      /\ client \in [Conns -> {"new", "open", "gone"}] /\ eof \in [Conns -> {"open", "fin", "err", "hup"}]
      /\ sent \in [Conns -> 0 .. MaxSegments] /\ out.n \in 1 .. MaxSegments
    BY <1>1 DEF EnvInv, Inv, TypeOK, Env
<1>3. client[c] = "open"
    BY <1>1, <1>2 DEF SerialInv, NothingLost
<1>4. /\ batch' = batch \ {ev} /\ env' = [env EXCEPT ![f] = NoEnv]
      /\ got' = [got EXCEPT ![c] = got[c] \cup {out}]
      /\ UNCHANGED <<client, sent, rx, fdtab, queue, held>>
    BY <1>1, <1>3 DEF OnWrite, ArmRead
<1>5. eof' = eof
    <2>1. eof[c] # "err"
        BY <1>1 DEF SerialInv, NothingLost
    <2> QED
        BY <1>1, <1>2, <2>1 DEF OnWrite, ReportError
<1>6. /\ \A t \in TaskSet : t.conn \in Conns
      /\ \A g \in Fds : env[g] # NoEnv => env[g].conn \in Conns
    BY <1>2, TasksAreTasks DEF EnvInv, Task, Env
<1>7. TaskSet' = TaskSet
    BY <1>4, TaskSetSame
<1>8. /\ \A d \in Conns : d # c => got'[d] = got[d]
      /\ got'[c] = got[c] \cup {out}
      /\ env'[f] = NoEnv /\ \A g \in Fds : g # f => env'[g] = env[g]
    BY <1>1, <1>2, <1>4
<1>9. \A g \in Fds : g # f /\ env[g] # NoEnv => env[g].conn # c
    <2> HIDE DEF f, out, c
    <2>1. \A g, h \in Fds :
             env[g] # NoEnv /\ env[h] # NoEnv /\ env[g].conn = env[h].conn => g = h
        BY DEF SerialInv, OneAtATime
    <2>2. f \in Fds /\ env[f] # NoEnv /\ env[f].conn = c
        BY <1>1
    <2> HIDE DEF SerialInv, EnvInv
    <2> QED
        BY <2>1, <2>2
<1>10. \A ev2 \in batch' : ev2.fd # f
    BY <1>4 DEF EnvInv, Inv, EpollSetSound
<1> HIDE DEF f, c, out
<1>11. ResponseReachesItsClient'
    BY <1>1, <1>8 DEF SerialInv, ResponseReachesItsClient
<1>12. OneAtATime'
    <2>1. \A d \in Conns : d # c => \A n : Delivered(d, n)' = Delivered(d, n)
        BY <1>8 DEF Delivered
    <2>2. \A d \in Conns : rx[d] = <<>> \/ d # c
        BY <1>1
    <2>3. /\ \A d \in Conns :
                rx[d] = <<>> \/ (rx[d] = <<sent[d]>> /\ sent[d] > 0 /\ ~Delivered(d, sent[d])')
          /\ \A t \in TaskSet : ~Delivered(t.conn, sent[t.conn])'
          /\ \A g \in Fds : g # f /\ env[g] # NoEnv => ~Delivered(env[g].conn, sent[env[g].conn])'
        BY <1>1, <1>4, <1>6, <1>8, <1>9, <2>2 DEF SerialInv, OneAtATime, Delivered
    <2> QED
        BY <1>4, <1>7, <1>8, <2>3 DEF SerialInv, OneAtATime, Delivered
<1>13. NothingLost'
    <2>1. \E r \in got'[c] : r.conn = c /\ r.n = sent[c]
        BY <1>1, <1>8
    <2>2. \A d \in Conns : \A n : Delivered(d, n) => (\E r \in got'[d] : r.conn = d /\ r.n = n)
        BY <1>8 DEF Delivered
    <2>3. \A d \in Conns : sent[d] > 0 =>
             \/ rx[d] # <<>>
             \/ \E t \in TaskSet : t.conn = d
             \/ \E g \in Fds : env'[g] # NoEnv /\ env'[g].conn = d
             \/ \E r \in got'[d] : r.conn = d /\ r.n = sent[d]
        <3> SUFFICES ASSUME NEW d \in Conns, sent[d] > 0, d # c
                     PROVE  \/ rx[d] # <<>>
                            \/ \E t \in TaskSet : t.conn = d
                            \/ \E g \in Fds : env'[g] # NoEnv /\ env'[g].conn = d
                            \/ \E r \in got'[d] : r.conn = d /\ r.n = sent[d]
            BY <2>1
        <3>1. \A g \in Fds : env[g] # NoEnv /\ env[g].conn = d => g # f
            BY <1>1
        <3> QED
            BY <1>8, <2>2, <3>1 DEF SerialInv, NothingLost
    <2>4. \A d \in Conns : \A r \in got'[d] : r.n <= sent[d]
        BY <1>1, <1>2, <1>8 DEF SerialInv, NothingLost
    <2>5. \A ev2 \in batch' : ev2.env # NoEnv => env'[ev2.fd] = ev2.env
        <3>1. \A ev2 \in batch' : ev2 \in batch /\ ev2.fd \in Fds /\ ev2.fd # f
            BY <1>4, <1>10 DEF EnvInv, Inv, TypeOK, Event
        <3> QED
            BY <1>8, <3>1 DEF SerialInv, NothingLost
    <2> QED
        BY <1>4, <1>5, <1>7, <2>2, <2>3, <2>4, <2>5 DEF SerialInv, NothingLost, Delivered
<1> QED
    BY <1>11, <1>12, <1>13 DEF SerialInv

LEMMA TakeSerial ==
    ASSUME EnvInv, SerialInv, NEW w \in Workers, GetTask(w) PROVE SerialInv'
<1>1. TaskSet' = TaskSet
    BY TaskSetTake DEF GetTask, EnvInv
<1> QED
    BY <1>1 DEF GetTask, clientVars, socketVars, epollVars, batchVars,
                SerialInv, OneAtATime, NothingLost, ResponseReachesItsClient, Delivered

(* The environment takes the place of the task, and no other's place: its  *)
(* descriptor had none.                                                    *)
LEMMA RunSerial ==
    ASSUME EnvInv, SerialInv, NEW w \in Workers, RunTask(w) PROVE SerialInv'
<1> DEFINE t == held[w]
           f == t.fd
           c == t.conn
           e == [fd |-> f, conn |-> c, n |-> Head(t.data)]
<1>1. TaskSet' = TaskSet \ {t} /\ t \in TaskSet
    BY TaskSetFinish DEF RunTask
<1>2. t \in Task /\ f \in Fds /\ c \in Conns /\ NoConn \notin Conns
    BY <1>1, TasksAreTasks DEF EnvInv, Task
<1>3. /\ t.data = <<sent[c]>> /\ sent[c] > 0 /\ fdtab[f] = c /\ rx[c] = <<>>
      /\ ~Delivered(c, sent[c])
    BY <1>1 DEF SerialInv, OneAtATime
<1>4. e.conn = c /\ e.n = sent[c] /\ e \in Env
    <2>1. Head(t.data) = sent[c] /\ Head(t.data) \in 1 .. MaxSegments
        BY <1>2, <1>3, HeadTailProperties DEF Task
    <2> QED
        BY <1>2, <2>1 DEF Env
<1>5. env' = [env EXCEPT ![f] = e] /\ UNCHANGED <<client, sent, got, rx, eof, fdtab, batch>>
    BY <1>2, <1>3 DEF RunTask, ArmWrite, clientVars, socketVars, batchVars
<1>6. \A u \in TaskSet' : u \in TaskSet /\ u.conn # c
    BY <1>1 DEF SerialInv, OneAtATime
<1>7. \A g \in Fds : env[g] # NoEnv => env[g].conn # c /\ g # f
    <2>1. \A g \in Fds : env[g] # NoEnv => env[g].conn # c
        BY <1>1 DEF SerialInv, OneAtATime
    <2>2. fdtab[f] = c /\ f \in Fds
        BY <1>2, <1>3
    <2> HIDE DEF f, c, t
    <2>3. env[f] = NoEnv
        BY <2>1, <2>2 DEF SerialInv, OneAtATime
    <2> QED
        BY <2>1, <2>3
<1>8. /\ env'[f] = e /\ e # NoEnv
      /\ \A g \in Fds : g # f => env'[g] = env[g]
    BY <1>2, <1>4, <1>5 DEF EnvInv, Inv, TypeOK
<1> HIDE DEF e, f, c, t
<1>9. OneAtATime'
    <2>1. \A g \in Fds : env'[g] # NoEnv =>
             /\ env'[g].n = sent[env'[g].conn] /\ fdtab[g] = env'[g].conn
             /\ rx[env'[g].conn] = <<>> /\ ~Delivered(env'[g].conn, sent[env'[g].conn])
             /\ \A u \in TaskSet' : u.conn # env'[g].conn
        <3> SUFFICES ASSUME NEW g \in Fds, env'[g] # NoEnv
                     PROVE  /\ env'[g].n = sent[env'[g].conn] /\ fdtab[g] = env'[g].conn
                            /\ rx[env'[g].conn] = <<>>
                            /\ ~Delivered(env'[g].conn, sent[env'[g].conn])
                            /\ \A u \in TaskSet' : u.conn # env'[g].conn
            OBVIOUS
        <3>1. CASE g = f
            BY <1>3, <1>4, <1>6, <1>8, <3>1
        <3>2. CASE g # f
            BY <1>6, <1>8, <3>2 DEF SerialInv, OneAtATime
        <3> QED
            BY <3>1, <3>2
    <2>2. \A g, h \in Fds :
             env'[g] # NoEnv /\ env'[h] # NoEnv /\ env'[g].conn = env'[h].conn => g = h
        BY <1>4, <1>7, <1>8 DEF SerialInv, OneAtATime
    <2> QED
        BY <1>5, <1>6, <2>1, <2>2 DEF SerialInv, OneAtATime, Delivered
<1>10. NothingLost'
    <2>1. \A d \in Conns : sent[d] > 0 =>
             \/ rx[d] # <<>>
             \/ \E u \in TaskSet' : u.conn = d
             \/ \E g \in Fds : env'[g] # NoEnv /\ env'[g].conn = d
             \/ Delivered(d, sent[d])
        <3> SUFFICES ASSUME NEW d \in Conns, sent[d] > 0
                     PROVE  \/ rx[d] # <<>>
                            \/ \E u \in TaskSet' : u.conn = d
                            \/ \E g \in Fds : env'[g] # NoEnv /\ env'[g].conn = d
                            \/ Delivered(d, sent[d])
            OBVIOUS
        <3>1. CASE d = c
            BY <1>2, <1>4, <1>8, <3>1
        <3>2. CASE d # c
            <4>1. \A u \in TaskSet : u.conn = d => u \in TaskSet'
                BY <1>1, <3>2 DEF c
            <4>2. \A g \in Fds : env[g] # NoEnv => env'[g] = env[g]
                BY <1>7, <1>8
            <4> QED
                BY <4>1, <4>2 DEF SerialInv, NothingLost
        <3> QED
            BY <3>1, <3>2
    <2>2. \A ev \in batch : ev.env # NoEnv => env'[ev.fd] = ev.env
        <3>1. \A ev \in batch : ev.fd \in Fds
            BY DEF EnvInv, Inv, TypeOK, Event
        <3> QED
            BY <1>7, <1>8, <3>1 DEF SerialInv, NothingLost
    <2> QED
        BY <1>5, <2>1, <2>2 DEF SerialInv, NothingLost, Delivered
<1> QED
    BY <1>5, <1>9, <1>10 DEF SerialInv, ResponseReachesItsClient

LEMMA SerialInvariant == ASSUME ClientMay = {} PROVE Spec => [](EnvInv /\ SerialInv)
<1>1. ASSUME EnvInv, SerialInv, [Next]_vars PROVE SerialInv'
    <2>1. CASE UNCHANGED vars
        <3>1. UNCHANGED <<client, sent, got, rx, eof, fdtab, env, batch, queue, held>>
            BY <2>1 DEF vars
        <3>2. TaskSet' = TaskSet
            BY <3>1, TaskSetSame
        <3> QED
            BY <1>1, <3>1, <3>2
               DEF SerialInv, OneAtATime, NothingLost, ResponseReachesItsClient, Delivered
    <2>2. CASE Next
        BY <1>1, <2>2, ClientSerial, WaitSerial, AcceptSerial, ReadSerial, WriteSerial,
           TakeSerial, RunSerial DEF Next, Main, Worker
    <2> QED
        BY <1>1, <2>1, <2>2
<1>2. Init => SerialInv
    BY SerialInit
<1> QED
    BY EnvInvariant, <1>1, <1>2, PTL DEF Spec

(* Whatever the interleaving of batch and workers, and however descriptors *)
(* are reused, a client that waits for its answers gets those to its own   *)
(* requests only (epoll.cpp 34-79, req_task.cpp 44-63).                    *)
THEOREM ResponseReachesItsClientCorrect ==
    ASSUME ClientMay = {} PROVE Spec => []ResponseReachesItsClient
<1>1. SerialInv => ResponseReachesItsClient
    BY DEF SerialInv
<1> QED
    BY <1>1, SerialInvariant, PTL

(* A segment of a client that waits is in one place from the send to the   *)
(* answer: in the socket, in a task, in an environment, or answered        *)
(* (server.cpp 105-146, req_task.cpp 44-63, epoll.cpp 52-79).              *)
THEOREM SegmentsConservedCorrect ==
    ASSUME ClientMay = {} PROVE Spec => []SegmentsConserved
<1>1. EnvInv /\ SerialInv => SegmentsConserved
    <2> SUFFICES ASSUME EnvInv, SerialInv, NEW c \in Conns, NEW n \in 1 .. sent[c]
                 PROVE  LET at == [socket |-> InSocket(c, n), task |-> InTask(c, n),
                                   env |-> InEnv(c, n), client |-> Delivered(c, n)]
                        IN  \E k \in DOMAIN at : \A j \in DOMAIN at : at[j] <=> j = k
        BY DEF SegmentsConserved
    <2>1. /\ sent[c] \in Nat /\ n \in Nat /\ n <= sent[c] /\ sent[c] > 0
          /\ rx[c] \in Seq(1 .. MaxSegments)
        BY DEF EnvInv, Inv, TypeOK
    <2>2. InSocket(c, n) <=> rx[c] # <<>> /\ n = sent[c]
        BY <2>1 DEF SerialInv, OneAtATime, InSocket
    <2>3. InTask(c, n) <=> n = sent[c] /\ \E t \in TaskSet : t.conn = c
        <3>1. InTask(c, n) <=> \E t \in TaskSet : t.conn = c /\ \E i \in 1 .. Len(t.data) : t.data[i] = n
            BY DEF InTask, TaskSet
        <3>2. \A t \in TaskSet : t.conn = c => ((\E i \in 1 .. Len(t.data) : t.data[i] = n) <=> n = sent[c])
            BY DEF SerialInv, OneAtATime
        <3> QED
            BY <3>1, <3>2
    <2>4. InEnv(c, n) <=> n = sent[c] /\ \E f \in Fds : env[f] # NoEnv /\ env[f].conn = c
        BY DEF SerialInv, OneAtATime, InEnv
    <2>5. n # sent[c] => Delivered(c, n)
        BY <2>1 DEF SerialInv, NothingLost
    <2>6. \/ rx[c] # <<>>
          \/ \E t \in TaskSet : t.conn = c
          \/ \E f \in Fds : env[f] # NoEnv /\ env[f].conn = c
          \/ Delivered(c, sent[c])
        BY <2>1 DEF SerialInv, NothingLost
    <2>7. /\ rx[c] # <<>> =>
                /\ \A t \in TaskSet : t.conn # c
                /\ \A f \in Fds : env[f] # NoEnv => env[f].conn # c
                /\ ~Delivered(c, sent[c])
          /\ \A t \in TaskSet : t.conn = c =>
                /\ \A f \in Fds : env[f] # NoEnv => env[f].conn # c
                /\ ~Delivered(c, sent[c])
          /\ \A f \in Fds : env[f] # NoEnv /\ env[f].conn = c => ~Delivered(c, sent[c])
        BY DEF SerialInv, OneAtATime
    <2>8. \/ InSocket(c, n) /\ ~InTask(c, n) /\ ~InEnv(c, n) /\ ~Delivered(c, n)
          \/ ~InSocket(c, n) /\ InTask(c, n) /\ ~InEnv(c, n) /\ ~Delivered(c, n)
          \/ ~InSocket(c, n) /\ ~InTask(c, n) /\ InEnv(c, n) /\ ~Delivered(c, n)
          \/ ~InSocket(c, n) /\ ~InTask(c, n) /\ ~InEnv(c, n) /\ Delivered(c, n)
        <3> DEFINE sock == rx[c] # <<>>
                   task == \E t \in TaskSet : t.conn = c
                   out == \E f \in Fds : env[f] # NoEnv /\ env[f].conn = c
        <3>1. CASE n # sent[c]
            BY <2>2, <2>3, <2>4, <2>5, <3>1
        <3>2. CASE n = sent[c]
            <4>1. /\ InSocket(c, n) <=> sock
                  /\ InTask(c, n) <=> task
                  /\ InEnv(c, n) <=> out
                BY <2>2, <2>3, <2>4, <3>2
            <4>2. sock \/ task \/ out \/ Delivered(c, sent[c])
                BY <2>6
            <4>3. sock => ~task /\ ~out /\ ~Delivered(c, sent[c])
                BY <2>7
            <4>4. task => ~out /\ ~Delivered(c, sent[c])
                BY <2>7
            <4>5. out => ~Delivered(c, sent[c])
                BY <2>7
            <4>6. Delivered(c, n) <=> Delivered(c, sent[c])
                BY <3>2
            <4> HIDE DEF sock, task, out
            <4> QED
                BY <4>1, <4>2, <4>3, <4>4, <4>5, <4>6
        <3> QED
            BY <3>1, <3>2
    <2> QED
        BY <2>8
<1> QED
    BY <1>1, SerialInvariant, PTL
=============================================================================
