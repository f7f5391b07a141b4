---------------------------- MODULE EpollServer ----------------------------
(***************************************************************************)
(* The server at work: SubServer (io/server.cpp) and SubEpollEvent         *)
(* (io/epoll.cpp) on the main thread, ReqTask (task/req_task.cpp) on the   *)
(* worker threads, the task queue between them (TaskQueue, which TaskMgr   *)
(* implements), and around them the kernel's epoll set and file            *)
(* descriptors, and the clients.                                           *)
(*                                                                         *)
(* A client sends segments; the server turns what one read finds into one  *)
(* task, and the response of a task answers its first segment.  The main   *)
(* thread takes a batch of events from epoll_wait and handles them one by  *)
(* one; in the meantime the workers change the very epoll set (_event_mod) *)
(* that the batch was taken from, with nothing but a descriptor number     *)
(* that may have been closed, or closed and given to another client.       *)
(*                                                                         *)
(* The kernel keeps what the code relies on: an edge-triggered descriptor  *)
(* is reported once for each arrival, EPOLL_CTL_ADD and EPOLL_CTL_MOD look *)
(* at what is already there, and accept gives the lowest free number.      *)
(***************************************************************************)
EXTENDS Naturals, Sequences, FiniteSets

CONSTANTS
    Conns,          \* the connections clients will make
    Fds,            \* bound: the descriptors left for connections, numbers
    Workers,        \* the threads of the pool
    MaxSegments,    \* bound: segments per connection
    ClientMay,      \* what clients do besides send, wait for the answer, close
    NoConn, NoTask, NoEnv

(* pipeline: send a segment before the previous one is answered: the next  *)
(*           request, or the rest of one that was split                    *)
(* abandon:  close before the answer has come (a client's timeout)         *)
(* reset:    abort the connection                                          *)
(* slow:     leave the server's send buffer too full for a whole response  *)
ASSUME EpollAssumption ==
    /\ Fds \subseteq Nat
    /\ MaxSegments \in Nat
    /\ ClientMay \subseteq {"pipeline", "abandon", "reset", "slow"}
    /\ NoConn \notin Conns

(* What a read found on descriptor fd when it belonged to conn.  The code  *)
(* knows only fd; conn is there for the properties.                        *)
Task == {t \in [fd : Fds, conn : Conns, data : Seq(1 .. MaxSegments)] : t.data # <<>>}

(* SUB_EPOLL_OUT_ENV: the response to segment n of conn, to be sent to fd. *)
Env == [fd : Fds, conn : Conns, n : 1 .. MaxSegments]

(* An element of _epl_evt_set: with NoEnv EPOLLIN and data.fd, otherwise   *)
(* EPOLLOUT and data.ptr.  conn is there for the properties.               *)
Event == [fd : Fds, conn : Conns, env : Env \cup {NoEnv}]

ASSUME NullAssumption == NoTask \notin Task /\ NoEnv \notin Env

VARIABLES
    client,     \* conn -> "new", "open" or "gone"
    sent,       \* conn -> segments sent
    got,        \* conn -> the responses its client received
    rx,         \* conn -> segments in the socket, not read yet
    eof,        \* conn -> what recv returns behind them: "open" EAGAIN,
                \*   "fin" 0, "err" an error, "hup" 0 after that error
    backlog,    \* connections made and not accepted
    fdtab,      \* fd -> the connection it is open on, or NoConn
    mode,       \* fd -> its epoll registration: "none", "in" or "out"
    env,        \* fd -> data.ptr of its registration, NoEnv if none
    edge,       \* descriptors with an edge that was not reported yet
    svr_edge,   \* the same for the listening socket
    batch,      \* the events of _epl_evt_set still to be handled
    accepting,  \* the listening socket's event: "no" there is none, "reported"
                \*   it is still to be handled, "looping" inside its handler
    queue, held,        \* the task queue
    freed,      \* the environments that were deleted
    emfile      \* the last accept loop ended for want of a descriptor

vars == <<client, sent, got, rx, eof, backlog, fdtab, mode, env, edge, svr_edge,
          batch, accepting, queue, held, freed, emfile>>

clientVars == <<client, sent, got>>
socketVars == <<rx, eof, backlog>>
epollVars  == <<fdtab, mode, env, edge, svr_edge>>
batchVars  == <<batch, accepting>>

TaskQ == INSTANCE TaskQueue WITH Tasks <- Task

Init ==
    /\ client = [c \in Conns |-> "new"]
    /\ sent = [c \in Conns |-> 0]
    /\ got = [c \in Conns |-> {}]
    /\ rx = [c \in Conns |-> <<>>]
    /\ eof = [c \in Conns |-> "open"]
    /\ backlog = <<>>
    /\ fdtab = [f \in Fds |-> NoConn]
    /\ mode = [f \in Fds |-> "none"]
    /\ env = [f \in Fds |-> NoEnv]
    /\ edge = {}
    /\ svr_edge = FALSE
    /\ batch = {}
    /\ accepting = "no"
    /\ TaskQ!Init
    /\ freed = {}
    /\ emfile = FALSE

-----------------------------------------------------------------------------
(* Clients (client/client.cpp sends a request, waits for the answer and    *)
(* closes) and what their segments do to the epoll set.                    *)

FdOf(c) == {f \in Fds : fdtab[f] = c}

(* Something arrives for c: an edge, if its descriptor waits for input.    *)
Arrival(c) == edge' = edge \cup {f \in FdOf(c) : mode[f] = "in"}

Answered(c) == \A n \in 1 .. sent[c] : \E r \in got[c] : r.conn = c /\ r.n = n

Connect(c) ==
    /\ client[c] = "new"
    /\ client' = [client EXCEPT ![c] = "open"]
    /\ backlog' = Append(backlog, c)
    /\ svr_edge' = TRUE
    /\ UNCHANGED <<sent, got, rx, eof, fdtab, mode, env, edge, batchVars, queue, held, freed, emfile>>

Send(c) ==
    /\ client[c] = "open"
    /\ sent[c] < MaxSegments
    /\ Answered(c) \/ "pipeline" \in ClientMay
    /\ sent' = [sent EXCEPT ![c] = @ + 1]
    /\ rx' = [rx EXCEPT ![c] = Append(@, sent'[c])]
    /\ Arrival(c)
    /\ UNCHANGED <<client, got, eof, backlog, fdtab, mode, env, svr_edge, batchVars, queue, held, freed, emfile>>

Leave(c) ==
    /\ client[c] = "open"
    /\ client' = [client EXCEPT ![c] = "gone"]
    /\ \/ /\ Answered(c) \/ "abandon" \in ClientMay
          /\ eof' = [eof EXCEPT ![c] = "fin"]
       \/ /\ "reset" \in ClientMay
          /\ eof' = [eof EXCEPT ![c] = "err"]
    /\ Arrival(c)
    /\ UNCHANGED <<sent, got, rx, backlog, fdtab, mode, env, svr_edge, batchVars, queue, held, freed, emfile>>

-----------------------------------------------------------------------------
(* The kernel's epoll set.                                                 *)

(* recv on c has something to report.                                      *)
Readable(c) == rx[c] # <<>> \/ eof[c] # "open"

(* The error of a reset connection is reported once, by recv or send.      *)
ReportError(c) == eof' = [eof EXCEPT ![c] = IF @ = "err" THEN "hup" ELSE @]

(* _event_add and _event_mod(fd, EPOLLIN | EPOLLET): the descriptor is     *)
(* looked at again, so what has arrived before makes an edge.              *)
ArmRead(f, c) ==
    /\ mode' = [mode EXCEPT ![f] = "in"]
    /\ env' = [env EXCEPT ![f] = NoEnv]
    /\ edge' = IF Readable(c) THEN edge \cup {f} ELSE edge \ {f}

(* _event_mod(fd, EPOLLOUT, out_env): no EPOLLET, and data.ptr takes the   *)
(* place of data.fd.  It fails silently when fd is not open.               *)
ArmWrite(f, e) ==
    IF fdtab[f] = NoConn
    THEN UNCHANGED <<mode, env, edge>>
    ELSE /\ mode' = [mode EXCEPT ![f] = "out"]
         /\ env' = [env EXCEPT ![f] = e]
         /\ edge' = edge \ {f}

(* What epoll_wait reports.  A socket is always ready for output.          *)
Ready == {f \in Fds : mode[f] = "out" \/ f \in edge}

-----------------------------------------------------------------------------
(* The main thread: _event_loop.                                           *)

EpollWait ==
    /\ batch = {} /\ accepting = "no"
    /\ Ready # {} \/ svr_edge
    /\ batch' = {[fd |-> f, conn |-> fdtab[f], env |-> env[f]] : f \in Ready}
    /\ accepting' = IF svr_edge THEN "reported" ELSE "no"
    /\ edge' = {}
    /\ svr_edge' = FALSE
    /\ UNCHANGED <<clientVars, socketVars, fdtab, mode, env, queue, held, freed, emfile>>

(* After an accept the handler tries the next one (84).                    *)
AfterAccept_If == "no"          \* mutant: `if' instead of `while'
AfterAccept == "looping"

(* _on_accept, one turn of its loop.                                       *)
OnAccept ==
    /\ accepting # "no"
    /\ backlog # <<>>
    /\ \E f \in Fds :
        /\ fdtab[f] = NoConn
        /\ \A g \in Fds : fdtab[g] = NoConn => f <= g
        /\ fdtab' = [fdtab EXCEPT ![f] = Head(backlog)]
        /\ ArmRead(f, Head(backlog))
    /\ backlog' = Tail(backlog)
    /\ accepting' = AfterAccept
    /\ UNCHANGED <<clientVars, rx, eof, svr_edge, batch, queue, held, freed, emfile>>

(* The loop ends when accept fails: EAGAIN, or no descriptor is left.      *)
OnAcceptEnd ==
    /\ accepting # "no"
    /\ backlog = <<>> \/ NoConn \notin {fdtab[f] : f \in Fds}
    /\ emfile' = (backlog # <<>>)
    /\ accepting' = "no"
    /\ UNCHANGED <<clientVars, socketVars, epollVars, batch, queue, held, freed>>

(* _on_http_read returned READ_FAIL: delete from the epoll set and close.  *)
Close(f) ==
    /\ fdtab' = [fdtab EXCEPT ![f] = NoConn]
    /\ mode' = [mode EXCEPT ![f] = "none"]
    /\ env' = [env EXCEPT ![f] = NoEnv]
    /\ edge' = edge \ {f}

(* The segments recv leaves in the socket.                                 *)
Unread_Last(c) == IF rx[c] = <<>> THEN <<>> ELSE <<rx[c][Len(rx[c])]>>  \* mutant
Unread(c) == <<>>

AtEnd(c) == eof[c] \in {"fin", "hup"}

(* _on_http_read: recv until it returns no data.  A 0 drops what was read  *)
(* before and closes; EAGAIN and any error make a task of it, if there is  *)
(* any, and return READ_OK.                                                *)
OnHttpRead(ev) ==
    LET f == ev.fd
        c == fdtab[f]
    IN  /\ ev \in batch
        /\ ev.env = NoEnv
        /\ batch' = batch \ {ev}
        /\ rx' = [rx EXCEPT ![c] = Unread(c)]
        /\ ReportError(c)
        /\ \/ /\ AtEnd(c)
              /\ Close(f)
              /\ UNCHANGED <<queue, held>>
           \/ /\ ~AtEnd(c)
              /\ IF rx[c] # <<>>
                 THEN TaskQ!Add([fd |-> f, conn |-> c, data |-> rx[c]])
                 ELSE UNCHANGED <<queue, held>>
              /\ UNCHANGED <<fdtab, mode, env, edge>>
        /\ UNCHANGED <<clientVars, backlog, svr_edge, accepting, freed, emfile>>

(* Mutant: when send would block the response is given up.                 *)
SendOnce_GiveUp(c, out) == UNCHANGED got
SendOnce(c, out) ==
    \/ got' = [got EXCEPT ![c] = IF client[c] = "open" THEN @ \cup {out} ELSE @]
    \/ "slow" \in ClientMay /\ UNCHANGED got

(* Mutant: the environment is deleted but stays in the epoll set.          *)
BackToRead_No(f, c) == UNCHANGED <<mode, env, edge>>
BackToRead(f, c) == ArmRead(f, c)

(* The EPOLLOUT branch: send once (a short write ends the loop), go back   *)
(* to reading, delete the environment.                                     *)
OnWrite(ev) ==
    LET out == ev.env
        c == fdtab[out.fd]
    IN  /\ ev \in batch
        /\ out # NoEnv
        /\ batch' = batch \ {ev}
        /\ SendOnce(c, out)
        /\ BackToRead(out.fd, c)
        /\ freed' = freed \cup {out}
        /\ ReportError(c)
        /\ UNCHANGED <<client, sent, rx, backlog, fdtab, svr_edge, accepting, queue, held, emfile>>

Main ==
    \/ EpollWait
    \/ OnAccept
    \/ OnAcceptEnd
    \/ accepting # "looping" /\ \E ev \in batch : OnHttpRead(ev) \/ OnWrite(ev)

-----------------------------------------------------------------------------
(* A worker thread: _get_task, then ReqTask::_run.                         *)

GetTask(w) ==
    /\ TaskQ!Take(w)
    /\ UNCHANGED <<clientVars, socketVars, epollVars, batchVars, freed, emfile>>

(* The response, for the descriptor of the task, goes into the epoll set.  *)
TaskFd_Last(w) == IF queue # <<>> THEN queue[Len(queue)].fd ELSE held[w].fd     \* mutant
TaskFd(w) == held[w].fd

HandBack_Closes(w) == Close(held[w].fd)     \* mutant: the worker closes itself
HandBack(w) ==
    /\ ArmWrite(TaskFd(w),
                [fd |-> TaskFd(w), conn |-> held[w].conn, n |-> Head(held[w].data)])
    /\ UNCHANGED fdtab

(* The response is handed back through the epoll set, and the task deleted.*)
RunTask(w) ==
    /\ held[w] # NoTask
    /\ HandBack(w)
    /\ TaskQ!Finish(w)
    /\ UNCHANGED <<clientVars, socketVars, svr_edge, batchVars, freed, emfile>>

Worker(w) == GetTask(w) \/ RunTask(w)

-----------------------------------------------------------------------------
Next ==
    \/ \E c \in Conns : Connect(c) \/ Send(c) \/ Leave(c)
    \/ Main
    \/ \E w \in Workers : Worker(w)

(* The main thread and the workers keep running.                           *)
Fairness ==
    /\ WF_vars(Main)
    /\ \A w \in Workers : WF_vars(Worker(w))

Spec == Init /\ [][Next]_vars /\ Fairness

-----------------------------------------------------------------------------
(* Properties *)

TypeOK ==
    /\ client \in [Conns -> {"new", "open", "gone"}]
    /\ sent \in [Conns -> 0 .. MaxSegments]
    /\ got \in [Conns -> SUBSET Env]
    /\ rx \in [Conns -> Seq(1 .. MaxSegments)]
    /\ eof \in [Conns -> {"open", "fin", "err", "hup"}]
    /\ backlog \in Seq(Conns)
    /\ fdtab \in [Fds -> Conns \cup {NoConn}]
    /\ mode \in [Fds -> {"none", "in", "out"}]
    /\ env \in [Fds -> Env \cup {NoEnv}]
    /\ edge \subseteq Fds
    /\ svr_edge \in BOOLEAN
    /\ batch \subseteq Event
    /\ accepting \in {"no", "reported", "looping"}
    /\ queue \in Seq(Task)
    /\ held \in [Workers -> Task \cup {NoTask}]
    /\ freed \subseteq Env
    /\ emfile \in BOOLEAN

(* The main thread never handles an event of a descriptor that was closed, *)
(* or given to another client, after epoll_wait reported it: only it       *)
(* closes, and a batch has one event per descriptor (epoll.cpp 34-47).     *)
BatchIsCurrent == \A ev \in batch : fdtab[ev.fd] = ev.conn

(* An environment is deleted once, and then neither the epoll set nor the  *)
(* batch points to it (epoll.cpp 74-79).                                   *)
EnvAliveWhenUsed ==
    /\ \A f \in Fds : env[f] \notin freed
    /\ \A ev \in batch : ev.env \notin freed

(* Edge-triggered input is never left unread: what has arrived on a        *)
(* descriptor that waits for input is about to be reported, or is in the   *)
(* batch (server.cpp 105-134, epoll.cpp 74).                               *)
InputIsReported ==
    \A f \in Fds :
        mode[f] = "in" /\ (rx[fdtab[f]] # <<>> \/ eof[fdtab[f]] \in {"fin", "err"})
            => f \in edge \/ \E ev \in batch : ev.fd = f /\ ev.env = NoEnv

(* A connection waits in the backlog without an event to come only after   *)
(* the last accept loop has run out of descriptors (server.cpp 84-93).     *)
BacklogIsReported == backlog # <<>> => svr_edge \/ accepting # "no" \/ emfile

(* Where segment n of c is: in the socket, in a task, in an environment.   *)
InSocket(c, n) == \E i \in 1 .. Len(rx[c]) : rx[c][i] = n
InTask(c, n) ==
    LET Has(t) == t.conn = c /\ \E i \in 1 .. Len(t.data) : t.data[i] = n
    IN  \/ \E i \in 1 .. Len(queue) : Has(queue[i])
        \/ \E w \in Workers : held[w] # NoTask /\ Has(held[w])
InEnv(c, n) == \E f \in Fds : env[f] # NoEnv /\ env[f].conn = c /\ env[f].n = n
Delivered(c, n) == \E r \in got[c] : r.conn = c /\ r.n = n

(* A client that waits for its answers never has a segment dropped or      *)
(* answered twice: it is in one place from the send to the answer.         *)
SegmentsConserved ==
    \A c \in Conns : \A n \in 1 .. sent[c] :
        LET at == [socket |-> InSocket(c, n), task |-> InTask(c, n),
                   env |-> InEnv(c, n), client |-> Delivered(c, n)]
        IN  \E k \in DOMAIN at : \A j \in DOMAIN at : at[j] <=> j = k

(* A client receives the responses to its own requests only: "the response *)
(* data should be" (README.md 41-51) the one of the uri it visited.        *)
ResponseReachesItsClient == \A c \in Conns : \A r \in got[c] : r.conn = c

(* Every segment of a connection that was accepted is answered, if the     *)
(* clients wait for their answers.  (BacklogIsReported is about the        *)
(* connections that are still to be accepted.)                             *)
EverySegmentAnswered ==
    \A c \in Conns : \A n \in 1 .. MaxSegments :
        FdOf(c) # {} /\ sent[c] >= n ~> Delivered(c, n)

=============================================================================
