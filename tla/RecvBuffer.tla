----------------------------- MODULE RecvBuffer -----------------------------
(***************************************************************************)
(* The arithmetic of RECV_DATA (io/event.h, recv_buf) in the loop of       *)
(* SubServer::_on_http_read (io/server.cpp): every recv may write Chunk    *)
(* bytes behind the buf_len bytes it already holds, a NUL is put behind    *)
(* them, and the buffer is doubled when the next recv might not fit.  The  *)
(* lengths are ints, at most MaxInt.                                       *)
(***************************************************************************)
EXTENDS Integers

CONSTANTS
    InitCap,        \* 4096
    Chunk,          \* 1024, the size given to recv
    MaxRequest,     \* bound: the bytes a client sends in one go
    MaxInt          \* the largest int

ASSUME BufferAssumption ==
    /\ InitCap \in Nat /\ Chunk \in Nat /\ MaxRequest \in Nat /\ MaxInt \in Nat
    /\ 0 < Chunk /\ Chunk < InitCap
    /\ InitCap <= MaxInt
    /\ 2 * (MaxRequest + Chunk) <= MaxInt

VARIABLES
    buf_len,    \* bytes received
    buf_cap,    \* what the code takes for the size of buf
    alloc,      \* the bytes that were allocated for buf
    nul,        \* the index the last '\0' was written to, -1 if none was
    state       \* "recv", "got" after a recv that returned data, "done"

vars == <<buf_len, buf_cap, alloc, nul, state>>

Init ==
    /\ buf_len = 0
    /\ buf_cap = InitCap
    /\ alloc = InitCap
    /\ nul = -1
    /\ state = "recv"

(* new char[buf_cap * 2], memcpy, buf_cap *= 2; on overflow the product    *)
(* wraps around.                                                           *)
Doubled == IF buf_cap * 2 <= MaxInt THEN buf_cap * 2 ELSE buf_cap * 2 - 2 * (MaxInt + 1)

(* recv returned n > 0 bytes (109, 127).                                   *)
Recv(n) ==
    /\ state = "recv"
    /\ buf_len + n <= MaxRequest
    /\ buf_len' = buf_len + n
    /\ state' = "got"
    /\ UNCHANGED <<buf_cap, alloc, nul>>

(* The next recv might not fit (130).                                      *)
MustGrow_WhenFull == buf_len >= buf_cap     \* mutant: only when it is full
MustGrow_Always == TRUE                     \* mutant
MustGrow == buf_len + Chunk >= buf_cap

(* The terminating NUL, then the test for the next recv (128-132).         *)
Terminate ==
    /\ state = "got"
    /\ nul' = buf_len
    /\ IF MustGrow
       THEN buf_cap' = Doubled /\ alloc' = Doubled
       ELSE UNCHANGED <<buf_cap, alloc>>
    /\ state' = "recv"
    /\ UNCHANGED buf_len

(* EAGAIN or an error: what was read becomes a task, NUL again (135-138).  *)
ReadOut ==
    /\ state = "recv"
    /\ state' = "done"
    /\ nul' = IF buf_len > 0 THEN buf_len ELSE nul
    /\ UNCHANGED <<buf_len, buf_cap, alloc>>

(* recv returned 0: the buffer is deleted (119-125).                       *)
ReadEof ==
    /\ state = "recv"
    /\ state' = "done"
    /\ UNCHANGED <<buf_len, buf_cap, alloc, nul>>

Next ==
    \/ \E n \in 1 .. Chunk : Recv(n)
    \/ Terminate
    \/ ReadOut
    \/ ReadEof
    \/ state = "done" /\ UNCHANGED vars

Spec == Init /\ [][Next]_vars

-----------------------------------------------------------------------------
(* Properties *)

TypeOK ==
    /\ buf_len \in 0 .. MaxRequest
    /\ buf_cap \in Int
    /\ alloc \in Int
    /\ nul \in -1 .. MaxRequest
    /\ state \in {"recv", "got", "done"}

(* A recv never writes behind the end of the buffer, nor does the NUL, for *)
(* requests of every length up to MaxRequest and however recv cuts them    *)
(* (server.cpp 109, 128-132, 138).                                         *)
WritesInBounds ==
    /\ state = "recv" => buf_len + Chunk <= alloc
    /\ state = "got" => buf_len < alloc
    /\ nul < alloc

(* The buffer is never more than twice what the request needs, so its size *)
(* stays an int (event.h 76-82).                                           *)
CapacityBounded ==
    /\ alloc = buf_cap
    /\ buf_cap \in InitCap .. MaxInt
    /\ buf_cap = InitCap \/ buf_cap <= 2 * (buf_len + Chunk)
=============================================================================
