-------------------------- MODULE RecvBuffer_proof --------------------------
(***************************************************************************)
(* The receive buffer is never overrun and its size never overflows, for   *)
(* every chunk size smaller than the initial capacity and every request of *)
(* at most MaxRequest bytes.                                               *)
(***************************************************************************)
EXTENDS RecvBuffer, TLAPS

(* What makes WritesInBounds inductive: before a recv there is room for a  *)
(* chunk and for the NUL behind it.                                        *)
RoomForChunk ==
    /\ state = "recv" => buf_len + Chunk < buf_cap
    /\ state = "got" => buf_len < buf_cap
    /\ nul <= buf_len /\ nul < buf_cap

Inv == TypeOK /\ CapacityBounded /\ RoomForChunk

USE BufferAssumption DEF MustGrow

LEMMA InvInit == Init => Inv
BY DEF Init, Inv, TypeOK, CapacityBounded, RoomForChunk

LEMMA InvNext == Inv /\ [Next]_vars => Inv'
<1> SUFFICES ASSUME Inv, [Next]_vars PROVE Inv'
    OBVIOUS
<1> USE DEF Inv, TypeOK, CapacityBounded, RoomForChunk
<1>1. ASSUME NEW n \in 1 .. Chunk, Recv(n) PROVE Inv'
    BY <1>1 DEF Recv
<1>2. CASE Terminate
    <2>1. CASE buf_len + Chunk >= buf_cap
        <3>1. buf_cap * 2 <= 2 * (buf_len + Chunk) /\ buf_cap * 2 <= MaxInt
            BY <2>1
        <3>2. buf_cap' = buf_cap * 2 /\ alloc' = buf_cap * 2
            BY <1>2, <2>1, <3>1 DEF Terminate, Doubled
        <3>3. buf_len + Chunk < buf_cap * 2
            BY <1>2 DEF Terminate
        <3> QED
            BY <1>2, <3>1, <3>2, <3>3 DEF Terminate
    <2>2. CASE buf_len + Chunk < buf_cap
        BY <1>2, <2>2 DEF Terminate
    <2> QED
        BY <2>1, <2>2
<1>3. CASE ReadOut
    BY <1>3 DEF ReadOut
<1>4. CASE ReadEof
    BY <1>4 DEF ReadEof
<1>5. CASE UNCHANGED vars
    BY <1>5 DEF vars
<1> QED
    BY <1>1, <1>2, <1>3, <1>4, <1>5 DEF Next

(* The buffer's state stays in its types, the sizes below MaxInt included  *)
(* (event.h 56-90).                                                        *)
THEOREM TypeCorrect == Spec => []TypeOK
<1>1. Inv => TypeOK
    BY DEF Inv
<1> QED
    BY InvInit, InvNext, <1>1, PTL DEF Spec

(* A recv and the NUL behind what it returned stay inside the buffer       *)
(* (server.cpp 109, 128-132, 138).                                         *)
THEOREM WritesInBoundsCorrect == Spec => []WritesInBounds
<1>1. Inv => WritesInBounds
    BY DEF Inv, TypeOK, CapacityBounded, RoomForChunk, WritesInBounds
<1> QED
    BY InvInit, InvNext, <1>1, PTL DEF Spec

(* The capacity is what was allocated, at most twice what is needed, and   *)
(* its doubling never overflows (event.h 76-82).                           *)
THEOREM CapacityBoundedCorrect == Spec => []CapacityBounded
<1>1. Inv => CapacityBounded
    BY DEF Inv
<1> QED
    BY InvInit, InvNext, <1>1, PTL DEF Spec
=============================================================================
