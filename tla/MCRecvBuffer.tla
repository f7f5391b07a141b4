---------------------------- MODULE MCRecvBuffer ----------------------------
(* RecvBuffer with the code's sizes divided by 256.                        *)
EXTENDS RecvBuffer
=============================================================================
