---------------------------- MODULE MCEpollServer ----------------------------
(* EpollServer for TLC.  The descriptors are numbers because accept takes  *)
(* the lowest free one.                                                    *)
EXTENDS EpollServer

(* Clients as client/client.cpp: each waits for its answer, then closes.   *)
ClosedLoop == {}

(* Clients that give up waiting, and nothing else.                         *)
Impatient == {"abandon"}

(* Clients that do whatever TCP lets them do.                              *)
AnyClient == {"pipeline", "abandon", "reset", "slow"}
=============================================================================
