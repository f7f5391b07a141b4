------------------------------ MODULE MCLogger ------------------------------
(* Logger for TLC: two threads that write two lines each, while the hour   *)
(* changes twice.                                                          *)
EXTENDS Logger

(* log_level:15, as in conf/sub.conf.                                      *)
LogLevel15 == Types
=============================================================================
