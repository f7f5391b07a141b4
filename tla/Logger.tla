------------------------------- MODULE Logger -------------------------------
(***************************************************************************)
(* SubLogger (log/sub_log.cpp): every thread of the server writes its log  *)
(* lines through one FILE*, under one mutex; the file's name holds the     *)
(* hour, and the first line of a new hour closes the old file and opens    *)
(* the new one.  fopen may fail (no log directory, no descriptor left):    *)
(* the code then returns from two places without unlocking the mutex.      *)
(***************************************************************************)
EXTENDS Naturals, FiniteSets

CONSTANTS
    Threads,        \* the threads that log
    NoThread,
    LastHour,       \* bound: the clock's last hour
    MaxLines,       \* bound: lines per thread
    LogLevel,       \* _log_level, as the set of the types whose bit is set
    OpenMayFail     \* whether fopen may fail

Types == {"DEBUG", "WARN", "NOTICE", "FATAL"}

ASSUME LoggerAssumption ==
    /\ LastHour \in Nat /\ MaxLines \in Nat
    /\ LogLevel \subseteq Types
    /\ OpenMayFail \in BOOLEAN
    /\ NoThread \notin Threads

NoFile == LastHour + 1      \* NULL, or the empty name

VARIABLES
    hour,       \* the clock
    file_name,  \* _log_file_name: the hour in it, NoFile for ""
    file_p,     \* _log_file_p: the hour of the file it writes to, or NULL
    mutex,      \* the owner of _log_mutex
    pc,         \* thread -> next statement of _write_log
    type,       \* thread -> log_type of its call
    stamp,      \* thread -> the hour it read from the clock
    lines,      \* thread -> calls of _write_log so far
    written     \* the lines in the files

vars == <<hour, file_name, file_p, mutex, pc, type, stamp, lines, written>>

Hours == 0 .. LastHour

Line == [by : Threads, no : 1 .. MaxLines, type : Types, stamp : Hours, file : Hours]

(* fopen(name, "a+") for the file of hour h, into _log_file_p.             *)
Open(h) ==
    \/ file_p' = h
    \/ OpenMayFail /\ file_p' = NoFile

(* _init_logger, on the main thread: the result of the first open is not   *)
(* looked at.                                                              *)
Init ==
    /\ hour = 0
    /\ file_name = 0
    /\ file_p \in IF OpenMayFail THEN {0, NoFile} ELSE {0}
    /\ mutex = NoThread
    /\ pc = [p \in Threads |-> "idle"]
    /\ type = [p \in Threads |-> "DEBUG"]
    /\ stamp = [p \in Threads |-> 0]
    /\ lines = [p \in Threads |-> 0]
    /\ written = {}

Tick ==
    /\ hour < LastHour
    /\ hour' = hour + 1
    /\ UNCHANGED <<file_name, file_p, mutex, pc, type, stamp, lines, written>>

Goto(p, from, to) ==
    /\ pc[p] = from
    /\ pc' = [pc EXCEPT ![p] = to]

(* A call whose type is masked out returns at once (45-47).                *)
WriteLog(p, t) ==
    /\ lines[p] < MaxLines
    /\ t \in LogLevel
    /\ Goto(p, "idle", "lock")
    /\ type' = [type EXCEPT ![p] = t]
    /\ lines' = [lines EXCEPT ![p] = @ + 1]
    /\ UNCHANGED <<hour, file_name, file_p, mutex, stamp, written>>

Lock_No(p) == UNCHANGED mutex       \* mutant
Lock(p) == mutex = NoThread /\ mutex' = p

Unlock_No == UNCHANGED mutex        \* mutant
Unlock == mutex' = NoThread

LockLog(p) ==
    /\ Goto(p, "lock", "update")
    /\ Lock(p)
    /\ UNCHANGED <<hour, file_name, file_p, type, stamp, lines, written>>

(* _update_log_file_name (19-41): read the clock; in a new hour close the  *)
(* file, if there is one, and open the next.  LOG_FAIL ends the call with  *)
(* the mutex locked (51-54).                                               *)
IsOpen_Any == file_p # NoFile       \* mutant: kept when the hour changes
IsOpen == file_name = hour

UpdateLogFileName(p) ==
    /\ stamp' = [stamp EXCEPT ![p] = hour]
    /\ \/ /\ IsOpen
          /\ Goto(p, "update", "switch")
          /\ UNCHANGED <<file_name, file_p>>
       \/ /\ ~IsOpen
          /\ file_name' = hour
          /\ Open(hour)
          /\ Goto(p, "update", IF file_p' = NoFile THEN "idle" ELSE "switch")
    /\ UNCHANGED <<hour, mutex, type, lines, written>>

(* The switch on log_type (55-70): FATAL falls through to the default,     *)
(* which unlocks and returns.                                              *)
FallsThrough_Notice(t) == t \in {"NOTICE", "FATAL"}     \* mutant: one more
FallsThrough(t) == t = "FATAL"

SwitchType(p) ==
    \/ /\ ~FallsThrough(type[p])
       /\ Goto(p, "switch", "print")
       /\ UNCHANGED <<hour, file_name, file_p, mutex, type, stamp, lines, written>>
    \/ /\ FallsThrough(type[p])
       /\ Goto(p, "switch", "idle")
       /\ Unlock
       /\ UNCHANGED <<hour, file_name, file_p, type, stamp, lines, written>>

(* Without a file open it again under its name (75-81), else write and     *)
(* flush the line (82-83).                                                 *)
HasFile_Always == TRUE      \* mutant: no test for NULL
HasFile == file_p # NoFile

ReopenLog(p) ==
    /\ ~HasFile
    /\ Open(file_name)
    /\ Goto(p, "print", IF file_p' = NoFile THEN "idle" ELSE "print")
    /\ UNCHANGED <<hour, file_name, mutex, type, stamp, lines, written>>

PrintLine(p) ==
    /\ HasFile
    /\ Goto(p, "print", "unlock")
    /\ written' = written \cup
           {[by |-> p, no |-> lines[p], type |-> type[p], stamp |-> stamp[p], file |-> file_p]}
    /\ UNCHANGED <<hour, file_name, file_p, mutex, type, stamp, lines>>

UnlockLog(p) ==
    /\ Goto(p, "unlock", "idle")
    /\ Unlock
    /\ UNCHANGED <<hour, file_name, file_p, type, stamp, lines, written>>

Running(p) ==
    \/ LockLog(p)
    \/ UpdateLogFileName(p)
    \/ SwitchType(p)
    \/ ReopenLog(p)
    \/ PrintLine(p)
    \/ UnlockLog(p)

Next ==
    \/ Tick
    \/ \E p \in Threads : Running(p) \/ \E t \in Types : WriteLog(p, t)

(* A thread inside _write_log goes on when it can.                         *)
Fairness == \A p \in Threads : WF_vars(Running(p))

Spec == Init /\ [][Next]_vars /\ Fairness

-----------------------------------------------------------------------------
(* Properties *)

TypeOK ==
    /\ hour \in Hours
    /\ file_name \in Hours
    /\ file_p \in Hours \cup {NoFile}
    /\ mutex \in Threads \cup {NoThread}
    /\ pc \in [Threads -> {"idle", "lock", "update", "switch", "print", "unlock"}]
    /\ type \in [Threads -> Types]
    /\ stamp \in [Threads -> Hours]
    /\ lines \in [Threads -> 0 .. MaxLines]
    /\ written \subseteq Line

(* The file pointer is used, closed and replaced under the mutex only, so  *)
(* no thread prints to a file another one has closed, and the file a       *)
(* thread prints to is the one of its time stamp (30-39, 75-83).           *)
FileUsedUnderMutex ==
    \A p \in Threads :
        /\ pc[p] \in {"update", "switch", "print", "unlock"} => mutex = p
        /\ pc[p] \in {"switch", "print", "unlock"} => file_name = stamp[p]
        /\ file_p \in {file_name, NoFile}

(* Every line is in the file of the hour it was written in, also across    *)
(* the change of the hour (19-41, 82).                                     *)
LineInFileOfItsHour == \A l \in written : l.file = l.stamp

(* A call that has returned has written its line, if its type is enabled   *)
(* and not FATAL, unless there is no file because fopen has failed.        *)
LineWritten ==
    \A p \in Threads :
        pc[p] = "idle" /\ lines[p] > 0 /\ type[p] # "FATAL" /\ file_p # NoFile
            => \E l \in written : l.by = p /\ l.no = lines[p]

(* A call of _write_log returns, unless there is no file: no path through  *)
(* it but those after a failed fopen keeps the mutex (49, 68, 84).         *)
LogCallReturns ==
    \A p \in Threads : pc[p] = "lock" ~> pc[p] = "idle" \/ file_p = NoFile

(* A thread that logs goes on: test_log.cpp 59-61 joins all its threads.   *)
EveryLogCallReturns == \A p \in Threads : pc[p] = "lock" ~> pc[p] = "idle"

(* "log_level:15" (conf/sub.conf) enables all four types: a FATAL line,    *)
(* too, is in the file once the call has returned.                         *)
EnabledFatalWritten ==
    \A p \in Threads :
        pc[p] = "idle" /\ lines[p] > 0 /\ type[p] = "FATAL"
            => \E l \in written : l.by = p /\ l.no = lines[p]
=============================================================================
