---------------------------- MODULE Logger_proof ----------------------------
(***************************************************************************)
(* The logger's mutex and its file, for any threads, any number of lines   *)
(* and hours, any log level, and whether fopen fails or not.               *)
(***************************************************************************)
EXTENDS Logger, TLAPS

-----------------------------------------------------------------------------
(* Types.  A thread inside _write_log has begun a line.                    *)

TypeInv ==
    /\ TypeOK
    /\ \A p \in Threads : pc[p] # "idle" => lines[p] > 0

LEMMA OpenIsAFile ==
    ASSUME LoggerAssumption, NEW h \in Hours, Open(h)
    PROVE  file_p' \in {h, NoFile}
BY DEF Open

LEMMA TypeInit == ASSUME LoggerAssumption, Init PROVE TypeInv
BY DEF LoggerAssumption, Init, TypeInv, TypeOK, Hours, NoFile, Types

LEMMA TypeStep == ASSUME LoggerAssumption, TypeInv, [Next]_vars PROVE TypeInv'
<1> USE LoggerAssumption DEF LoggerAssumption, TypeInv, TypeOK, Hours
<1>1. CASE Tick
    BY <1>1 DEF Tick
<1>2. ASSUME NEW p \in Threads, NEW t \in Types, WriteLog(p, t) PROVE TypeInv'
    BY <1>2 DEF WriteLog, Goto
<1>3. ASSUME NEW p \in Threads, LockLog(p) PROVE TypeInv'
    BY <1>3 DEF LockLog, Lock, Goto
<1>4. ASSUME NEW p \in Threads, UpdateLogFileName(p) PROVE TypeInv'
    <2>1. file_p' \in Hours \cup {NoFile} /\ file_name' \in Hours
        BY <1>4 DEF UpdateLogFileName, Open
    <2> QED
        BY <1>4, <2>1 DEF UpdateLogFileName, Goto
<1>5. ASSUME NEW p \in Threads, SwitchType(p) PROVE TypeInv'
    BY <1>5 DEF SwitchType, Goto, Unlock
<1>6. ASSUME NEW p \in Threads, ReopenLog(p) PROVE TypeInv'
    <2>1. file_p' \in Hours \cup {NoFile}
        BY <1>6 DEF ReopenLog, Open
    <2> QED
        BY <1>6, <2>1 DEF ReopenLog, Goto
<1>7. ASSUME NEW p \in Threads, PrintLine(p) PROVE TypeInv'
    <2>1. lines[p] \in 1 .. MaxLines /\ file_p \in Hours
        BY <1>7 DEF PrintLine, Goto, HasFile
    <2>2. [by |-> p, no |-> lines[p], type |-> type[p], stamp |-> stamp[p], file |-> file_p] \in Line
        BY <2>1 DEF Line
    <2>3. written' \subseteq Line
        BY <1>7, <2>2 DEF PrintLine
    <2> QED
        BY <1>7, <2>3 DEF PrintLine, Goto
<1>8. ASSUME NEW p \in Threads, UnlockLog(p) PROVE TypeInv'
    BY <1>8 DEF UnlockLog, Goto, Unlock
<1>9. CASE UNCHANGED vars
    BY <1>9 DEF vars, Line
<1> QED
    BY <1>1, <1>2, <1>3, <1>4, <1>5, <1>6, <1>7, <1>8, <1>9 DEF Next, Running

(* Every step of sub_log.cpp 7-85 leaves the state in its types; so a line *)
(* that is printed has a file, an hour and a number.                       *)
THEOREM TypeCorrect == Spec => []TypeOK
<1> USE LoggerAssumption
<1>1. Init => TypeInv
    BY TypeInit
<1>2. TypeInv /\ [Next]_vars => TypeInv'
    BY TypeStep
<1>3. TypeInv => TypeOK
    BY DEF TypeInv
<1> QED
    BY <1>1, <1>2, <1>3, PTL DEF Spec

-----------------------------------------------------------------------------
(* The file and the mutex.                                                 *)

Inside == {"update", "switch", "print", "unlock"}

LEMMA FileStep ==
    ASSUME LoggerAssumption, TypeInv, FileUsedUnderMutex, [Next]_vars
    PROVE  FileUsedUnderMutex'
<1> USE LoggerAssumption DEF LoggerAssumption, TypeInv, TypeOK, FileUsedUnderMutex
<1>1. CASE Tick
    BY <1>1 DEF Tick
<1>2. ASSUME NEW p \in Threads, NEW t \in Types, WriteLog(p, t) PROVE FileUsedUnderMutex'
    BY <1>2 DEF WriteLog, Goto
<1>3. ASSUME NEW p \in Threads, LockLog(p) PROVE FileUsedUnderMutex'
    BY <1>3 DEF LockLog, Lock, Goto
<1>4. ASSUME NEW p \in Threads, UpdateLogFileName(p) PROVE FileUsedUnderMutex'
    <2>1. mutex = p /\ \A q \in Threads : q # p => pc[q] \notin Inside
        BY <1>4 DEF UpdateLogFileName, Goto, Inside
    <2>2. file_p' \in {file_name', NoFile} /\ file_name' = hour
        BY <1>4 DEF UpdateLogFileName, Open, IsOpen
    <2> QED
        BY <1>4, <2>1, <2>2 DEF UpdateLogFileName, Goto, Inside
<1>5. ASSUME NEW p \in Threads, SwitchType(p) PROVE FileUsedUnderMutex'
    BY <1>5 DEF SwitchType, Goto, Unlock
<1>6. ASSUME NEW p \in Threads, ReopenLog(p) PROVE FileUsedUnderMutex'
    BY <1>6 DEF ReopenLog, Goto, Open
<1>7. ASSUME NEW p \in Threads, PrintLine(p) PROVE FileUsedUnderMutex'
    BY <1>7 DEF PrintLine, Goto
<1>8. ASSUME NEW p \in Threads, UnlockLog(p) PROVE FileUsedUnderMutex'
    BY <1>8 DEF UnlockLog, Goto, Unlock
<1>9. CASE UNCHANGED vars
    BY <1>9 DEF vars
<1> QED
    BY <1>1, <1>2, <1>3, <1>4, <1>5, <1>6, <1>7, <1>8, <1>9 DEF Next, Running

(* A thread between lock and unlock is the mutex's owner, prints to the    *)
(* file of its time stamp, and to none that another thread has closed      *)
(* (sub_log.cpp 49-84).                                                    *)
THEOREM FileUsedUnderMutexCorrect == Spec => []FileUsedUnderMutex
<1> USE LoggerAssumption
<1>1. Init => TypeInv /\ FileUsedUnderMutex
    BY TypeInit DEF Init, FileUsedUnderMutex
<1>2. TypeInv /\ FileUsedUnderMutex /\ [Next]_vars => (TypeInv /\ FileUsedUnderMutex)'
    BY TypeStep, FileStep
<1> QED
    BY <1>1, <1>2, PTL DEF Spec

-----------------------------------------------------------------------------
(* The lines.                                                              *)

Has(p) == \E l \in written : l.by = p /\ l.no = lines[p]

(* A thread that leaves with its line has it in the file; one that leaves  *)
(* without, having been refused a file, has kept the mutex, so that nobody *)
(* opens a file any more.                                                  *)
LinesKept ==
    /\ LineInFileOfItsHour
    /\ \A p \in Threads :
        /\ pc[p] = "unlock" => Has(p)
        /\ pc[p] = "idle" /\ lines[p] > 0 /\ type[p] # "FATAL" /\ ~Has(p)
            => mutex = p /\ file_p = NoFile

LineInv == TypeInv /\ FileUsedUnderMutex /\ LinesKept

LEMMA LinesStep ==
    ASSUME LoggerAssumption, LineInv, [Next]_vars
    PROVE  LinesKept'
<1> USE LoggerAssumption
<1> USE DEF LoggerAssumption, LineInv, TypeInv, TypeOK, LinesKept
<1>1. CASE Tick
    BY <1>1 DEF Tick, LineInFileOfItsHour, Has
<1>2. ASSUME NEW p \in Threads, NEW t \in Types, WriteLog(p, t) PROVE LinesKept'
    BY <1>2 DEF WriteLog, Goto, LineInFileOfItsHour, Has
<1>3. ASSUME NEW p \in Threads, LockLog(p) PROVE LinesKept'
    BY <1>3 DEF LockLog, Lock, Goto, LineInFileOfItsHour, Has
<1>4. ASSUME NEW p \in Threads, UpdateLogFileName(p) PROVE LinesKept'
    <2>1. mutex = p
        BY <1>4 DEF UpdateLogFileName, Goto, FileUsedUnderMutex
    <2>2. LineInFileOfItsHour' /\ \A q \in Threads : Has(q)' <=> Has(q)
        BY <1>4 DEF UpdateLogFileName, LineInFileOfItsHour, Has
    <2> QED
        BY <1>4, <2>1, <2>2 DEF UpdateLogFileName, Goto
<1>5. ASSUME NEW p \in Threads, SwitchType(p) PROVE LinesKept'
    <2>1. mutex = p
        BY <1>5 DEF SwitchType, Goto, FileUsedUnderMutex
    <2>2. LineInFileOfItsHour' /\ \A q \in Threads : Has(q)' <=> Has(q)
        BY <1>5 DEF SwitchType, LineInFileOfItsHour, Has
    <2> QED
        BY <1>5, <2>1, <2>2 DEF SwitchType, Goto, Unlock, FallsThrough
<1>6. ASSUME NEW p \in Threads, ReopenLog(p) PROVE LinesKept'
    <2>1. mutex = p
        BY <1>6 DEF ReopenLog, Goto, FileUsedUnderMutex
    <2>2. LineInFileOfItsHour' /\ \A q \in Threads : Has(q)' <=> Has(q)
        BY <1>6 DEF ReopenLog, LineInFileOfItsHour, Has
    <2> QED
        BY <1>6, <2>1, <2>2 DEF ReopenLog, Goto
<1>7. ASSUME NEW p \in Threads, PrintLine(p) PROVE LinesKept'
    <2> DEFINE l == [by |-> p, no |-> lines[p], type |-> type[p],
                     stamp |-> stamp[p], file |-> file_p]
    <2>1. mutex = p /\ l.file = l.stamp
        BY <1>7 DEF PrintLine, Goto, HasFile, FileUsedUnderMutex
    <2>2. written' = written \cup {l} /\ lines' = lines
        BY <1>7 DEF PrintLine
    <2>3. LineInFileOfItsHour'
        BY <2>1, <2>2 DEF LineInFileOfItsHour
    <2>4. Has(p)'
        <3>1. l.by = p /\ l.no = lines'[p] /\ l \in written'
            BY <2>2
        <3> QED
            BY <3>1 DEF Has
    <2>5. \A q \in Threads : Has(q) => Has(q)'
        BY <2>2 DEF Has
    <2> QED
        BY <1>7, <2>1, <2>3, <2>4, <2>5 DEF PrintLine, Goto
<1>8. ASSUME NEW p \in Threads, UnlockLog(p) PROVE LinesKept'
    <2>1. mutex = p /\ Has(p)
        BY <1>8 DEF UnlockLog, Goto, FileUsedUnderMutex
    <2>2. LineInFileOfItsHour' /\ \A q \in Threads : Has(q)' <=> Has(q)
        BY <1>8 DEF UnlockLog, LineInFileOfItsHour, Has
    <2> QED
        BY <1>8, <2>1, <2>2 DEF UnlockLog, Goto, Unlock
<1>9. CASE UNCHANGED vars
    BY <1>9 DEF vars, LineInFileOfItsHour, Has
<1> QED
    BY <1>1, <1>2, <1>3, <1>4, <1>5, <1>6, <1>7, <1>8, <1>9 DEF Next, Running

LEMMA LineInvariant == Spec => []LineInv
<1> USE LoggerAssumption
<1>1. Init => LineInv
    BY TypeInit DEF Init, LineInv, FileUsedUnderMutex, LinesKept, LineInFileOfItsHour
<1>2. LineInv /\ [Next]_vars => LineInv'
    BY TypeStep, FileStep, LinesStep DEF LineInv
<1> QED
    BY <1>1, <1>2, PTL DEF Spec

(* A line is in the file of the hour that is printed in it, also when the  *)
(* hour changes between the call and the line (sub_log.cpp 19-41, 82).     *)
THEOREM LineInFileOfItsHourCorrect == Spec => []LineInFileOfItsHour
<1>1. LineInv => LineInFileOfItsHour
    BY DEF LineInv, LinesKept
<1> QED
    BY <1>1, LineInvariant, PTL

(* While there is a file, a call that has returned has written its line,   *)
(* unless that is a FATAL one (sub_log.cpp 44-85).                         *)
THEOREM LineWrittenCorrect == Spec => []LineWritten
<1>1. LineInv => LineWritten
    BY DEF LineInv, LinesKept, LineWritten, Has
<1> QED
    BY <1>1, LineInvariant, PTL
=============================================================================
