------------------------------ MODULE SubConf ------------------------------
(***************************************************************************)
(* SubConfig (config/config.cpp): sub.conf, lines of a key, a colon and a  *)
(* value.  A line is a sequence of tokens, as in HttpParser.               *)
(***************************************************************************)
EXTENDS HttpParser

IsPair_Colons(parts) == Len(parts) >= 2     \* mutant: the rest is ignored
IsPair(parts) == Len(parts) = 2

(* The loop of _read_conf_file: lines without exactly one colon are left   *)
(* out, and the last line of a key counts.                                 *)
ReadSubLine(conf_dict, line) ==
    LET parts == Split(line, ":")
    IN  IF IsPair(parts) THEN Put(conf_dict, parts[1], parts[2]) ELSE conf_dict

ReadSubConf(lines) ==
    LET conf_dict[i \in 0 .. Len(lines)] ==
            IF i = 0 THEN <<>> ELSE ReadSubLine(conf_dict[i - 1], lines[i])
    IN  conf_dict[Len(lines)]

(* _get_conf_val: the empty string for a key that is not there.            *)
GetConfVal(conf_dict, key) ==
    IF <<key>> \in DOMAIN conf_dict THEN conf_dict[<<key>>] ELSE <<>>

(* _get_conf_int_val and _get_thread_cnt.                                  *)
GetConfIntVal(conf_dict, key, default_val) ==
    LET val == GetConfVal(conf_dict, key)
    IN  IF val = <<>> THEN default_val ELSE Atoi(TextOf(val))

GetThreadCnt(conf_dict) == GetConfIntVal(conf_dict, "thread_cnt", 5)

-----------------------------------------------------------------------------
(* What a file says of a key: the value in the last line that has the form *)
(* key:value, with no other colon.                                         *)
SaysOf(line, key) ==
    /\ Len(line) >= 2 /\ line[1] = key /\ line[2] = ":"
    /\ \A i \in 3 .. Len(line) : line[i] # ":"

SubWrittenFor(lines, key) ==
    LET fitting == {i \in DOMAIN lines : SaysOf(lines[i], key)}
        last    == lines[CHOOSE i \in fitting : \A j \in fitting : j <= i]
    IN  IF fitting = {} THEN <<>> ELSE SubSeq(last, 3, Len(last))
=============================================================================
