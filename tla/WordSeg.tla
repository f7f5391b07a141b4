------------------------------ MODULE WordSeg ------------------------------
(***************************************************************************)
(* WordSeg (alias/wordseg/wordseg.cpp): one CRF tagger, with the words of  *)
(* one query in it, serves all workers.  A call of segment clears it, adds *)
(* its words one by one, parses, and reads the words back with their tags, *)
(* all under seg_mutex.                                                    *)
(***************************************************************************)
EXTENDS Naturals, Sequences

CONSTANTS
    Workers,        \* the threads that call segment
    NoWorker,
    NoTagger,       \* _tagger is NULL: no model was found
    Ends(_, _),     \* Ends(words, i): the model tags word i "E" or "S"
    ParseMayFail    \* whether _tagger->parse() may fail

ASSUME WordSegAssumption ==
    /\ NoWorker \notin Workers
    /\ ParseMayFail \in BOOLEAN

VARIABLES
    tagger,         \* the words in the tagger, or NoTagger
    seg_mutex,      \* its owner
    seg_pc,         \* worker -> the next statement of segment
    words,          \* worker -> the words of its query
    row,            \* worker -> the index of its loop
    seg_str,        \* worker -> the word put together so far
    seg_results     \* worker -> the segments found

segVars == <<tagger, seg_mutex, seg_pc, words, row, seg_str, seg_results>>

(* The end of _init_tagger.                                                *)
SegInit ==
    /\ tagger \in {<<>>, NoTagger}
    /\ seg_mutex = NoWorker
    /\ seg_pc = [w \in Workers |-> "idle"]
    /\ words = [w \in Workers |-> <<>>]
    /\ row = [w \in Workers |-> 0]
    /\ seg_str = [w \in Workers |-> <<>>]
    /\ seg_results = [w \in Workers |-> <<>>]

Goto(w, next) == seg_pc' = [seg_pc EXCEPT ![w] = next]

(* segment is called, and returns FAIL at once without a tagger.           *)
Segment(w, ws) ==
    /\ seg_pc[w] = "idle"
    /\ Goto(w, IF tagger = NoTagger THEN "done" ELSE "lock")
    /\ words' = [words EXCEPT ![w] = ws]
    /\ seg_results' = [seg_results EXCEPT ![w] = <<>>]
    /\ UNCHANGED <<tagger, seg_mutex, row, seg_str>>

MutexFree_Always == TRUE    \* mutant: a mutex of its own for every strategy
MutexFree == seg_mutex = NoWorker

Lock(w) ==
    /\ seg_pc[w] = "lock"
    /\ MutexFree
    /\ seg_mutex' = w
    /\ Goto(w, "clear")
    /\ UNCHANGED <<tagger, words, row, seg_str, seg_results>>

Clear(w) ==
    /\ seg_pc[w] = "clear"
    /\ tagger' = <<>>
    /\ row' = [row EXCEPT ![w] = 1]
    /\ Goto(w, "add")
    /\ UNCHANGED <<seg_mutex, words, seg_str, seg_results>>

AddWord(w) ==
    /\ seg_pc[w] = "add"
    /\ row[w] <= Len(words[w])
    /\ tagger' = Append(tagger, words[w][row[w]])
    /\ row' = [row EXCEPT ![w] = @ + 1]
    /\ UNCHANGED <<seg_mutex, seg_pc, words, seg_str, seg_results>>

(* Before FAIL is returned (71).                                           *)
OnFail_Return == "done"     \* mutant: the mutex stays locked
OnFail == "unlock"

ParseWords(w) ==
    /\ seg_pc[w] = "add"
    /\ row[w] > Len(words[w])
    /\ row' = [row EXCEPT ![w] = 1]
    /\ \/ Goto(w, "read")
       \/ ParseMayFail /\ Goto(w, OnFail)
    /\ UNCHANGED <<tagger, seg_mutex, words, seg_str, seg_results>>

(* One turn of the loop over the rows: a tag "E" or "S" ends a segment.    *)
ReadRow(w) ==
    LET str == seg_str[w] \o tagger[row[w]]
    IN  /\ seg_pc[w] = "read"
        /\ row[w] <= Len(tagger)
        /\ row' = [row EXCEPT ![w] = @ + 1]
        /\ IF Ends(tagger, row[w])
           THEN /\ seg_results' = [seg_results EXCEPT ![w] = Append(@, str)]
                /\ seg_str' = [seg_str EXCEPT ![w] = <<>>]
           ELSE /\ seg_str' = [seg_str EXCEPT ![w] = str]
                /\ UNCHANGED seg_results
        /\ UNCHANGED <<tagger, seg_mutex, seg_pc, words>>

(* The end of the loop: what no tag has ended is dropped.                  *)
Rest_Keep(w) == seg_str[w]  \* mutant: it stays for the next query
Rest(w) == <<>>

ReadEnd(w) ==
    /\ seg_pc[w] = "read"
    /\ row[w] > Len(tagger)
    /\ seg_str' = [seg_str EXCEPT ![w] = Rest(w)]
    /\ Goto(w, "unlock")
    /\ UNCHANGED <<tagger, seg_mutex, words, row, seg_results>>

Unlock(w) ==
    /\ seg_pc[w] = "unlock"
    /\ seg_mutex' = NoWorker
    /\ row' = [row EXCEPT ![w] = 0]
    /\ Goto(w, "done")
    /\ UNCHANGED <<tagger, words, seg_str, seg_results>>

SegStep(w) ==
    \/ Lock(w) \/ Clear(w) \/ AddWord(w) \/ ParseWords(w)
    \/ ReadRow(w) \/ ReadEnd(w) \/ Unlock(w)

(* The caller has taken the results over.                                  *)
SegReturn(w) ==
    /\ seg_pc[w] = "done"
    /\ Goto(w, "idle")
    /\ words' = [words EXCEPT ![w] = <<>>]
    /\ seg_results' = [seg_results EXCEPT ![w] = <<>>]
    /\ UNCHANGED <<tagger, seg_mutex, row, seg_str>>

(* Workers that segment any texts.                                         *)
SegNext ==
    \E w \in Workers :
        \/ \E ws \in Seq(Seq(Nat)) : Segment(w, ws)
        \/ SegStep(w) \/ SegReturn(w)

SegSpec == SegInit /\ [][SegNext]_segVars

-----------------------------------------------------------------------------
SegTypeOK ==
    /\ tagger = NoTagger \/ tagger \in Seq(Seq(Nat))
    /\ seg_mutex \in Workers \cup {NoWorker}
    /\ seg_pc \in [Workers -> {"idle", "lock", "clear", "add", "read", "unlock", "done"}]
    /\ words \in [Workers -> Seq(Seq(Nat))]
    /\ row \in [Workers -> Nat]
    /\ seg_str \in [Workers -> Seq(Nat)]
    /\ seg_results \in [Workers -> Seq(Seq(Nat))]

Critical(w) == seg_pc[w] \in {"clear", "add", "read", "unlock"}

(* Between lock and unlock the tagger holds the words its user has added,  *)
(* and nobody else's (wordseg.cpp 63-87).                                  *)
TaggerIsOwners ==
    \A w \in Workers :
        /\ Critical(w) => seg_mutex = w
        /\ seg_pc[w] = "add" => tagger = SubSeq(words[w], 1, row[w] - 1)
        /\ seg_pc[w] \in {"read", "unlock"} => tagger = words[w]
=============================================================================
