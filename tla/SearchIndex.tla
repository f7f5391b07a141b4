---------------------------- MODULE SearchIndex ----------------------------
(***************************************************************************)
(* The dictionaries of the search: index/build_index.cpp makes them, off   *)
(* line, from a file of documents, and DictMgr (plugin/dict_mgr.h) reads   *)
(* them when the server starts.                                            *)
(*                                                                         *)
(* Counts and frequencies only weigh the scores: a posting is the number   *)
(* of its document.                                                        *)
(***************************************************************************)
EXTENDS HttpParser, WordSeg, FiniteSetsExt

CONSTANT Documents      \* the lines of the file

ASSUME DocumentsAreStrings == Documents \in Seq(Seq(0 .. 255))

(* The tags among the first n words that end a segment; where the k-th of  *)
(* them is, 0 for the beginning of the text.                               *)
Endings(ws, n) == {i \in 1 .. n : Ends(ws, i)}
EndOf(ws, k) ==
    CHOOSE i \in 0 .. Len(ws) :
        Cardinality(Endings(ws, i)) = k /\ i \in Endings(ws, i) \cup {0}

(* What segment makes of a text: the words up to each tag that ends one.   *)
SegmentAt(ws, k) == FlattenSeq(SubSeq(ws, EndOf(ws, k - 1) + 1, EndOf(ws, k)))
SegmentsIn(ws, n) == [k \in 1 .. Cardinality(Endings(ws, n)) |-> SegmentAt(ws, k)]
SegmentsOf(text) == LET ws == SplitChWords(text) IN SegmentsIn(ws, Len(ws))

(* The loop of build_index: a line has a number and a text, and one tab;   *)
(* the terms of a line are counted once.                                   *)
Fields(i) == SplitTab(Documents[i])
Read ==
    [i \in {i \in DOMAIN Documents : Len(Fields(i)) = 2} |->
        [doc_id |-> Atoi(Fields(i)[1]), terms |-> Range(SegmentsOf(Fields(i)[2]))]]

(* Mutant: a term of three bytes, one Chinese character, is left out.      *)
IsFiled_Longer(term) == Len(term) > 3
IsFiled(term) == Len(term) >= 3

(* index.dict: the documents of every term that is long enough.            *)
IndexDict ==
    [term \in {t \in UNION {Read[i].terms : i \in DOMAIN Read} : IsFiled(t)} |->
        {Read[i].doc_id : i \in {j \in DOMAIN Read : term \in Read[j].terms}}]

(* Mutant: lengths are filed under the number of the line.                 *)
DocLengthDict_ByLine == [i \in DOMAIN Read |-> Len(Documents[i])]

(* doc_length.dict: the length of the last line of every document.         *)
DocLengthDict ==
    [id \in {Read[i].doc_id : i \in DOMAIN Read} |->
        Len(Documents[Max({i \in DOMAIN Read : Read[i].doc_id = id})])]

(* The loaders of DictMgr: the dictionary in the file of that name, none   *)
(* if there is no such file.                                               *)
LoadDict(files, path) == IF path \in DOMAIN files THEN files[path] ELSE <<>>

-----------------------------------------------------------------------------
(* What a text is to find: the documents that share a segment of at least  *)
(* three bytes with it.                                                    *)
Sharing(text) ==
    {Read[i].doc_id : i \in
        {j \in DOMAIN Read :
            \E t \in Read[j].terms \cap Range(SegmentsOf(text)) : Len(t) >= 3}}
=============================================================================
