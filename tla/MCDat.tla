------------------------------- MODULE MCDat -------------------------------
(* Dat for TLC: three letters and a character of three bytes, in arrays    *)
(* that some of the files fill.                                            *)
EXTENDS Dat

a == <<97>>
b == <<98>>
c == <<99>>
han == <<230, 177, 137>>    \* code 27721

WordsOver(chars, n) == UNION {[1 .. m -> chars] : m \in 1 .. n}

Codes(w) == [i \in 1 .. Len(w) |-> GetCnCode(w[i])]
Before(v, w) ==
    \/ IsPrefix(v, w)
    \/ \E i \in DOMAIN v \cap DOMAIN w :
           /\ SubSeq(v, 1, i - 1) = SubSeq(w, 1, i - 1)
           /\ Codes(v)[i] < Codes(w)[i]

SortedFiles(words, n) ==
    {f \in UNION {[1 .. m -> words] : m \in 1 .. n} :
        \A i \in 1 .. Len(f) - 1 : Before(f[i], f[i + 1])}

(* The line of number i in a file; that of the term "b" has no postings.   *)
LineAt(word, i) ==
    [fields |-> IF word = <<b>> THEN 1 ELSE 2, term |-> FlattenSeq(word),
     postings |-> <<[parts |-> 3, doc_id |-> i, cnt |-> 1], [parts |-> 2, doc_id |-> 9, cnt |-> 1]>>]

MCFiles == {[i \in 1 .. Len(f) |-> LineAt(f[i], i)] :
                f \in SortedFiles(WordsOver({a, b, c}, 2), 4)
                      \cup SortedFiles(WordsOver({b, han}, 3), 3)}

MCProbes == {FlattenSeq(w) : w \in WordsOver({a, b, c, han}, 3)} \cup {<<>>}

(* The theorems' suppositions, but for the size of the arrays.             *)
ASSUME SupposedByTheorems == FilesSorted /\ ProbesReadable
=============================================================================
