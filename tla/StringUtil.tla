----------------------------- MODULE StringUtil -----------------------------
(***************************************************************************)
(* StringUtil (util/utils.h), and the copy of split_ch_words in WordSeg    *)
(* (alias/wordseg/wordseg.cpp).                                            *)
(***************************************************************************)
EXTENDS Integers, Sequences, SequencesExt

(* The assignment map[key] = val, also of the Json objects.                *)
Put(map, key, val) ==
    [k \in DOMAIN map \cup {key} |-> IF k = key THEN val ELSE map[k]]

(* split: an empty string has no parts, a separator at the end makes an    *)
(* empty last one.  (Behind a tab at the end of the string there is no     *)
(* part, whatever separates them: see SplitTab.)  parts[i] is what the     *)
(* first i characters make.                                                *)
SplitNext(parts, t, d) ==
    IF t = d THEN Append(parts, <<>>)
    ELSE [parts EXCEPT ![Len(parts)] = Append(@, t)]

Split(s, d) ==
    LET parts[i \in 0 .. Len(s)] ==
            IF i = 0 THEN << <<>> >> ELSE SplitNext(parts[i - 1], s[i], d)
    IN  IF s = <<>> THEN <<>> ELSE parts[Len(s)]

Tab == 9
SplitTab(s) ==
    LET parts == Split(s, Tab)
    IN  IF parts # <<>> /\ Last(parts) = <<>> THEN Front(parts) ELSE parts

Space == 32

(* split_ch_words, for a string of bytes: a lead byte 1110xxxx makes one   *)
(* word with its two continuation bytes and is skipped without them;       *)
(* spaces are skipped; any other byte is a word (char is signed, so the    *)
(* branch for codes above 127 is never taken).                             *)
SplitChWords(s) ==
    LET Continues(i) == i <= Len(s) /\ s[i] \in 128 .. 191
        from[i \in 1 .. Len(s) + 1] ==
            IF i > Len(s) THEN <<>>
            ELSE IF s[i] \in 224 .. 239
                 THEN IF Continues(i + 1) /\ Continues(i + 2)
                      THEN <<SubSeq(s, i, i + 2)>> \o from[i + 3]
                      ELSE from[i + 1]
                 ELSE IF s[i] = Space THEN from[i + 1]
                 ELSE << <<s[i]>> >> \o from[i + 1]
    IN  from[1]
=============================================================================
