-------------------------------- MODULE Dat --------------------------------
(***************************************************************************)
(* DatImpl, the double array of alias/dat/dat.h: _load_index_dict reads    *)
(* the terms and their postings, _build turns the sorted terms into the    *)
(* arrays _base and _check, and _search follows them.  A node of the tree  *)
(* of all prefixes is a cell: the children of one node lie at `begin'      *)
(* plus the code of their character, _check of such a cell is its begin,   *)
(* and _base of a cell is the begin of its own children, or the negative   *)
(* of a line number where a term ends.                                     *)
(*                                                                         *)
(* _insert is recursive; its frames are the variable stack.                *)
(*                                                                         *)
(* Terms are byte strings, sorted by the codes of their characters, not    *)
(* empty, and made of characters with a code: one byte below 128 or three  *)
(* bytes.  (A character of two bytes is cut into bytes of code 0, which is *)
(* also the code for the end of a term.)                                   *)
(***************************************************************************)
EXTENDS StringUtil

CONSTANTS
    Files,      \* the files _load_index_dict may be given: sequences of lines
    InitSize,   \* 65536 * 32, the cells of the arrays
    Probes      \* bound: the keys that are looked up

(* A line is a term, the number of its fields, and in the second field the *)
(* postings, each with the number of its parts.                            *)
Posting == [parts : Nat, doc_id : Int, cnt : Int]
Line == [fields : Nat, term : Seq(0 .. 255), postings : Seq(Posting)]

ASSUME DatAssumption == Files \subseteq Seq(Line) /\ InitSize \in Nat

VARIABLES
    dicts,          \* line -> the words of its term
    values,         \* line -> its postings
    base, check,    \* the arrays: cell -> number, 0 outside the domain
    used,           \* the begins that were given away
    size,           \* what was allocated
    next_check_pos, non_zero_num, progress,
    stack,          \* the calls of _insert: siblings, begin, and the sibling
                    \*   whose children are being inserted
    pos, first,     \* locals of the innermost call's search for a begin
    pc,             \* "scan" or "fill" in the innermost call, "done"
    resized         \* the arrays were replaced once

arrays == <<base, check, used, size>>
vars == <<dicts, values, arrays, next_check_pos, non_zero_num, progress,
          stack, pos, first, pc, resized>>

-----------------------------------------------------------------------------
(* Lines 145-154: postings with fewer than 3 parts are left out.           *)
ReadPostings(ps) ==
    LET kept == SelectSeq(ps, LAMBDA p : p.parts >= 3)
    IN  [i \in 1 .. Len(kept) |-> [doc_id |-> kept[i].doc_id, cnt |-> kept[i].cnt]]

(* Lines with more or fewer than two fields are left out.                  *)
LoadIndexDict(file) == SelectSeq(file, LAMBDA line : line.fields = 2)
Words(lines) == [l \in 1 .. Len(lines) |-> SplitChWords(lines[l].term)]

(* get_cn_code.  The test for two-byte characters is true of no byte.      *)
GetCnCode(c) ==
    IF c[1] \in 224 .. 239 THEN (c[1] % 16) * 4096 + (c[2] % 128) * 64 + (c[3] % 128)
    ELSE IF c[1] < 128 THEN c[1]
    ELSE 0

(* A tree_node: the lines from left to right - 1 (counted from 0) agree in *)
(* their first depth characters, the last of which has this code.          *)
Root == [depth |-> 0, left |-> 0, right |-> Len(dicts), code |-> 0]

(* The code of the character of a word at place j, 0 behind its end.       *)
CodeAt(word, j) == IF j \in DOMAIN word THEN GetCnCode(word[j]) ELSE 0

(* The last sibling's lines end where the next one's begin.                *)
Extended(siblings, right) ==
    [k \in DOMAIN siblings |->
        IF k = Len(siblings) THEN [siblings[k] EXCEPT !.right = right] ELSE siblings[k]]

(* _fetch_siblings: one child for each run of lines with the same next     *)
(* character; code 0 stands for the end of the term.  siblings[i] is what  *)
(* the first i lines make; prev_code is the code of the last sibling.      *)
WithLine(words, parent, siblings, l) ==
    LET word == words[l + 1]
        code == CodeAt(word, parent.depth + 1)
    IN  IF \/ Len(word) < parent.depth
           \/ siblings # <<>> /\ siblings[Len(siblings)].code = code
        THEN Extended(siblings, l + 1)
        ELSE Append(siblings, [depth |-> parent.depth + 1, left |-> l, right |-> l + 1,
                               code |-> code])

Siblings(words, parent) ==
    LET siblings[i \in 0 .. parent.right - parent.left] ==
            IF i = 0 THEN <<>>
            ELSE WithLine(words, parent, siblings[i - 1], parent.left + i - 1)
    IN  siblings[parent.right - parent.left]

FetchSiblings(parent) == Siblings(dicts, parent)

Frame(siblings, begin, at) == [siblings |-> siblings, begin |-> begin, at |-> at]
Cell(frame, k) == frame.begin + frame.siblings[k].code
NextSibling(frame) == Frame(frame.siblings, frame.begin, frame.at + 1)

Top == stack[Len(stack)]
SetTop(frame) == stack' = [stack EXCEPT ![Len(stack)] = frame]

-----------------------------------------------------------------------------
(* A call of _insert: its loop starts behind the code of the first sibling *)
(* or where the last search found the first free cell (235-238).           *)
Call(siblings) ==
    LET after == siblings[1].code + 1
    IN  /\ stack' = Append(stack, Frame(siblings, 0, 1))
        /\ pos' = (IF after > next_check_pos THEN after ELSE next_check_pos) - 1
        /\ first' = FALSE
        /\ non_zero_num' = 0
        /\ pc' = "scan"

(* _load_index_dict and the first lines of _build.                         *)
Init ==
    \E file \in Files :
        LET lines == LoadIndexDict(file) IN
        /\ dicts = Words(lines) /\ dicts # <<>>
        /\ values = [l \in 1 .. Len(lines) |-> ReadPostings(lines[l].postings)]
        /\ base = <<>> /\ check = <<>> /\ used = {}
        /\ size = InitSize
        /\ next_check_pos = 0 /\ non_zero_num = 0 /\ progress = 0
        /\ stack = <<Frame(FetchSiblings(Root), 0, 1)>>
        /\ pos = FetchSiblings(Root)[1].code
        /\ first = FALSE
        /\ pc = "scan"
        /\ resized = FALSE

(* _check[pos] is taken (241-243).                                         *)
ScanTaken ==
    /\ pc = "scan"
    /\ pos + 1 \in DOMAIN check
    /\ pos' = pos + 1
    /\ non_zero_num' = non_zero_num + 1
    /\ UNCHANGED <<dicts, values, arrays, next_check_pos, progress, stack, first, pc, resized>>

(* The cell pos + 1 is free: the begin it gives, the last cell needed.     *)
Free == pc = "scan" /\ pos + 1 \notin DOMAIN check
Begin_OffByOne == pos - Top.siblings[1].code    \* mutant: the position before
Begin == pos + 1 - Top.siblings[1].code
LastCell == Begin + Top.siblings[Len(Top.siblings)].code

(* resize((int) (_size * l)), and then resize() (252-256, 261-263).        *)
Grown ==
    LET n == Len(dicts)
    IN  IF LastCell < size THEN size
        ELSE IF 105 * (progress + 1) > 100 * n THEN (size * 105) \div 100
        ELSE (size * n) \div (progress + 1)
Needed == IF LastCell > Grown THEN 2 * Grown ELSE Grown

(* memcpy copies _size bytes of the int arrays, a quarter of them, and all *)
(* of _used.  The rest of a new array is fresh memory, zero.               *)
Copied(array, new_size) ==
    IF new_size = size THEN array
    ELSE [c \in {c \in DOMAIN array : c < size \div 4} |-> array[c]]

Resize(new_size) ==
    /\ size' = new_size
    /\ resized' = (resized \/ new_size # size)
    /\ base' = Copied(base, new_size)

(* Begin was given to other siblings (258).                                *)
BeginUsed_No == FALSE       \* mutant: no _used
BeginUsed == Begin \in used

(* Mutant: the last sibling is not looked at.                              *)
Clash_ButLast(array) ==
    \E k \in 1 .. Len(Top.siblings) - 1 : Begin + Top.siblings[k].code \in DOMAIN array

(* One of the siblings' cells is taken (264-269).                          *)
Clash(array) ==
    \E k \in DOMAIN Top.siblings : Begin + Top.siblings[k].code \in DOMAIN array

FirstFree == IF first THEN next_check_pos ELSE pos + 1

(* Mutant: the position is advanced only where _check was taken.           *)
Advance_Not == pos' = pos /\ next_check_pos' = FirstFree /\ first' = TRUE

(* The next turn of the loop.                                              *)
Advance == pos' = pos + 1 /\ next_check_pos' = FirstFree /\ first' = TRUE

ScanUsed ==
    /\ Free
    /\ BeginUsed
    /\ Resize(Grown)
    /\ check' = Copied(check, Grown)
    /\ Advance
    /\ UNCHANGED <<dicts, values, used, non_zero_num, progress, stack, pc>>

ScanClash ==
    /\ Free
    /\ ~BeginUsed
    /\ Clash(Copied(check, Needed))
    /\ Resize(Needed)
    /\ check' = Copied(check, Needed)
    /\ Advance
    /\ UNCHANGED <<dicts, values, used, non_zero_num, progress, stack, pc>>

(* The siblings' cells are marked (274-280).                               *)
Mark(array, cells, b) ==
    [c \in DOMAIN array \cup cells |-> IF c \in cells THEN b ELSE array[c]]

Place ==
    /\ Free
    /\ ~BeginUsed
    /\ ~Clash(Copied(check, Needed))
    /\ Resize(Needed)
    /\ check' = Mark(Copied(check, Needed),
                     {Begin + Top.siblings[k].code : k \in DOMAIN Top.siblings}, Begin)
    /\ used' = used \cup {Begin}
    /\ pos' = pos + 1
    /\ next_check_pos' =
           IF 100 * non_zero_num >= 95 * (pos + 2 - FirstFree) THEN pos + 1 ELSE FirstFree
    /\ SetTop(Frame(Top.siblings, Begin, 1))
    /\ pc' = "fill"
    /\ UNCHANGED <<dicts, values, non_zero_num, progress, first>>

SetBase(c, value) == base' = [d \in DOMAIN base \cup {c} |-> IF d = c THEN value ELSE base[d]]

(* The next sibling has no children: its term ends here (283-285).         *)
FillLeaf ==
    /\ pc = "fill"
    /\ Top.at <= Len(Top.siblings)
    /\ FetchSiblings(Top.siblings[Top.at]) = <<>>
    /\ SetBase(Cell(Top, Top.at), - Top.siblings[Top.at].left - 1)
    /\ progress' = progress + 1
    /\ SetTop(NextSibling(Top))
    /\ UNCHANGED <<dicts, values, check, used, size, next_check_pos, non_zero_num,
                   pos, first, pc, resized>>

(* It has: _insert calls itself (287).                                     *)
FillDeeper ==
    /\ pc = "fill"
    /\ Top.at <= Len(Top.siblings)
    /\ FetchSiblings(Top.siblings[Top.at]) # <<>>
    /\ Call(FetchSiblings(Top.siblings[Top.at]))
    /\ UNCHANGED <<dicts, values, arrays, next_check_pos, progress, resized>>

(* _insert returns begin to the sibling of the call below (288), or to     *)
(* _build, which makes it the first state (380).                           *)
Return ==
    LET rest == SubSeq(stack, 1, Len(stack) - 1)
        caller == rest[Len(rest)]
    IN  /\ pc = "fill"
        /\ Top.at > Len(Top.siblings)
        /\ IF rest = <<>>
           THEN SetBase(0, Top.begin) /\ pc' = "done" /\ stack' = rest
           ELSE /\ SetBase(Cell(caller, caller.at), Top.begin)
                /\ stack' = [rest EXCEPT ![Len(rest)] = NextSibling(caller)]
                /\ UNCHANGED pc
        /\ UNCHANGED <<dicts, values, check, used, size, next_check_pos, non_zero_num,
                       progress, pos, first, resized>>

Build == ScanTaken \/ ScanUsed \/ ScanClash \/ Place \/ FillLeaf \/ FillDeeper \/ Return
Next == Build \/ (pc = "done" /\ UNCHANGED vars)

(* The one thread of the program keeps running.                            *)
Spec == Init /\ [][Next]_vars /\ WF_vars(Build)

-----------------------------------------------------------------------------
(* Looking up, once _build has returned.                                   *)

At(array, c) == IF c \in DOMAIN array THEN array[c] ELSE 0

(* The states a character leads to from one of these.                      *)
Nexts(states, code) == {At(base, b + code) : b \in {b \in states : At(check, b + code) = b}}

(* The state the characters of key lead to; the set is empty when one of   *)
(* them leads nowhere.                                                     *)
Follow(key) ==
    LET words == SplitChWords(key)
        states[i \in 0 .. Len(words)] ==
            IF i = 0 THEN {At(base, 0)} ELSE Nexts(states[i - 1], GetCnCode(words[i]))
    IN  states[Len(words)]

(* _search: the line of the term, -1 if there is none.                     *)
Find(key) ==
    LET ends == {b \in Follow(key) : At(check, b) = b /\ At(base, b) < 0}
    IN  IF ends = {} THEN -1 ELSE - At(base, CHOOSE b \in ends : TRUE) - 1

(* _reversed_search: its postings, none if there is no such term.          *)
ReversedSearch(key) == IF Find(key) = -1 THEN <<>> ELSE values[Find(key) + 1]

(* _tsearch does not look at _check: a character may lead to the cell of   *)
(* another node.  [end |-> TRUE] is a return inside the loop.              *)
TNext(s, code) ==
    LET to == At(base, s.b + code)
    IN  IF s.end THEN s
        ELSE IF to > 0 THEN [end |-> FALSE, b |-> to]
        ELSE [end |-> TRUE, b |-> IF to = 0 THEN -1 ELSE - to - 1]

TSearch(key) ==
    LET words == SplitChWords(key)
        steps[i \in 0 .. Len(words)] ==
            IF i = 0 THEN [end |-> FALSE, b |-> At(base, 0)]
            ELSE TNext(steps[i - 1], GetCnCode(words[i]))
        last == steps[Len(words)]
    IN  IF last.end THEN last.b
        ELSE IF At(base, last.b) < 0 THEN - At(base, last.b) - 1
        ELSE -1

-----------------------------------------------------------------------------
(* Properties *)

Node == [depth : Nat, left : Nat, right : Nat, code : Nat]

TypeOK ==
    /\ DOMAIN check \subseteq 1 .. size - 1
    /\ \A c \in DOMAIN check : check[c] \in used
    /\ DOMAIN base \subseteq Nat
    /\ \A c \in DOMAIN base : base[c] \in Int
    /\ used \subseteq 1 .. size - 1
    /\ {size, next_check_pos, non_zero_num, progress, pos} \subseteq Nat
    /\ stack \in Seq([siblings : Seq(Node), begin : Nat, at : Nat])
    /\ pc \in {"scan", "fill", "done"} /\ {first, resized} \subseteq BOOLEAN

(* The first line with the key's words, which is what a set of terms would *)
(* answer.                                                                 *)
LineOf(key) ==
    LET ls == {l \in DOMAIN dicts : dicts[l] = SplitChWords(key)}
    IN  IF ls = {} THEN -1 ELSE (CHOOSE l \in ls : \A m \in ls : l <= m) - 1

(* _search finds the terms of the file and nothing else, each at its first *)
(* line, whatever cells they share prefixes or arrays in; so does          *)
(* _reversed_search, and _tsearch finds every term (dat.h 293-367).  Only  *)
(* a resize, which copies a quarter of the arrays, loses terms.            *)
LookupExact ==
    pc = "done" /\ ~resized =>
        \A key \in Probes :
            /\ Find(key) = LineOf(key)
            /\ ReversedSearch(key) = IF LineOf(key) = -1 THEN <<>> ELSE values[LineOf(key) + 1]
            /\ LineOf(key) # -1 => TSearch(key) = LineOf(key)

(* What LookupExact and TypeOK rest on: the terms, and the keys, are made  *)
(* of characters in UTF-8, of one byte or of three; the terms are sorted   *)
(* by the codes of their characters; the arrays have room for a group of   *)
(* siblings behind the last position tried.                                *)
Character ==
    {c \in Seq(0 .. 255) :
        \/ Len(c) = 1 /\ c[1] \in 1 .. 127
        \/ /\ Len(c) = 3 /\ c[1] \in 224 .. 239 /\ {c[2], c[3]} \subseteq 128 .. 191
           /\ c[1] = 224 => c[2] >= 160}

Sorted(words) ==
    \A l, m \in DOMAIN words : \A i \in DOMAIN words[l] :
        l < m /\ (\A j \in 1 .. i - 1 : CodeAt(words[l], j) = CodeAt(words[m], j))
            => CodeAt(words[l], i) <= CodeAt(words[m], i)

FilesSorted ==
    \A file \in Files : LET words == Words(LoadIndexDict(file))
                        IN  words \in Seq(Seq(Character)) /\ Sorted(words)
ProbesReadable == \A key \in Probes : SplitChWords(key) \in Seq(Character)
RoomEnough == InitSize >= 20 * 65536

Group(b) == {c \in DOMAIN check : check[c] = b}

(* The cells of the calls in progress are theirs until they return, so     *)
(* that _base is written where _check was (dat.h 278-290).                 *)
CellsOwned ==
    ~resized =>
        \A i \in 1 .. Len(stack) : i < Len(stack) \/ pc = "fill" =>
            \A k \in DOMAIN stack[i].siblings :
                /\ Cell(stack[i], k) \in DOMAIN check
                /\ check[Cell(stack[i], k)] = stack[i].begin

(* The children of a node that was placed stay what they are: no begin is  *)
(* given away twice and no cell changes hands, until the arrays are        *)
(* resized (dat.h 258-280).                                                *)
GroupsFixed == [][~resized' => \A b \in used : Group(b)' = Group(b)]_vars

(* The search for a begin always ends, also after a resize that lost what  *)
(* was there, so _build returns (dat.h 239-273).                           *)
BuildEnds == <>(pc = "done")
=============================================================================
