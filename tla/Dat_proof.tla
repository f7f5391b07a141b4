----------------------------- MODULE Dat_proof -----------------------------
(***************************************************************************)
(* While the arrays of DatImpl are not resized, cells never change hands:  *)
(* for every file, every size of the arrays, and whatever _fetch_siblings  *)
(* returns.  And then, for files of sorted terms, the arrays spell these   *)
(* terms: each begin belongs to the node of the tree of prefixes whose     *)
(* children it was found for, and the lookups walk down that tree.         *)
(***************************************************************************)
EXTENDS Dat, SequenceTheorems, TLAPS

Strings == INSTANCE HttpParser_proof WITH Upper <- {}, Word <- {}, Text <- SplitChWords

(* What makes CellsOwned inductive: the calls are a sequence, which is     *)
(* empty only when _build has returned.                                    *)
StackShape ==
    /\ \E S : stack \in Seq(S)
    /\ pc \in {"scan", "fill", "done"}
    /\ stack = <<>> <=> pc = "done"

Inv == StackShape /\ CellsOwned

(* A sequence with a field of its last element replaced is a sequence of   *)
(* the same length, and of the same elements before the last.              *)
LEMMA LastReplaced ==
    ASSUME NEW S, NEW s \in Seq(S), s # <<>>, NEW e
    PROVE  LET t == [s EXCEPT ![Len(s)] = e]
           IN  /\ t \in Seq(S \cup {e})
               /\ Len(t) = Len(s) /\ t # <<>>
               /\ \A i \in 1 .. Len(s) : t[i] = IF i = Len(s) THEN e ELSE s[i]
<1> DEFINE t == [s EXCEPT ![Len(s)] = e]
<1>1. Len(s) \in Nat /\ Len(s) > 0 /\ DOMAIN s = 1 .. Len(s)
    OBVIOUS
<1>2. \A i \in 1 .. Len(s) : t[i] = IF i = Len(s) THEN e ELSE s[i]
    BY <1>1
<1>3. \A i \in 1 .. Len(s) : s[i] \in S
    OBVIOUS
<1>4. t \in [1 .. Len(s) -> S \cup {e}]
    BY <1>1, <1>2, <1>3
<1>5. t \in Seq(S \cup {e}) /\ Len(t) = Len(s)
    BY <1>1, <1>4
<1> QED
    BY <1>1, <1>2, <1>5

LEMMA WithoutLast ==
    ASSUME NEW S, NEW s \in Seq(S), s # <<>>
    PROVE  LET r == SubSeq(s, 1, Len(s) - 1)
           IN  /\ r \in Seq(S) /\ Len(r) = Len(s) - 1
               /\ \A i \in 1 .. Len(s) - 1 : r[i] = s[i]
<1>1. Len(s) \in Nat /\ Len(s) > 0
    OBVIOUS
<1> DEFINE m == Len(s) - 1
           r == SubSeq(s, 1, m)
<1>2. m \in Nat /\ \A i \in 1 .. m : s[i] \in S
    BY <1>1
<1>3. /\ r \in Seq(S)
      /\ Len(r) = IF 1 <= m THEN m - 1 + 1 ELSE 0
      /\ \A i \in 1 .. m - 1 + 1 : r[i] = s[1 + i - 1]
    <2> HIDE DEF m
    <2> QED
        BY <1>2, SubSeqProperties
<1> HIDE DEF r, m
<1>4. r \in Seq(S) /\ Len(r) = m /\ \A i \in 1 .. m : r[i] = s[i]
    BY <1>2, <1>3
<1> QED
    BY <1>4 DEF r, m

LEMMA InvInit == Init => Inv
<1> SUFFICES ASSUME Init PROVE Inv
    OBVIOUS
<1>1. PICK f : stack = <<f>> /\ pc = "scan"
    BY DEF Init
<1>2. stack \in Seq({f}) /\ Len(stack) = 1 /\ stack # <<>>
    BY <1>1
<1>3. StackShape
    BY <1>1, <1>2 DEF StackShape
<1>4. CellsOwned
    BY <1>1, <1>2 DEF CellsOwned
<1> QED
    BY <1>3, <1>4 DEF Inv

(* The turns of the loop that find no begin leave the calls as they are,   *)
(* and the cells when the arrays are not resized.                          *)
LEMMA ScanKeeps ==
    ASSUME Inv, ScanTaken \/ ScanUsed \/ ScanClash
    PROVE  Inv'
<1>1. UNCHANGED <<stack, pc>>
    BY DEF ScanTaken, ScanUsed, ScanClash
<1>2. ~resized' => ~resized /\ check' = check
    BY DEF ScanTaken, ScanUsed, ScanClash, Resize, Copied, arrays
<1>3. CellsOwned'
    BY <1>1, <1>2 DEF Inv, CellsOwned, Cell
<1>4. StackShape'
    BY <1>1 DEF Inv, StackShape
<1> QED
    BY <1>3, <1>4 DEF Inv

(* The new cells were free, so they are nobody else's.                     *)
LEMMA PlaceKeeps ==
    ASSUME Inv, Place
    PROVE  Inv'
<1> DEFINE n == Len(stack)
           new == Frame(Top.siblings, Begin, 1)
           cells == {Begin + Top.siblings[k].code : k \in DOMAIN Top.siblings}
<1>1. PICK S : stack \in Seq(S)
    BY DEF Inv, StackShape
<1>2. pc = "scan" /\ pc' = "fill" /\ stack # <<>> /\ n \in Nat /\ n > 0
    BY <1>1 DEF Inv, StackShape, Place, Free
<1>3. stack' = [stack EXCEPT ![n] = new]
    BY DEF Place, SetTop
<1>4. /\ stack' \in Seq(S \cup {new})
      /\ Len(stack') = n /\ stack' # <<>>
      /\ \A i \in 1 .. n : stack'[i] = IF i = n THEN new ELSE stack[i]
    BY <1>1, <1>2, <1>3, LastReplaced
<1>5. StackShape'
    BY <1>2, <1>4 DEF StackShape
<1>6. ASSUME ~resized' PROVE CellsOwned'
    <2>1. ~resized /\ Needed = size
        BY <1>6 DEF Place, Resize
    <2>2. check' = Mark(check, cells, Begin) /\ cells \cap DOMAIN check = {}
        BY <2>1 DEF Place, Copied, Clash
    <2>3. /\ DOMAIN check' = DOMAIN check \cup cells
          /\ \A c \in cells : check'[c] = Begin
          /\ \A c \in DOMAIN check : check'[c] = check[c]
        BY <2>2 DEF Mark
    <2>4. ASSUME NEW i \in 1 .. n, i # n, NEW k \in DOMAIN stack'[i].siblings
          PROVE  /\ Cell(stack'[i], k) \in DOMAIN check'
                 /\ check'[Cell(stack'[i], k)] = stack'[i].begin
        <3>1. stack'[i] = stack[i] /\ i < n
            BY <1>2, <1>4, <2>4
        <3>2. Cell(stack[i], k) \in DOMAIN check /\ check[Cell(stack[i], k)] = stack[i].begin
            BY <2>1, <2>4, <3>1 DEF Inv, CellsOwned
        <3> QED
            BY <2>3, <3>1, <3>2
    <2>5. ASSUME NEW k \in DOMAIN stack'[n].siblings
          PROVE  /\ Cell(stack'[n], k) \in DOMAIN check'
                 /\ check'[Cell(stack'[n], k)] = stack'[n].begin
        <3>1. stack'[n] = new
            BY <1>2, <1>4
        <3>2. new.begin = Begin /\ new.siblings = Top.siblings
            BY DEF Frame
        <3>3. Cell(new, k) \in cells
            BY <2>5, <3>1, <3>2 DEF Cell
        <3> QED
            BY <2>3, <3>1, <3>2, <3>3
    <2> QED
        BY <1>4, <2>4, <2>5 DEF CellsOwned, Cell
<1> QED
    BY <1>5, <1>6 DEF Inv, CellsOwned

(* A child's term ends, or its children are inserted: the cells stay.      *)
LEMMA FillLeafKeeps ==
    ASSUME Inv, FillLeaf
    PROVE  Inv'
<1> DEFINE n == Len(stack)
           next == NextSibling(Top)
<1>1. PICK S : stack \in Seq(S)
    BY DEF Inv, StackShape
<1>2. pc = "fill" /\ pc' = "fill" /\ stack # <<>> /\ n \in Nat /\ n > 0
    BY <1>1 DEF Inv, StackShape, FillLeaf
<1>3. /\ stack' \in Seq(S \cup {next})
      /\ Len(stack') = n /\ stack' # <<>>
      /\ \A i \in 1 .. n : stack'[i] = IF i = n THEN next ELSE stack[i]
    BY <1>1, <1>2, LastReplaced DEF FillLeaf, SetTop
<1>4. next.begin = stack[n].begin /\ next.siblings = stack[n].siblings
    BY DEF NextSibling, Frame, Top
<1>5. StackShape'
    BY <1>2, <1>3 DEF StackShape
<1>6. resized' = resized /\ check' = check
    BY DEF FillLeaf
<1>7. CellsOwned'
    BY <1>2, <1>3, <1>4, <1>6 DEF Inv, CellsOwned, Cell
<1> QED
    BY <1>5, <1>7 DEF Inv

LEMMA FillDeeperKeeps ==
    ASSUME Inv, FillDeeper
    PROVE  Inv'
<1> DEFINE n == Len(stack)
           called == Frame(FetchSiblings(Top.siblings[Top.at]), 0, 1)
<1>1. PICK S : stack \in Seq(S)
    BY DEF Inv, StackShape
<1>2. pc = "fill" /\ pc' = "scan" /\ n \in Nat /\ stack' = Append(stack, called)
    BY <1>1 DEF FillDeeper, Call
<1>3. stack \in Seq(S \cup {called})
    BY <1>1
<1>4. /\ stack' \in Seq(S \cup {called})
      /\ Len(stack') = n + 1 /\ stack' # <<>>
      /\ \A i \in 1 .. n : stack'[i] = stack[i]
    BY <1>2, <1>3
<1>5. StackShape'
    BY <1>2, <1>4 DEF StackShape
<1>6. resized' = resized /\ check' = check
    BY DEF FillDeeper, arrays
<1>7. CellsOwned'
    BY <1>2, <1>4, <1>6 DEF Inv, CellsOwned, Cell
<1> QED
    BY <1>5, <1>7 DEF Inv

(* The innermost call returns: the others' cells stay.                     *)
LEMMA ReturnKeeps ==
    ASSUME Inv, Return
    PROVE  Inv'
<1> DEFINE n == Len(stack)
           rest == SubSeq(stack, 1, n - 1)
           next == NextSibling(rest[Len(rest)])
<1>1. PICK S : stack \in Seq(S)
    BY DEF Inv, StackShape
<1>2. pc = "fill" /\ stack # <<>> /\ n \in Nat /\ n > 0
    BY <1>1 DEF Inv, StackShape, Return
<1>3. rest \in Seq(S) /\ Len(rest) = n - 1 /\ \A i \in 1 .. n - 1 : rest[i] = stack[i]
    BY <1>1, <1>2, WithoutLast
<1>4. resized' = resized /\ check' = check
    BY DEF Return
<1>5. CASE rest = <<>>
    <2>1. pc' = "done" /\ stack' = <<>>
        BY <1>5 DEF Return
    <2> QED
        BY <2>1 DEF Inv, StackShape, CellsOwned
<1>6. CASE rest # <<>>
    <2>1. pc' = "fill" /\ stack' = [rest EXCEPT ![Len(rest)] = next]
        BY <1>2, <1>6 DEF Return
    <2>2. /\ stack' \in Seq(S \cup {next})
          /\ Len(stack') = n - 1 /\ stack' # <<>>
          /\ \A i \in 1 .. n - 1 : stack'[i] = IF i = n - 1 THEN next ELSE stack[i]
        <3> HIDE DEF rest, next
        <3> QED
            BY <1>2, <1>3, <1>6, <2>1, LastReplaced
    <2>3. n - 1 \in 1 .. n - 1
        BY <1>2, <1>3, <1>6
    <2>4. next.begin = stack[n - 1].begin /\ next.siblings = stack[n - 1].siblings
        BY <1>3, <2>3 DEF NextSibling, Frame
    <2>5. StackShape'
        BY <2>1, <2>2 DEF StackShape
    <2>6. CellsOwned'
        BY <1>2, <1>4, <2>1, <2>2, <2>3, <2>4 DEF Inv, CellsOwned, Cell
    <2> QED
        BY <2>5, <2>6 DEF Inv
<1> QED
    BY <1>5, <1>6

LEMMA InvNext == Inv /\ [Next]_vars => Inv'
<1> SUFFICES ASSUME Inv, [Next]_vars PROVE Inv'
    OBVIOUS
<1>1. CASE UNCHANGED vars
    BY <1>1 DEF Inv, StackShape, CellsOwned, Cell, vars, arrays
<1> QED
    BY <1>1, ScanKeeps, PlaceKeeps, FillLeafKeeps, FillDeeperKeeps, ReturnKeeps
       DEF Next, Build

(* The cells of a call of _insert that has not returned are still its own: *)
(* _base is written where _check was (dat.h 278-290).                      *)
THEOREM CellsOwnedCorrect == Spec => []CellsOwned
<1>1. Inv => CellsOwned
    BY DEF Inv
<1> QED
    BY InvInit, InvNext, <1>1, PTL DEF Spec

(* No begin is given away twice and no cell changes hands (dat.h 258-280). *)
THEOREM GroupsFixedCorrect == Spec => GroupsFixed
<1> DEFINE Fixed == ~resized' => \A b \in used : Group(b)' = Group(b)
<1>1. ASSUME [Next]_vars PROVE [Fixed]_vars
    <2>1. CASE Place
        <3> SUFFICES ASSUME ~resized', NEW b \in used PROVE Group(b)' = Group(b)
            OBVIOUS
        <3> DEFINE cells == {Begin + Top.siblings[k].code : k \in DOMAIN Top.siblings}
        <3>1. check' = Mark(check, cells, Begin) /\ cells \cap DOMAIN check = {}
            BY <2>1 DEF Place, Resize, Copied, Clash
        <3>2. b # Begin
            BY <2>1 DEF Place, BeginUsed
        <3>3. /\ DOMAIN check' = DOMAIN check \cup cells
              /\ \A c \in cells : check'[c] = Begin
              /\ \A c \in DOMAIN check : check'[c] = check[c]
            BY <3>1 DEF Mark
        <3> QED
            BY <3>1, <3>2, <3>3 DEF Group
    <2>2. CASE ScanUsed \/ ScanClash
        BY <2>2 DEF ScanUsed, ScanClash, Resize, Copied, Group
    <2>3. CASE ScanTaken \/ FillLeaf \/ FillDeeper \/ Return \/ UNCHANGED vars
        BY <2>3 DEF ScanTaken, FillLeaf, FillDeeper, Return, vars, arrays, Group
    <2> QED
        BY <1>1, <2>1, <2>2, <2>3 DEF Next, Build
<1> QED
    BY <1>1, PTL DEF Spec, GroupsFixed

-----------------------------------------------------------------------------
(* Words and their codes.                                                  *)

(* The largest code of a character.                                        *)
MaxCode == 65535

(* The bytes of a character of three, and its code.                        *)
Lead == 224 .. 239
Trail == 128 .. 191
Value(x, y, z) == (x - 224) * 4096 + (y - 128) * 64 + (z - 128)

LEMMA ValueOfBytes ==
    ASSUME NEW x \in Lead, NEW y \in Trail, NEW z \in Trail
    PROVE  /\ (x % 16) * 4096 + (y % 128) * 64 + (z % 128) = Value(x, y, z)
           /\ Value(x, y, z) \in Nat /\ Value(x, y, z) <= MaxCode
           /\ (x = 224 => y >= 160) => Value(x, y, z) > 127
<1>1. x % 16 = x - 224 /\ y % 128 = y - 128 /\ z % 128 = z - 128
    BY DEF Lead, Trail
<1> QED
    BY <1>1 DEF Value, MaxCode, Lead, Trail

LEMMA BytesOfValue ==
    ASSUME NEW x \in Lead, NEW y \in Trail, NEW z \in Trail,
           NEW u \in Lead, NEW v \in Trail, NEW w \in Trail,
           Value(x, y, z) = Value(u, v, w)
    PROVE  x = u /\ y = v /\ z = w
BY DEF Value, Lead, Trail

(* One byte, or three.                                                     *)
Short(c) == Len(c) = 1 /\ c[1] \in 1 .. 127
Long(c) ==
    /\ Len(c) = 3 /\ c[1] \in Lead /\ c[2] \in Trail /\ c[3] \in Trail
    /\ c[1] = 224 => c[2] >= 160

LEMMA CodeOfShort ==
    ASSUME NEW c, Short(c)
    PROVE  GetCnCode(c) = c[1] /\ c[1] \in Nat /\ c[1] > 0 /\ c[1] <= 127
<1>1. \A b \in 1 .. 127 : b \notin Lead /\ b < 128 /\ b \in Nat /\ b > 0 /\ b <= 127
    BY DEF Lead
<1>2. c[1] \notin Lead /\ c[1] < 128 /\ c[1] \in Nat /\ c[1] > 0 /\ c[1] <= 127
    BY <1>1, Zenon DEF Short
<1>3. GetCnCode(c) = c[1]
    BY <1>2 DEF GetCnCode, Lead
<1> QED
    BY <1>2, <1>3, Zenon

LEMMA CodeOfLong ==
    ASSUME NEW c, Long(c)
    PROVE  /\ GetCnCode(c) = Value(c[1], c[2], c[3])
           /\ GetCnCode(c) \in Nat /\ GetCnCode(c) > 127 /\ GetCnCode(c) <= MaxCode
<1>1. PICK x \in Lead, y \in Trail, z \in Trail :
               c[1] = x /\ c[2] = y /\ c[3] = z
    BY Zenon DEF Long
<1>2. GetCnCode(c) = (x % 16) * 4096 + (y % 128) * 64 + (z % 128)
    <2>1. c[1] \in Lead
        BY <1>1
    <2>2. GetCnCode(c) = (c[1] % 16) * 4096 + (c[2] % 128) * 64 + (c[3] % 128)
        BY <2>1, Zenon DEF GetCnCode, Lead
    <2> QED
        BY <1>1, <2>2
<1>3. x = 224 => y >= 160
    BY <1>1, Zenon DEF Long
<1>4. GetCnCode(c) = Value(x, y, z)
    BY <1>2, ValueOfBytes
<1>5. Value(x, y, z) \in Nat /\ Value(x, y, z) <= MaxCode /\ Value(x, y, z) > 127
    BY <1>3, ValueOfBytes
<1> QED
    BY <1>1, <1>4, <1>5

LEMMA CharacterCode ==
    ASSUME NEW c \in Character, NEW d \in Character
    PROVE  /\ GetCnCode(c) \in Nat /\ GetCnCode(c) > 0 /\ GetCnCode(c) <= MaxCode
           /\ GetCnCode(c) = GetCnCode(d) => c = d
<1> DEFINE Same == Len(c) = Len(d) /\ \A i \in 1 .. Len(c) : c[i] = d[i]
<1>1. \A e \in Character : e \in Seq(0 .. 255) /\ (Short(e) \/ Long(e))
    BY Zenon DEF Character, Short, Long, Lead, Trail
<1>2. ASSUME Short(c), Short(d), GetCnCode(c) = GetCnCode(d) PROVE Same
    <2>1. \A i \in 1 .. 1 : i = 1
        OBVIOUS
    <2>2. c[1] = d[1]
        BY <1>2, CodeOfShort
    <2> QED
        BY <1>2, <2>1, <2>2, Zenon DEF Short
<1>3. ASSUME Long(c), Long(d), GetCnCode(c) = GetCnCode(d) PROVE Same
    <2>1. Value(c[1], c[2], c[3]) = Value(d[1], d[2], d[3])
        BY <1>3, CodeOfLong, Zenon
    <2>2. PICK x \in Lead, y \in Trail, z \in Trail :
                   c[1] = x /\ c[2] = y /\ c[3] = z
        BY <1>3, Zenon DEF Long
    <2>5. PICK u \in Lead, v \in Trail, w \in Trail :
                   d[1] = u /\ d[2] = v /\ d[3] = w
        BY <1>3, Zenon DEF Long
    <2>6. Value(x, y, z) = Value(u, v, w)
        BY <2>1, <2>2, <2>5
    <2>4. c[1] = d[1] /\ c[2] = d[2] /\ c[3] = d[3]
        BY <2>2, <2>5, <2>6, BytesOfValue
    <2>3. \A i \in 1 .. 3 : i = 1 \/ i = 2 \/ i = 3
        OBVIOUS
    <2> QED
        BY <1>3, <2>3, <2>4, Zenon DEF Long
<1>4. ASSUME NEW e \in Character
      PROVE  /\ GetCnCode(e) \in Nat /\ GetCnCode(e) > 0 /\ GetCnCode(e) <= MaxCode
             /\ Short(e) => GetCnCode(e) <= 127
             /\ Long(e) => ~ (GetCnCode(e) <= 127)
    BY <1>1, CodeOfShort, CodeOfLong DEF MaxCode
<1>5. GetCnCode(c) = GetCnCode(d) => (Short(c) /\ Short(d)) \/ (Long(c) /\ Long(d))
    <2>1. (Short(c) \/ Long(c)) /\ (Short(d) \/ Long(d))
        BY <1>1
    <2>2. Short(c) => GetCnCode(c) <= 127
        BY <1>4
    <2>3. Short(d) => GetCnCode(d) <= 127
        BY <1>4
    <2>4. Long(c) => ~ (GetCnCode(c) <= 127)
        BY <1>4
    <2>5. Long(d) => ~ (GetCnCode(d) <= 127)
        BY <1>4
    <2>6. GetCnCode(c) = GetCnCode(d) => (GetCnCode(c) <= 127 <=> GetCnCode(d) <= 127)
        OBVIOUS
    <2> QED
        BY <2>1, <2>2, <2>3, <2>4, <2>5, <2>6
<1>6. GetCnCode(c) = GetCnCode(d) => Same
    BY <1>2, <1>3, <1>5, Zenon
<1>7. GetCnCode(c) = GetCnCode(d) => c = d
    BY <1>1, <1>6, SeqEqual
<1> QED
    BY <1>4, <1>7

LEMMA CodesOfWord ==
    ASSUME NEW word \in Seq(Character), NEW j \in Nat \ {0}
    PROVE  /\ CodeAt(word, j) \in Nat /\ CodeAt(word, j) <= MaxCode
           /\ CodeAt(word, j) = 0 <=> Len(word) < j
<1>1. j \in DOMAIN word <=> ~ (Len(word) < j)
    OBVIOUS
<1>2. ASSUME j \in DOMAIN word
      PROVE  GetCnCode(word[j]) \in Nat /\ GetCnCode(word[j]) > 0 /\ GetCnCode(word[j]) <= MaxCode
    <2>1. word[j] \in Character
        BY <1>2
    <2> QED
        BY <2>1, CharacterCode, Zenon
<1> QED
    BY <1>1, <1>2 DEF CodeAt, MaxCode

(* A word is known by its codes.                                           *)
LEMMA WordByCodes ==
    ASSUME NEW v \in Seq(Character), NEW w \in Seq(Character),
           \A j \in 1 .. Len(w) + 1 : CodeAt(v, j) = CodeAt(w, j)
    PROVE  v = w
<1>1. Len(v) \in Nat /\ Len(w) \in Nat
    OBVIOUS
<1>2. CodeAt(v, Len(w) + 1) = 0
    BY <1>1, CodesOfWord
<1>3. Len(v) <= Len(w)
    <2>1. Len(w) + 1 \in Nat \ {0}
        BY <1>1
    <2>2. Len(v) < Len(w) + 1
        BY <1>2, <2>1, CodesOfWord
    <2> QED
        BY <1>1, <2>2
<1>4. ASSUME Len(v) < Len(w) PROVE FALSE
    <2>1. CodeAt(w, Len(w)) = 0
        BY <1>1, <1>4, CodesOfWord
    <2> QED
        BY <1>1, <1>4, <2>1, CodesOfWord
<1>5. Len(v) = Len(w)
    BY <1>1, <1>3, <1>4
<1>6. ASSUME NEW j \in 1 .. Len(w) PROVE v[j] = w[j]
    <2>1. v[j] \in Character /\ w[j] \in Character
        BY <1>5
    <2>2. GetCnCode(v[j]) = GetCnCode(w[j])
        BY <1>1, <1>5 DEF CodeAt
    <2> QED
        BY <2>1, <2>2, CharacterCode
<1> QED
    BY <1>5, <1>6, SeqEqual

-----------------------------------------------------------------------------
(* The tree of prefixes.  Its nodes are lines that agree in their first    *)
(* codes: all that do.                                                     *)
Agree(words, l, m, depth) ==
    \A j \in 1 .. depth : CodeAt(words[l + 1], j) = CodeAt(words[m + 1], j)

IsNode(words, n) ==
    /\ n \in Node /\ n.left < n.right /\ n.right <= Len(words)
    /\ \A m \in 0 .. Len(words) - 1 :
           m \in n.left .. n.right - 1 <=> Agree(words, n.left, m, n.depth)
    /\ n.depth > 0 => n.code = CodeAt(words[n.left + 1], n.depth)

(* A node whose lines have not ended before its depth.                     *)
Inner(words, n) == IsNode(words, n) /\ Len(words[n.left + 1]) >= n.depth

LEMMA ExtendedSiblings ==
    ASSUME NEW s \in Seq(Node), NEW right \in Nat
    PROVE  /\ Extended(s, right) \in Seq(Node) /\ Len(Extended(s, right)) = Len(s)
           /\ \A k \in 1 .. Len(s) :
                 /\ Extended(s, right)[k].depth = s[k].depth
                 /\ Extended(s, right)[k].left = s[k].left
                 /\ Extended(s, right)[k].code = s[k].code
                 /\ Extended(s, right)[k].right = IF k = Len(s) THEN right ELSE s[k].right
<1> DEFINE e == Extended(s, right)
<1>1. Len(s) \in Nat /\ DOMAIN s = 1 .. Len(s)
    OBVIOUS
<1>2. DOMAIN e = 1 .. Len(s)
    BY <1>1 DEF Extended
<1>3. ASSUME NEW k \in 1 .. Len(s)
      PROVE  /\ e[k] \in Node
             /\ e[k].depth = s[k].depth /\ e[k].left = s[k].left /\ e[k].code = s[k].code
             /\ e[k].right = IF k = Len(s) THEN right ELSE s[k].right
    <2>1. s[k] \in Node
        OBVIOUS
    <2>2. e[k] = IF k = Len(s) THEN [s[k] EXCEPT !.right = right] ELSE s[k]
        BY <1>1 DEF Extended
    <2> HIDE DEF e
    <2> QED
        BY <2>1, <2>2 DEF Node
<1>4. e = [k \in 1 .. Len(s) |-> e[k]]
    BY <1>1 DEF Extended
<1> HIDE DEF e
<1>5. e \in Seq(Node) /\ Len(e) = Len(s)
    BY <1>1, <1>3, <1>4
<1> QED
    BY <1>3, <1>5 DEF e

(* A turn of the loop of _fetch_siblings.                                  *)
LEMMA WithLineType ==
    ASSUME NEW words \in Seq(Seq(Character)), NEW parent \in Node,
           NEW s \in Seq(Node), NEW l \in 0 .. Len(words) - 1
    PROVE  WithLine(words, parent, s, l) \in Seq(Node)
<1>1. Extended(s, l + 1) \in Seq(Node)
    BY ExtendedSiblings
<1>2. words[l + 1] \in Seq(Character) /\ parent.depth \in Nat
    BY DEF Node
<1>3. CodeAt(words[l + 1], parent.depth + 1) \in Nat
    <2>1. parent.depth + 1 \in Nat \ {0}
        BY <1>2
    <2> QED
        BY <1>2, <2>1, CodesOfWord
<1>4. [depth |-> parent.depth + 1, left |-> l, right |-> l + 1,
       code |-> CodeAt(words[l + 1], parent.depth + 1)] \in Node
    BY <1>2, <1>3 DEF Node
<1> QED
    BY <1>1, <1>4 DEF WithLine

LEMMA SiblingsLoop ==
    ASSUME NEW words \in Seq(Seq(Character)), NEW parent \in Node,
           parent.left <= parent.right, parent.right <= Len(words)
    PROVE  \E f :
               /\ Siblings(words, parent) = f[parent.right - parent.left]
               /\ f[0] = <<>>
               /\ \A i \in 1 .. parent.right - parent.left :
                     f[i] = WithLine(words, parent, f[i - 1], parent.left + i - 1)
<1> DEFINE n == parent.right - parent.left
           Turn(s, i) == WithLine(words, parent, s, parent.left + i - 1)
           step == [i \in 1 .. n |-> [s \in Seq(Node) |-> Turn(s, i)]]
           siblings[i \in 0 .. n] == IF i = 0 THEN <<>> ELSE Turn(siblings[i - 1], i)
<1>1. parent.left \in Nat /\ parent.right \in Nat /\ n \in Nat
    BY DEF Node
<1>2. ASSUME NEW i \in 1 .. n PROVE parent.left + i - 1 \in 0 .. Len(words) - 1
    BY <1>1
<1>3. step \in [1 .. n -> [Seq(Node) -> Seq(Node)]]
    <2>1. \A i \in 1 .. n : \A s \in Seq(Node) : Turn(s, i) \in Seq(Node)
        BY <1>2, WithLineType
    <2> QED
        BY <2>1, Zenon
<1>4. <<>> \in Seq(Node)
    OBVIOUS
<1>5. PICK f \in [0 .. n -> Seq(Node)] : Strings!Loops(f, n, <<>>, step)
    <2> HIDE DEF n, step
    <2> QED
        BY <1>1, <1>3, <1>4, Strings!Loop
<1>6. f = [i \in 0 .. n |-> IF i = 0 THEN <<>> ELSE step[i][f[i - 1]]]
    BY <1>5 DEF Strings!Loops
<1>7. ASSUME NEW i \in 1 .. n PROVE f[i - 1] \in Seq(Node) /\ step[i][f[i - 1]] = Turn(f[i - 1], i)
    <2>1. i - 1 \in 0 .. n
        BY <1>1
    <2>2. f[i - 1] \in Seq(Node)
        BY <2>1
    <2> QED
        BY <2>2
<1>8. f = [i \in 0 .. n |-> IF i = 0 THEN <<>> ELSE Turn(f[i - 1], i)]
    <2>1. \A i \in 0 .. n : i # 0 => i \in 1 .. n
        BY <1>1
    <2> HIDE DEF n, step, Turn
    <2> QED
        BY <1>6, <1>7, <2>1
<1>9. siblings = [i \in 0 .. n |-> IF i = 0 THEN <<>> ELSE Turn(siblings[i - 1], i)]
    <2> HIDE DEF n
    <2> QED
        BY <1>8
<1> HIDE DEF siblings, step
<1>10. siblings[0] = <<>>
    BY <1>1, <1>9
<1>11. ASSUME NEW i \in 1 .. n PROVE siblings[i] = Turn(siblings[i - 1], i)
    <2>1. i \in 0 .. n /\ i # 0
        BY <1>1
    <2> HIDE DEF n, Turn
    <2> QED
        BY <1>9, <2>1
<1>12. Siblings(words, parent) = siblings[n]
    BY DEF Siblings, siblings
<1> QED
    BY <1>10, <1>11, <1>12

LEMMA SortedCodes ==
    ASSUME NEW words \in Seq(Seq(Character)), Sorted(words), NEW d \in Nat,
           NEW l \in 0 .. Len(words) - 1, NEW m \in 0 .. Len(words) - 1, l <= m,
           Agree(words, l, m, d)
    PROVE  CodeAt(words[l + 1], d + 1) <= CodeAt(words[m + 1], d + 1)
<1> DEFINE v == words[l + 1]
           w == words[m + 1]
<1>1. v \in Seq(Character) /\ w \in Seq(Character) /\ d + 1 \in Nat \ {0}
    OBVIOUS
<1>2. CodeAt(v, d + 1) \in Nat /\ CodeAt(w, d + 1) \in Nat
    BY <1>1, CodesOfWord
<1>3. CASE d + 1 \notin DOMAIN v
    <2>1. CodeAt(v, d + 1) = 0
        BY <1>3 DEF CodeAt
    <2> QED
        BY <1>2, <2>1
<1>4. CASE l = m
    BY <1>2, <1>4
<1>5. CASE d + 1 \in DOMAIN v /\ l < m
    <2>1. l + 1 \in DOMAIN words /\ m + 1 \in DOMAIN words /\ l + 1 < m + 1
        BY <1>5
    <2>2. (d + 1) - 1 = d
        OBVIOUS
    <2>3. \A j \in 1 .. (d + 1) - 1 : CodeAt(v, j) = CodeAt(w, j)
        BY <2>2 DEF Agree
    <2> QED
        BY <1>5, <2>1, <2>3, Zenon DEF Sorted
<1> QED
    BY <1>3, <1>4, <1>5

(* The lines of an inner node.                                             *)
LEMMA InnerLines ==
    ASSUME NEW words \in Seq(Seq(Character)), NEW n, Inner(words, n),
           NEW l \in n.left .. n.right - 1, NEW m \in n.left .. n.right - 1
    PROVE  /\ m \in 0 .. Len(words) - 1 /\ Len(words[m + 1]) >= n.depth
           /\ Agree(words, l, m, n.depth)
<1>1. /\ n.depth \in Nat /\ n.left \in Nat /\ n.right \in Nat /\ n.left < n.right
      /\ n.right <= Len(words) /\ Len(words[n.left + 1]) >= n.depth
    BY DEF Inner, IsNode, Node
<1>2. l \in 0 .. Len(words) - 1 /\ m \in 0 .. Len(words) - 1 /\ n.left \in 0 .. Len(words) - 1
    BY <1>1
<1>3. Agree(words, n.left, l, n.depth) /\ Agree(words, n.left, m, n.depth)
    BY <1>2 DEF Inner, IsNode
<1>4. Agree(words, l, m, n.depth)
    BY <1>3 DEF Agree
<1>5. Len(words[m + 1]) >= n.depth
    <2>1. words[m + 1] \in Seq(Character) /\ words[n.left + 1] \in Seq(Character)
        BY <1>2
    <2>2. CASE n.depth = 0
        BY <2>1, <2>2
    <2>3. CASE n.depth # 0
        <3>1. n.depth \in Nat \ {0} /\ n.depth \in 1 .. n.depth
            BY <1>1, <2>3
        <3>2. CodeAt(words[n.left + 1], n.depth) = CodeAt(words[m + 1], n.depth)
            BY <1>3, <3>1 DEF Agree
        <3>3. CodeAt(words[n.left + 1], n.depth) = 0 <=> Len(words[n.left + 1]) < n.depth
            BY <2>1, <3>1, CodesOfWord
        <3>4. CodeAt(words[m + 1], n.depth) = 0 <=> Len(words[m + 1]) < n.depth
            BY <2>1, <3>1, CodesOfWord
        <3> QED
            BY <1>1, <2>1, <3>2, <3>3, <3>4
    <2> QED
        BY <2>2, <2>3
<1> QED
    BY <1>2, <1>4, <1>5

(* What the lines of a node before line l make, when there are some.       *)
Parts(words, n, s, l) ==
    /\ s \in Seq(Node) /\ s # <<>> /\ s[Len(s)].right = l
    /\ \A k \in 1 .. Len(s) :
          /\ s[k].depth = n.depth + 1
          /\ n.left <= s[k].left /\ s[k].left < s[k].right /\ s[k].right <= l
          /\ \A m \in s[k].left .. s[k].right - 1 : CodeAt(words[m + 1], n.depth + 1) = s[k].code
    /\ \A m \in n.left .. l - 1 : \E k \in 1 .. Len(s) : m \in s[k].left .. s[k].right - 1
    /\ \A j, k \in 1 .. Len(s) : j < k => s[j].code < s[k].code

LEMMA PartsFirst ==
    ASSUME NEW words \in Seq(Seq(Character)), NEW n, Inner(words, n)
    PROVE  Parts(words, n, WithLine(words, n, <<>>, n.left), n.left + 1)
<1> DEFINE left == n.left
           code == CodeAt(words[left + 1], n.depth + 1)
           e == [depth |-> n.depth + 1, left |-> left, right |-> left + 1, code |-> code]
           s == <<e>>
<1>1. n \in Node /\ n.depth \in Nat /\ left \in Nat /\ left \in 0 .. Len(words) - 1
    BY DEF Inner, IsNode, Node
<1>2. WithLine(words, n, <<>>, left) = s
    <2>1. ~ (Len(words[left + 1]) < n.depth)
        <3>1. words[left + 1] \in Seq(Character)
            BY <1>1
        <3> QED
            BY <1>1, <3>1 DEF Inner
    <2> QED
        BY <2>1 DEF WithLine
<1>3. code \in Nat
    <2>1. words[left + 1] \in Seq(Character) /\ n.depth + 1 \in Nat \ {0}
        BY <1>1
    <2> QED
        BY <2>1, CodesOfWord
<1>4. \A m : m = left => CodeAt(words[m + 1], n.depth + 1) = code
    OBVIOUS
<1> HIDE DEF left, code
<1>5. e \in Node
    BY <1>1, <1>3 DEF Node
<1>6. e.depth = n.depth + 1 /\ e.left = left /\ e.right = left + 1 /\ e.code = code
    OBVIOUS
<1> HIDE DEF e
<1>7. s \in Seq(Node) /\ s # <<>> /\ Len(s) = 1 /\ s[1] = e
    BY <1>5
<1> HIDE DEF s
<1>8. \A m \in left .. (left + 1) - 1 : m = left
    BY <1>1
<1>9. \A k \in 1 .. Len(s) : k = 1
    BY <1>7
<1>10. \A m \in e.left .. e.right - 1 : CodeAt(words[m + 1], n.depth + 1) = e.code
    BY <1>4, <1>6, <1>8
<1>11. Parts(words, n, s, left + 1)
    BY <1>1, <1>6, <1>7, <1>9, <1>10 DEF Parts, left
<1> QED
    BY <1>2, <1>11 DEF left

LEMMA PartsNext ==
    ASSUME NEW words \in Seq(Seq(Character)), Sorted(words), NEW n, Inner(words, n),
           NEW l \in Nat, n.left < l, l < n.right, NEW s, Parts(words, n, s, l)
    PROVE  Parts(words, n, WithLine(words, n, s, l), l + 1)
<1> DEFINE d == n.depth + 1
           p == l - 1
           c(m) == CodeAt(words[m + 1], d)
           t == WithLine(words, n, s, l)
           last == Len(s)
<1>1. /\ n \in Node /\ n.depth \in Nat /\ n.left \in Nat /\ n.right \in Nat
      /\ l \in n.left .. n.right - 1 /\ p \in n.left .. n.right - 1 /\ p \in Nat /\ l = p + 1
      /\ d \in Nat \ {0} /\ n.right <= Len(words) /\ p < l
    BY DEF Inner, IsNode, Node
<1>2. /\ l \in 0 .. Len(words) - 1 /\ p \in 0 .. Len(words) - 1 /\ p <= l
      /\ Len(words[l + 1]) >= n.depth /\ Agree(words, p, l, n.depth)
    <2> HIDE DEF p
    <2> QED
        BY <1>1, InnerLines
<1>3. /\ s \in Seq(Node) /\ last \in Nat /\ last > 0 /\ s[last].right = l
      /\ s # <<>> /\ DOMAIN s = 1 .. last
      /\ \A k \in 1 .. last : s[k] \in Node
      /\ last \in 1 .. last
    BY DEF Parts
<1>4. \A k \in 1 .. last : s[k].left \in Nat /\ s[k].right \in Nat /\ s[k].code \in Nat
    BY <1>3 DEF Node
<1>5. ASSUME NEW k \in 1 .. last
      PROVE  /\ s[k].depth = d
             /\ n.left <= s[k].left /\ s[k].left < s[k].right /\ s[k].right <= l
             /\ \A m \in s[k].left .. s[k].right - 1 : c(m) = s[k].code
    BY DEF Parts
<1>6. \A m \in n.left .. p : \E k \in 1 .. last : m \in s[k].left .. s[k].right - 1
    BY DEF Parts
<1>7. \A j, k \in 1 .. last : j < k => s[j].code < s[k].code
    BY DEF Parts
<1>8. c(l) \in Nat
    <2>1. words[l + 1] \in Seq(Character)
        BY <1>2
    <2> HIDE DEF d
    <2> QED
        BY <1>1, <2>1, CodesOfWord
<1>9. s[last].code <= c(l)
    <2>1. s[last].left \in Nat /\ s[last].left < l /\ s[last].right = l
        BY <1>3, <1>4, <1>5, Zenon
    <2>2. p \in s[last].left .. s[last].right - 1
        BY <1>1, <2>1
    <2>3. c(p) = s[last].code
        BY <1>3, <1>5, <2>2, Zenon
    <2>4. c(p) <= c(l)
        <3> HIDE DEF p
        <3> QED
            BY <1>1, <1>2, SortedCodes
    <2> QED
        BY <2>3, <2>4
<1>10. ~ (Len(words[l + 1]) < n.depth)
    <2>1. words[l + 1] \in Seq(Character)
        BY <1>2
    <2>2. Len(words[l + 1]) \in Nat
        BY <2>1
    <2> QED
        BY <1>1, <1>2, <2>2
<1>11. c(l) = s[last].code => t = Extended(s, l + 1)
    BY <1>3 DEF WithLine
<1>12. c(l) # s[last].code =>
           t = Append(s, [depth |-> d, left |-> l, right |-> l + 1, code |-> c(l)])
    BY <1>3, <1>10 DEF WithLine
<1>13. /\ \A m : m \in n.left .. (l + 1) - 1 => m = l \/ m \in n.left .. p
       /\ \A m : m \in l .. (l + 1) - 1 => m = l
    BY <1>1
<1> DEFINE Goal == Parts(words, n, t, l + 1)
<1>14. ASSUME t \in Seq(Node), t # <<>>, t[Len(t)].right = l + 1,
              \A k \in 1 .. Len(t) :
                 /\ t[k].depth = d
                 /\ n.left <= t[k].left /\ t[k].left < t[k].right /\ t[k].right <= l + 1
                 /\ \A m \in t[k].left .. t[k].right - 1 : c(m) = t[k].code,
              \A m \in n.left .. p : \E k \in 1 .. Len(t) : m \in t[k].left .. t[k].right - 1,
              \E k \in 1 .. Len(t) : l \in t[k].left .. t[k].right - 1,
              \A j, k \in 1 .. Len(t) : j < k => t[j].code < t[k].code
       PROVE  Goal
    <2> HIDE DEF t, p
    <2>1. \A m \in n.left .. (l + 1) - 1 : \E k \in 1 .. Len(t) : m \in t[k].left .. t[k].right - 1
        BY <1>13, <1>14
    <2> QED
        BY <1>14, <2>1 DEF Parts
<1> HIDE DEF d, p, c, t, last, Goal
<1>15. CASE c(l) = s[last].code
    <2>1. /\ t \in Seq(Node) /\ Len(t) = last
          /\ \A k \in 1 .. last : /\ t[k].depth = s[k].depth /\ t[k].left = s[k].left
                                  /\ t[k].code = s[k].code
                                  /\ t[k].right = IF k = last THEN l + 1 ELSE s[k].right
        <3>1. l + 1 \in Nat /\ t = Extended(s, l + 1) /\ s \in Seq(Node)
            BY <1>3, <1>11, <1>15
        <3> QED
            BY <3>1, ExtendedSiblings DEF last
    <2>2. t # <<>> /\ t[Len(t)].right = l + 1
        BY <1>3, <2>1
    <2>3. ASSUME NEW k \in 1 .. last
          PROVE  /\ t[k].depth = d
                 /\ n.left <= t[k].left /\ t[k].left < t[k].right /\ t[k].right <= l + 1
                 /\ \A m \in t[k].left .. t[k].right - 1 : c(m) = t[k].code
        <3>1. /\ s[k].left \in Nat /\ s[k].right \in Nat /\ s[k].depth = d
              /\ n.left <= s[k].left /\ s[k].left < s[k].right /\ s[k].right <= l
              /\ \A m \in s[k].left .. s[k].right - 1 : c(m) = s[k].code
            BY <1>4, <1>5
        <3>2. /\ t[k].depth = s[k].depth /\ t[k].left = s[k].left /\ t[k].code = s[k].code
              /\ t[k].right = IF k = last THEN l + 1 ELSE s[k].right
            BY <2>1
        <3>3. n.left <= t[k].left /\ t[k].left < t[k].right /\ t[k].right <= l + 1
            BY <1>1, <3>1, <3>2
        <3>4. CASE k # last
            BY <3>1, <3>2, <3>3, <3>4
        <3>5. CASE k = last
            <4>1. s[k].right = l /\ t[k].right = l + 1
                BY <1>3, <3>2, <3>5
            <4>2. \A m \in t[k].left .. t[k].right - 1 : m \in s[k].left .. s[k].right - 1 \/ m = l
                BY <3>1, <3>2, <4>1
            <4>3. \A m \in t[k].left .. t[k].right - 1 : c(m) = t[k].code
                BY <1>15, <3>1, <3>2, <3>5, <4>2
            <4> QED
                BY <3>1, <3>2, <3>3, <4>3
        <3> QED
            BY <3>4, <3>5
    <2>4. ASSUME NEW m \in n.left .. p PROVE \E k \in 1 .. Len(t) : m \in t[k].left .. t[k].right - 1
        <3>1. PICK k \in 1 .. last : m \in s[k].left .. s[k].right - 1
            BY <1>6
        <3>2. /\ s[k].left \in Nat /\ s[k].right \in Nat /\ t[k].left = s[k].left
              /\ s[k].right <= l /\ t[k].right = IF k = last THEN l + 1 ELSE s[k].right
            BY <1>4, <1>5, <2>1
        <3>3. m \in t[k].left .. t[k].right - 1
            BY <3>1, <3>2
        <3> QED
            BY <2>1, <3>3
    <2>5. \E k \in 1 .. Len(t) : l \in t[k].left .. t[k].right - 1
        <3>1. last \in 1 .. last
            BY <1>3
        <3>4. s[last].left \in Nat /\ s[last].left < s[last].right /\ s[last].right = l
            BY <1>3, <1>4, <1>5, <3>1, Zenon
        <3>5. t[last].left = s[last].left /\ t[last].right = l + 1
            BY <2>1, <3>1
        <3>2. t[last].left <= l /\ t[last].right = l + 1 /\ t[last].left \in Nat
            BY <3>4, <3>5
        <3>3. l \in t[last].left .. t[last].right - 1
            BY <1>1, <3>2
        <3> QED
            BY <2>1, <3>1, <3>3
    <2>6. \A j, k \in 1 .. Len(t) : j < k => t[j].code < t[k].code
        BY <1>7, <2>1
    <2> QED
        BY <1>14, <2>1, <2>2, <2>3, <2>4, <2>5, <2>6 DEF Goal, t
<1>16. CASE c(l) # s[last].code
    <2> DEFINE e == [depth |-> d, left |-> l, right |-> l + 1, code |-> c(l)]
    <2>1. e \in Node
        BY <1>1, <1>8 DEF Node
    <2>2. e.depth = d /\ e.left = l /\ e.right = l + 1 /\ e.code = c(l)
        OBVIOUS
    <2>3. t = Append(s, e)
        BY <1>12, <1>16
    <2> HIDE DEF e
    <2>4. /\ t \in Seq(Node) /\ Len(t) = last + 1 /\ t[last + 1] = e
          /\ \A k \in 1 .. last : t[k] = s[k]
        BY <1>3, <2>1, <2>3, AppendProperties DEF last
    <2>5. \A k \in 1 .. Len(t) : k \in 1 .. last \/ k = last + 1
        BY <1>3, <2>4
    <2>6. t # <<>> /\ t[Len(t)].right = l + 1
        BY <1>3, <2>2, <2>4
    <2>7. ASSUME NEW k \in 1 .. Len(t)
          PROVE  /\ t[k].depth = d
                 /\ n.left <= t[k].left /\ t[k].left < t[k].right /\ t[k].right <= l + 1
                 /\ \A m \in t[k].left .. t[k].right - 1 : c(m) = t[k].code
        <3>1. CASE k \in 1 .. last
            <4>1. /\ t[k] = s[k] /\ s[k].left \in Nat /\ s[k].right \in Nat /\ s[k].depth = d
                  /\ n.left <= s[k].left /\ s[k].left < s[k].right /\ s[k].right <= l
                  /\ \A m \in s[k].left .. s[k].right - 1 : c(m) = s[k].code
                BY <1>4, <1>5, <2>4, <3>1
            <4>2. s[k].right <= l + 1
                BY <4>1
            <4> QED
                BY <4>1, <4>2
        <3>2. CASE k = last + 1
            BY <1>1, <1>13, <2>2, <2>4, <3>2
        <3> QED
            BY <2>5, <3>1, <3>2
    <2>8. ASSUME NEW m \in n.left .. p PROVE \E k \in 1 .. Len(t) : m \in t[k].left .. t[k].right - 1
        <3>1. PICK k \in 1 .. last : m \in s[k].left .. s[k].right - 1
            BY <1>6
        <3>2. k \in 1 .. Len(t) /\ t[k] = s[k]
            BY <1>3, <2>4
        <3> QED
            BY <3>1, <3>2
    <2>9. \E k \in 1 .. Len(t) : l \in t[k].left .. t[k].right - 1
        <3>1. l \in t[last + 1].left .. t[last + 1].right - 1
            BY <1>1, <2>2, <2>4
        <3> QED
            BY <1>3, <2>4, <3>1
    <2>10. ASSUME NEW j \in 1 .. Len(t), NEW k \in 1 .. Len(t), j < k
          PROVE  t[j].code < t[k].code
        <3>1. j \in 1 .. last
            BY <1>3, <2>4, <2>10
        <3>2. CASE k \in 1 .. last
            BY <1>7, <2>4, <2>10, <3>1, <3>2
        <3>3. CASE k = last + 1
            <4>1. last \in 1 .. last /\ s[last].code \in Nat /\ s[j].code \in Nat
                BY <1>3, <1>4, <3>1
            <4>2. s[last].code < c(l)
                BY <1>8, <1>9, <1>16, <4>1
            <4>3. j = last \/ j < last
                BY <1>3, <3>1
            <4>4. s[j].code <= s[last].code
                BY <1>7, <3>1, <4>1, <4>3
            <4>5. t[j].code = s[j].code /\ t[k].code = c(l)
                BY <2>2, <2>4, <3>1, <3>3
            <4> QED
                BY <1>8, <4>1, <4>2, <4>4, <4>5
        <3> QED
            BY <2>5, <3>2, <3>3
    <2> QED
        BY <1>14, <2>4, <2>6, <2>7, <2>8, <2>9, <2>10 DEF Goal, t
<1> QED
    BY <1>15, <1>16 DEF Goal, t

LEMMA SiblingsParts ==
    ASSUME NEW words \in Seq(Seq(Character)), Sorted(words), NEW n, Inner(words, n)
    PROVE  Parts(words, n, Siblings(words, n), n.right)
<1> DEFINE len == n.right - n.left
<1>1. /\ n \in Node /\ n.left \in Nat /\ n.right \in Nat /\ n.left < n.right
      /\ n.right <= Len(words) /\ len \in Nat /\ len > 0
    BY DEF Inner, IsNode, Node
<1>2. PICK f : /\ Siblings(words, n) = f[len] /\ f[0] = <<>>
               /\ \A i \in 1 .. len : f[i] = WithLine(words, n, f[i - 1], n.left + i - 1)
    BY <1>1, SiblingsLoop
<1> DEFINE T == {i \in Nat : i + 1 <= len => Parts(words, n, f[i + 1], n.left + (i + 1))}
<1>3. 0 \in T
    <2>1. 1 \in 1 .. len /\ 1 - 1 = 0 /\ n.left + 1 - 1 = n.left
        BY <1>1
    <2>2. f[1] = WithLine(words, n, <<>>, n.left)
        BY <1>2, <2>1
    <2>3. Parts(words, n, f[1], n.left + 1)
        BY <2>2, PartsFirst
    <2> QED
        BY <2>3
<1>4. ASSUME NEW i \in Nat, i \in T PROVE i + 1 \in T
    <2> SUFFICES ASSUME (i + 1) + 1 <= len
                 PROVE  Parts(words, n, f[(i + 1) + 1], n.left + ((i + 1) + 1))
        OBVIOUS
    <2> DEFINE l == n.left + (i + 1)
    <2>1. l \in Nat /\ n.left < l /\ l < n.right
        BY <1>1
    <2>2. Parts(words, n, f[i + 1], l)
        BY <1>1, <1>4
    <2>3. /\ (i + 1) + 1 \in 1 .. len /\ ((i + 1) + 1) - 1 = i + 1
          /\ n.left + ((i + 1) + 1) - 1 = l /\ n.left + ((i + 1) + 1) = l + 1
        <3>1. \A a, b, e \in Nat : b - a = e /\ (i + 1) + 1 <= e =>
                  /\ (i + 1) + 1 \in 1 .. e /\ ((i + 1) + 1) - 1 = i + 1
                  /\ a + ((i + 1) + 1) - 1 = a + (i + 1) /\ a + ((i + 1) + 1) = (a + (i + 1)) + 1
            OBVIOUS
        <3> QED
            BY <1>1, <3>1
    <2>4. f[(i + 1) + 1] = WithLine(words, n, f[i + 1], l)
        BY <1>2, <2>3
    <2> HIDE DEF l
    <2>5. Parts(words, n, f[(i + 1) + 1], l + 1)
        BY <2>1, <2>2, <2>4, PartsNext
    <2> QED
        BY <2>3, <2>5
<1>5. len - 1 \in T
    <2> HIDE DEF T
    <2>1. \A i \in Nat : i \in T => i + 1 \in T
        BY <1>4
    <2>2. Nat \subseteq T
        BY <1>3, <2>1, Strings!Induction
    <2> QED
        BY <1>1, <2>2
<1>6. (len - 1) + 1 = len /\ n.left + len = n.right
    BY <1>1
<1>7. Parts(words, n, f[len], n.left + len)
    <2> HIDE DEF len
    <2> QED
        BY <1>1, <1>5, <1>6
<1> QED
    BY <1>2, <1>6, <1>7

(* The children of an inner node are nodes, one for each next code of its  *)
(* lines, the codes ascending.                                             *)
Children(words, n, s) ==
    /\ s \in Seq(Node) /\ s # <<>>
    /\ \A k \in 1 .. Len(s) :
          /\ IsNode(words, s[k]) /\ s[k].depth = n.depth + 1
          /\ n.left <= s[k].left /\ s[k].right <= n.right
          /\ s[k].code = CodeAt(words[s[k].left + 1], n.depth + 1)
          /\ s[k].code # 0 => Inner(words, s[k])
    /\ \A m \in n.left .. n.right - 1 : \E k \in 1 .. Len(s) : m \in s[k].left .. s[k].right - 1
    /\ \A j, k \in 1 .. Len(s) : j < k => s[j].code < s[k].code

LEMMA InnerSiblings ==
    ASSUME NEW words \in Seq(Seq(Character)), Sorted(words), NEW n, Inner(words, n)
    PROVE  Children(words, n, Siblings(words, n))
<1> DEFINE s == Siblings(words, n)
           d == n.depth + 1
           c(m) == CodeAt(words[m + 1], d)
<1>1. /\ n \in Node /\ n.left \in Nat /\ n.right \in Nat /\ n.depth \in Nat
      /\ n.right <= Len(words) /\ d \in Nat \ {0}
    BY DEF Inner, IsNode, Node
<1>2. Parts(words, n, s, n.right)
    BY SiblingsParts
<1> HIDE DEF s
<1>3. /\ s \in Seq(Node) /\ s # <<>>
      /\ \A m \in n.left .. n.right - 1 : \E k \in 1 .. Len(s) : m \in s[k].left .. s[k].right - 1
      /\ \A j, k \in 1 .. Len(s) : j < k => s[j].code < s[k].code
    BY <1>2 DEF Parts
<1>4. ASSUME NEW k \in 1 .. Len(s)
      PROVE  /\ s[k] \in Node /\ s[k].depth = d /\ s[k].code \in Nat
             /\ s[k].left \in Nat /\ s[k].right \in Nat
             /\ n.left <= s[k].left /\ s[k].left < s[k].right /\ s[k].right <= n.right
             /\ \A m \in s[k].left .. s[k].right - 1 : c(m) = s[k].code
    <2>1. s[k] \in Node
        BY <1>3
    <2> QED
        BY <1>2, <2>1 DEF Parts, Node
<1>5. ASSUME NEW k \in 1 .. Len(s)
      PROVE  /\ IsNode(words, s[k]) /\ s[k].code = c(s[k].left)
             /\ s[k].code # 0 => Inner(words, s[k])
    <2> DEFINE left == s[k].left
    <2>1. left \in s[k].left .. s[k].right - 1 /\ left \in 0 .. Len(words) - 1
        BY <1>1, <1>4
    <2>2. left \in n.left .. n.right - 1
        BY <1>1, <1>4
    <2>3. c(left) = s[k].code
        BY <1>4, <2>1
    <2>4. ASSUME NEW m \in 0 .. Len(words) - 1, m \in s[k].left .. s[k].right - 1
          PROVE  Agree(words, left, m, d)
        <3>1. m \in n.left .. n.right - 1
            BY <1>1, <1>4, <2>4
        <3>2. Agree(words, left, m, n.depth)
            BY <2>2, <3>1, InnerLines
        <3>3. c(m) = c(left)
            BY <1>4, <2>3, <2>4
        <3>4. \A j \in 1 .. d : j = d \/ j \in 1 .. n.depth
            BY <1>1
        <3> HIDE DEF left
        <3> QED
            BY <3>2, <3>3, <3>4 DEF Agree
    <2>5. ASSUME NEW m \in 0 .. Len(words) - 1, Agree(words, left, m, d)
          PROVE  m \in s[k].left .. s[k].right - 1
        <3>1. Agree(words, left, m, n.depth) /\ c(left) = c(m)
            <4>1. d \in 1 .. d /\ \A j \in 1 .. n.depth : j \in 1 .. d
                BY <1>1
            <4> HIDE DEF left
            <4> QED
                BY <2>5, <4>1 DEF Agree
        <3>2. n.left \in n.left .. n.right - 1
            BY <1>1 DEF Inner, IsNode
        <3>3. Agree(words, n.left, left, n.depth)
            BY <2>2, <3>2, InnerLines
        <3>4. Agree(words, n.left, m, n.depth)
            BY <3>1, <3>3 DEF Agree
        <3>5. m \in n.left .. n.right - 1
            BY <3>4 DEF Inner, IsNode
        <3>6. PICK j \in 1 .. Len(s) : m \in s[j].left .. s[j].right - 1
            BY <1>3, <3>5
        <3>7. s[j].code = s[k].code
            BY <1>4, <2>3, <3>1, <3>6
        <3>8. ~ (j < k) /\ ~ (k < j)
            <4>1. s[j].code \in Nat /\ s[k].code \in Nat
                BY <1>4
            <4> QED
                BY <1>3, <3>7, <4>1
        <3>9. j = k
            <4>1. j \in Nat /\ k \in Nat
                BY <1>3
            <4> QED
                BY <3>8, <4>1
        <3> QED
            BY <3>6, <3>9
    <2>6. IsNode(words, s[k])
        <3>1. s[k].right <= Len(words) /\ s[k].left < s[k].right /\ s[k] \in Node
            BY <1>1, <1>4
        <3>2. s[k].code = CodeAt(words[s[k].left + 1], s[k].depth)
            BY <1>4, <2>3
        <3>3. s[k].depth = d
            BY <1>4
        <3> QED
            BY <2>4, <2>5, <3>1, <3>2, <3>3 DEF IsNode
    <2>7. ASSUME s[k].code # 0 PROVE Inner(words, s[k])
        <3>1. words[left + 1] \in Seq(Character)
            BY <2>1
        <3>2. ~ (Len(words[left + 1]) < d)
            <4> HIDE DEF d, left
            <4> QED
                BY <1>1, <2>3, <2>7, <3>1, CodesOfWord
        <3>3. Len(words[left + 1]) >= d
            BY <1>1, <3>1, <3>2
        <3> QED
            BY <1>4, <2>6, <3>3 DEF Inner
    <2> QED
        BY <2>3, <2>6, <2>7
<1> QED
    BY <1>3, <1>4, <1>5 DEF Children, s

(* A term that ended has no further characters.                            *)
LEMMA LeafSiblings ==
    ASSUME NEW words \in Seq(Seq(Character)), NEW n, IsNode(words, n), n.depth > 0, n.code = 0
    PROVE  Siblings(words, n) = <<>>
<1> DEFINE len == n.right - n.left
<1>1. /\ n \in Node /\ n.left \in Nat /\ n.right \in Nat /\ n.depth \in Nat \ {0}
      /\ n.left < n.right /\ n.right <= Len(words) /\ len \in Nat
    BY DEF IsNode, Node
<1>2. PICK f : /\ Siblings(words, n) = f[len] /\ f[0] = <<>>
               /\ \A i \in 1 .. len : f[i] = WithLine(words, n, f[i - 1], n.left + i - 1)
    BY <1>1, SiblingsLoop
<1>3. ASSUME NEW m \in n.left .. n.right - 1 PROVE Len(words[m + 1]) < n.depth
    <2>1. m \in 0 .. Len(words) - 1
        BY <1>1
    <2>2. Agree(words, n.left, m, n.depth)
        BY <2>1 DEF IsNode
    <2>3. n.depth \in 1 .. n.depth
        BY <1>1
    <2>4. CodeAt(words[m + 1], n.depth) = 0
        BY <1>1, <2>2, <2>3 DEF IsNode, Agree
    <2>5. words[m + 1] \in Seq(Character)
        BY <2>1
    <2> QED
        BY <1>1, <2>4, <2>5, CodesOfWord
<1> DEFINE T == {i \in Nat : i <= len => f[i] = <<>>}
<1>4. 0 \in T
    BY <1>2
<1>5. ASSUME NEW i \in Nat, i \in T PROVE i + 1 \in T
    <2> SUFFICES ASSUME i + 1 <= len PROVE f[i + 1] = <<>>
        OBVIOUS
    <2>1. /\ i + 1 \in 1 .. len /\ (i + 1) - 1 = i /\ n.left + (i + 1) - 1 = n.left + i
          /\ n.left + i \in n.left .. n.right - 1 /\ i <= len
        BY <1>1
    <2>2. f[i] = <<>>
        BY <1>5, <2>1
    <2>3. f[i + 1] = WithLine(words, n, <<>>, n.left + i)
        BY <1>2, <2>1, <2>2
    <2>4. WithLine(words, n, <<>>, n.left + i) = Extended(<<>>, n.left + i + 1)
        BY <1>3, <2>1 DEF WithLine
    <2>5. \A r : Extended(<<>>, r) = <<>>
        BY DEF Extended
    <2> QED
        BY <2>3, <2>4, <2>5
<1>6. len \in T
    <2> HIDE DEF T
    <2>1. \A i \in Nat : i \in T => i + 1 \in T
        BY <1>5
    <2>2. Nat \subseteq T
        BY <1>4, <2>1, Strings!Induction
    <2> QED
        BY <1>1, <2>2
<1> QED
    BY <1>1, <1>2, <1>6

LEMMA RootInner ==
    ASSUME dicts \in Seq(Seq(Character)), dicts # <<>>
    PROVE  Inner(dicts, Root)
<1>1. Len(dicts) \in Nat /\ Len(dicts) > 0
    OBVIOUS
<1>2. /\ Root.depth = 0 /\ Root.left = 0 /\ Root.right = Len(dicts) /\ Root.code = 0
      /\ Root \in Node
    BY <1>1 DEF Root, Node
<1>3. \A m \in 0 .. Len(dicts) - 1 : Agree(dicts, 0, m, 0)
    BY DEF Agree
<1>4. IsNode(dicts, Root)
    BY <1>1, <1>2, <1>3 DEF IsNode
<1>5. dicts[0 + 1] \in Seq(Character)
    BY <1>1
<1> QED
    BY <1>2, <1>4, <1>5 DEF Inner

-----------------------------------------------------------------------------
(* The calls in progress insert the children of the nodes on one path from *)
(* the root.                                                               *)
Call_ == [siblings : Seq(Node), begin : Nat, at : Nat]

Parent(i) == IF i = 1 THEN Root ELSE stack[i - 1].siblings[stack[i - 1].at]

Placed(i) == i < Len(stack) \/ pc = "fill"

CallOK(i) ==
    /\ Inner(dicts, Parent(i)) /\ stack[i].siblings = Siblings(dicts, Parent(i))
    /\ stack[i].at >= 1 /\ stack[i].at <= Len(stack[i].siblings) + 1
    /\ i < Len(stack) => stack[i].at <= Len(stack[i].siblings)

Calls ==
    /\ dicts \in Seq(Seq(Character)) /\ dicts # <<>> /\ Sorted(dicts)
    /\ stack \in Seq(Call_)
    /\ pc \in {"scan", "fill", "done"} /\ (stack = <<>> <=> pc = "done")
    /\ \A i \in 1 .. Len(stack) : CallOK(i)
    /\ pos \in Nat /\ next_check_pos \in Nat
    /\ pc = "scan" => Top.siblings[1].code <= pos

(* The innermost call.                                                     *)
LEMMA TopCall ==
    ASSUME Calls, pc # "done"
    PROVE  /\ Len(stack) \in Nat /\ Len(stack) > 0 /\ Top \in Call_ /\ stack # <<>>
           /\ CallOK(Len(stack)) /\ Children(dicts, Parent(Len(stack)), Top.siblings)
           /\ Len(Top.siblings) \in Nat /\ Len(Top.siblings) > 0
           /\ \A k \in 1 .. Len(Top.siblings) : Top.siblings[k] \in Node
<1>1. stack \in Seq(Call_) /\ stack # <<>>
    BY DEF Calls
<1>2. Len(stack) \in Nat /\ Len(stack) > 0 /\ Top \in Call_
    BY <1>1 DEF Top
<1>3. CallOK(Len(stack))
    BY <1>2 DEF Calls
<1>4. Children(dicts, Parent(Len(stack)), Siblings(dicts, Parent(Len(stack))))
    BY <1>3, InnerSiblings DEF Calls, CallOK
<1>5. Children(dicts, Parent(Len(stack)), Top.siblings)
    BY <1>3, <1>4 DEF CallOK, Top
<1>6. Top.siblings \in Seq(Node) /\ Top.siblings # <<>>
    BY <1>5 DEF Children
<1> QED
    BY <1>1, <1>2, <1>3, <1>5, <1>6

LEMMA CallsInit ==
    ASSUME FilesSorted, Init
    PROVE  Calls
<1>1. dicts \in Seq(Seq(Character)) /\ dicts # <<>> /\ Sorted(dicts)
    BY Zenon DEF Init, FilesSorted
<1> DEFINE s == Siblings(dicts, Root)
<1>2. stack = <<Frame(s, 0, 1)>> /\ pos = s[1].code /\ next_check_pos = 0 /\ pc = "scan"
    BY DEF Init, FetchSiblings
<1>3. Inner(dicts, Root)
    BY <1>1, RootInner
<1>4. Children(dicts, Root, s)
    BY <1>1, <1>3, InnerSiblings
<1> HIDE DEF s
<1>5. s \in Seq(Node) /\ s # <<>>
    BY <1>4 DEF Children
<1>6. Len(s) \in Nat /\ Len(s) >= 1 /\ s[1] \in Node
    BY <1>5
<1>7. s[1].code \in Nat
    BY <1>6 DEF Node
<1>8. Frame(s, 0, 1) \in Call_ /\ Frame(s, 0, 1).siblings = s /\ Frame(s, 0, 1).at = 1
    BY <1>5 DEF Frame, Call_
<1>9. stack \in Seq(Call_) /\ Len(stack) = 1 /\ stack # <<>> /\ stack[1] = Frame(s, 0, 1)
    BY <1>2, <1>8
<1>10. CallOK(1)
    BY <1>3, <1>6, <1>8, <1>9 DEF CallOK, Parent, s
<1>11. Top.siblings[1].code <= pos
    BY <1>2, <1>7, <1>8, <1>9 DEF Top
<1>12. \A i \in 1 .. Len(stack) : i = 1
    BY <1>9
<1> QED
    BY <1>1, <1>2, <1>7, <1>9, <1>10, <1>11, <1>12 DEF Calls

(* A step changes at most the last call, in which it goes on, ...          *)
LEMMA CallsReplaced ==
    ASSUME Calls, pc # "done", UNCHANGED dicts, NEW e \in Call_,
           stack' = [stack EXCEPT ![Len(stack)] = e],
           e.siblings = Top.siblings, e.at >= 1, e.at <= Len(e.siblings) + 1
    PROVE  /\ stack' \in Seq(Call_) /\ stack' # <<>> /\ Len(stack') = Len(stack)
           /\ \A i \in 1 .. Len(stack) : /\ stack'[i] = IF i = Len(stack) THEN e ELSE stack[i]
                                         /\ Parent(i)' = Parent(i) /\ CallOK(i)'
<1> DEFINE n == Len(stack)
<1>1. n \in Nat /\ n > 0 /\ stack \in Seq(Call_) /\ stack # <<>> /\ Top = stack[n]
    BY TopCall DEF Calls, Top
<1>2. /\ stack' \in Seq(Call_ \cup {e}) /\ Len(stack') = n /\ stack' # <<>>
      /\ \A i \in 1 .. n : stack'[i] = IF i = n THEN e ELSE stack[i]
    BY <1>1, LastReplaced
<1>3. Call_ \cup {e} = Call_
    OBVIOUS
<1>4. Root' = Root
    BY DEF Root
<1>5. ASSUME NEW i \in 1 .. n PROVE Parent(i)' = Parent(i)
    <2>1. CASE i = 1
        BY <1>4, <2>1 DEF Parent
    <2>2. CASE i # 1
        <3>1. i - 1 \in 1 .. n /\ i - 1 # n
            BY <1>1, <2>2
        <3>2. stack'[i - 1] = stack[i - 1]
            BY <1>2, <3>1
        <3> QED
            BY <1>4, <3>2 DEF Parent
    <2> QED
        BY <2>1, <2>2
<1>6. ASSUME NEW i \in 1 .. n PROVE CallOK(i)'
    <2>1. CallOK(i)
        BY DEF Calls
    <2>2. CASE i # n
        <3>1. stack'[i] = stack[i]
            BY <1>2, <2>2
        <3> QED
            BY <1>2, <1>5, <2>1, <3>1 DEF CallOK
    <2>3. CASE i = n
        <3>1. stack'[i] = e
            BY <1>2, <2>3
        <3>2. Inner(dicts, Parent(i)) /\ e.siblings = Siblings(dicts, Parent(i))
            BY <1>1, <2>1, <2>3 DEF CallOK
        <3>3. ~ (i < Len(stack'))
            BY <1>1, <1>2, <2>3
        <3> QED
            BY <1>5, <3>1, <3>2, <3>3 DEF CallOK
    <2> QED
        BY <2>2, <2>3
<1> QED
    BY <1>2, <1>3, <1>5, <1>6

(* ... which calls another, ...                                            *)
LEMMA CallsDeeper ==
    ASSUME Calls, FillDeeper
    PROVE  LET n == Len(stack)
               kid == Top.siblings[Top.at]
               called == Frame(Siblings(dicts, kid), 0, 1)
           IN  /\ stack' \in Seq(Call_) /\ stack' # <<>> /\ Len(stack') = n + 1
               /\ stack'[n + 1] = called /\ called \in Call_
               /\ \A i : i = n + 1 => Parent(i)' = kid
               /\ Children(dicts, kid, called.siblings)
               /\ \A i \in 1 .. n + 1 : CallOK(i)'
               /\ \A i \in 1 .. n : stack'[i] = stack[i] /\ Parent(i)' = Parent(i)
<1> DEFINE n == Len(stack)
           at == Top.at
           kid == Top.siblings[at]
           s == Siblings(dicts, kid)
           called == Frame(s, 0, 1)
<1>1. /\ pc = "fill" /\ at <= Len(Top.siblings) /\ s # <<>> /\ stack' = Append(stack, called)
      /\ UNCHANGED dicts
    BY DEF FillDeeper, Call, FetchSiblings
<1>2. /\ n \in Nat /\ n > 0 /\ stack \in Seq(Call_) /\ stack # <<>> /\ Top = stack[n] /\ CallOK(n)
      /\ Children(dicts, Parent(n), Top.siblings) /\ Len(Top.siblings) \in Nat
      /\ dicts \in Seq(Seq(Character)) /\ Sorted(dicts) /\ Top \in Call_
    BY <1>1, TopCall DEF Calls, Top
<1>3. at \in 1 .. Len(Top.siblings)
    BY <1>1, <1>2 DEF CallOK, Call_
<1>4. IsNode(dicts, kid) /\ kid.depth > 0 /\ (kid.code # 0 => Inner(dicts, kid))
    <2>1. IsNode(dicts, kid) /\ kid.depth = Parent(n).depth + 1 /\ (kid.code # 0 => Inner(dicts, kid))
        BY <1>2, <1>3 DEF Children
    <2>2. Parent(n).depth \in Nat
        BY <1>2 DEF CallOK, Inner, IsNode, Node
    <2> QED
        BY <2>1, <2>2
<1>5. Inner(dicts, kid)
    BY <1>1, <1>2, <1>4, LeafSiblings
<1>6. Children(dicts, kid, s)
    BY <1>2, <1>5, InnerSiblings
<1>7. s \in Seq(Node)
    BY <1>6 DEF Children
<1>8. called \in Call_ /\ called.siblings = s /\ called.at = 1
    <2> HIDE DEF s
    <2> QED
        BY <1>7 DEF Frame, Call_
<1> HIDE DEF called
<1>9. /\ stack' \in Seq(Call_) /\ Len(stack') = n + 1 /\ stack' # <<>> /\ stack'[n + 1] = called
      /\ \A i \in 1 .. n : stack'[i] = stack[i]
    BY <1>1, <1>2, <1>8, AppendProperties
<1>10. Root' = Root
    BY <1>1 DEF Root
<1>11. ASSUME NEW i \in 1 .. n PROVE Parent(i)' = Parent(i)
    <2>1. CASE i = 1
        BY <1>10, <2>1 DEF Parent
    <2>2. CASE i # 1
        <3>1. i - 1 \in 1 .. n
            BY <1>2, <2>2
        <3> QED
            BY <1>9, <1>10, <3>1 DEF Parent
    <2> QED
        BY <2>1, <2>2
<1>12. ASSUME NEW i, i = n + 1 PROVE Parent(i)' = kid
    <2>1. i # 1 /\ i - 1 = n /\ n \in 1 .. n
        BY <1>2, <1>12
    <2>2. stack'[i - 1] = Top
        BY <1>2, <1>9, <2>1
    <2> QED
        BY <2>1, <2>2 DEF Parent
<1>13. ASSUME NEW i \in 1 .. n PROVE CallOK(i)'
    <2>1. CallOK(i)
        BY DEF Calls
    <2>2. stack[i].at <= Len(stack[i].siblings)
        BY <1>1, <1>2, <2>1 DEF CallOK
    <2> QED
        BY <1>1, <1>9, <1>11, <2>1, <2>2 DEF CallOK
<1>14. ASSUME NEW i, i = n + 1 PROVE CallOK(i)'
    <2>1. ~ (i < Len(stack')) /\ Len(s) + 1 >= 1 /\ stack'[i] = called /\ Parent(i)' = kid
        BY <1>2, <1>7, <1>9, <1>12, <1>14
    <2> HIDE DEF s, kid
    <2> QED
        BY <1>1, <1>5, <1>8, <2>1 DEF CallOK, s
<1>15. \A i \in 1 .. n + 1 : i \in 1 .. n \/ i = n + 1
    BY <1>2
<1>16. \A i \in 1 .. n + 1 : CallOK(i)'
    BY <1>13, <1>14, <1>15
<1> QED
    BY <1>6, <1>8, <1>9, <1>11, <1>12, <1>16 DEF called

(* ... or it returns, and its caller goes on.                              *)
LEMMA CallsReturn ==
    ASSUME Calls, Return, Len(stack) > 1
    PROVE  LET n == Len(stack)
               caller == stack[n - 1]
           IN  /\ stack' \in Seq(Call_) /\ stack' # <<>> /\ Len(stack') = n - 1
               /\ stack'[n - 1] = NextSibling(caller)
               /\ caller \in Call_ /\ caller.at \in 1 .. Len(caller.siblings)
               /\ \A i \in 1 .. n - 2 : stack'[i] = stack[i]
               /\ \A i \in 1 .. n - 1 : CallOK(i)' /\ Parent(i)' = Parent(i)
               /\ base' = [d \in DOMAIN base \cup {Cell(caller, caller.at)} |->
                              IF d = Cell(caller, caller.at) THEN Top.begin ELSE base[d]]
               /\ pc' = "fill"
<1> DEFINE n == Len(stack)
           m == n - 1
           caller == stack[m]
           next == NextSibling(caller)
           rest == SubSeq(stack, 1, m)
<1>1. pc = "fill" /\ UNCHANGED dicts /\ stack \in Seq(Call_) /\ n \in Nat /\ m \in Nat /\ m > 0
    BY DEF Return, Calls
<1>2. /\ rest \in Seq(Call_) /\ Len(rest) = m /\ \A i \in 1 .. m : rest[i] = stack[i]
    BY <1>1, WithoutLast
<1>3. rest # <<>> /\ rest[Len(rest)] = caller
    <2>1. m \in 1 .. m
        BY <1>1
    <2> HIDE DEF rest
    <2> QED
        BY <1>1, <1>2, <2>1
<1>4. m \in 1 .. n /\ m < n
    BY <1>1
<1>5. caller \in Call_ /\ CallOK(m)
    BY <1>1, <1>4 DEF Calls
<1>6. caller.at \in 1 .. Len(caller.siblings) /\ Len(caller.siblings) \in Nat
    <2>1. caller.siblings \in Seq(Node) /\ caller.at \in Nat
        BY <1>5 DEF Call_
    <2> QED
        BY <1>4, <1>5, <2>1 DEF CallOK
<1>7. /\ next \in Call_ /\ next.siblings = caller.siblings /\ next.begin = caller.begin
      /\ next.at = caller.at + 1
    BY <1>5, <1>6 DEF NextSibling, Frame, Call_
<1>8. /\ stack' = [rest EXCEPT ![Len(rest)] = next] /\ pc' = pc
      /\ SetBase(Cell(caller, caller.at), Top.begin)
    <2> HIDE DEF rest, caller
    <2> QED
        BY <1>3 DEF Return, rest, m
<1>9. /\ stack' \in Seq(Call_ \cup {next}) /\ Len(stack') = m /\ stack' # <<>>
      /\ \A i \in 1 .. m : stack'[i] = IF i = m THEN next ELSE rest[i]
    <2> HIDE DEF rest, next, m
    <2> QED
        BY <1>1, <1>2, <1>3, <1>8, LastReplaced
<1>10. Call_ \cup {next} = Call_
    BY <1>7
<1> HIDE DEF rest, next
<1>11. Root' = Root
    BY <1>1 DEF Root
<1>12. ASSUME NEW i \in 1 .. m PROVE Parent(i)' = Parent(i)
    <2>1. CASE i = 1
        BY <1>11, <2>1 DEF Parent
    <2>2. CASE i # 1
        <3>1. i - 1 \in 1 .. m /\ i - 1 # m
            BY <1>1, <2>2
        <3>2. stack'[i - 1] = stack[i - 1]
            BY <1>2, <1>9, <3>1
        <3> QED
            BY <1>11, <3>2 DEF Parent
    <2> QED
        BY <2>1, <2>2
<1>13. ASSUME NEW i \in 1 .. m PROVE CallOK(i)'
    <2>1. CallOK(i) /\ i < n
        BY <1>1 DEF Calls
    <2>2. CASE i # m
        <3>1. stack'[i] = stack[i]
            BY <1>2, <1>9, <2>2
        <3> QED
            BY <1>1, <1>12, <2>1, <3>1 DEF CallOK
    <2>3. CASE i = m
        <3>1. stack'[i] = next /\ ~ (i < Len(stack'))
            BY <1>1, <1>9, <2>3
        <3>2. next.at >= 1 /\ next.at <= Len(next.siblings) + 1
            BY <1>6, <1>7
        <3> QED
            BY <1>1, <1>7, <1>12, <2>1, <2>3, <3>1, <3>2 DEF CallOK
    <2> QED
        BY <2>2, <2>3
<1>14. \A i \in 1 .. n - 2 : i \in 1 .. m /\ i # m
    BY <1>1
<1>15. m \in 1 .. m
    BY <1>1
<1>16. stack'[m] = next /\ \A i \in 1 .. n - 2 : stack'[i] = stack[i]
    BY <1>2, <1>9, <1>14, <1>15
<1>17. base' = [d \in DOMAIN base \cup {Cell(caller, caller.at)} |->
                   IF d = Cell(caller, caller.at) THEN Top.begin ELSE base[d]]
    BY <1>8, Zenon DEF SetBase
<1> QED
    BY <1>1, <1>5, <1>6, <1>8, <1>9, <1>10, <1>12, <1>13, <1>16, <1>17 DEF next

LEMMA BeginPositive ==
    ASSUME Calls, pc = "scan"
    PROVE  Begin \in Nat /\ Begin > 0 /\ Top.siblings[1].code \in Nat
<1>1. Top.siblings[1] \in Node
    <2>1. 1 \in 1 .. Len(Top.siblings)
        BY TopCall
    <2> QED
        BY <2>1, TopCall
<1>2. Top.siblings[1].code \in Nat /\ Top.siblings[1].code <= pos /\ pos \in Nat
    BY <1>1 DEF Calls, Node
<1> QED
    BY <1>2 DEF Begin

(* The frames that Place and FillLeaf leave.                               *)
LEMMA CallsPlace ==
    ASSUME Calls, Place
    PROVE  /\ UNCHANGED dicts /\ pc = "scan" /\ pc' = "fill"
           /\ Frame(Top.siblings, Begin, 1) \in Call_
           /\ stack' \in Seq(Call_) /\ stack' # <<>> /\ Len(stack') = Len(stack)
           /\ \A i \in 1 .. Len(stack) :
                 /\ stack'[i] = IF i = Len(stack) THEN Frame(Top.siblings, Begin, 1) ELSE stack[i]
                 /\ Parent(i)' = Parent(i) /\ CallOK(i)'
<1> DEFINE e == Frame(Top.siblings, Begin, 1)
<1>1. /\ pc = "scan" /\ pc' = "fill" /\ stack' = [stack EXCEPT ![Len(stack)] = e]
      /\ UNCHANGED dicts
    BY DEF Place, Free, SetTop
<1>2. Top \in Call_ /\ Len(Top.siblings) \in Nat
    BY <1>1, TopCall
<1>3. e \in Call_ /\ e.siblings = Top.siblings /\ e.at = 1
    BY <1>1, <1>2, BeginPositive DEF Frame, Call_
<1>4. e.at >= 1 /\ e.at <= Len(e.siblings) + 1
    BY <1>2, <1>3
<1> HIDE DEF e
<1> QED
    BY <1>1, <1>3, <1>4, CallsReplaced DEF e

LEMMA CallsLeaf ==
    ASSUME Calls, FillLeaf
    PROVE  /\ UNCHANGED dicts /\ pc = "fill" /\ Top.at \in 1 .. Len(Top.siblings)
           /\ NextSibling(Top) \in Call_
           /\ stack' \in Seq(Call_) /\ stack' # <<>> /\ Len(stack') = Len(stack)
           /\ \A i \in 1 .. Len(stack) :
                 /\ stack'[i] = IF i = Len(stack) THEN NextSibling(Top) ELSE stack[i]
                 /\ Parent(i)' = Parent(i) /\ CallOK(i)'
<1> DEFINE e == NextSibling(Top)
<1>1. /\ pc = "fill" /\ stack' = [stack EXCEPT ![Len(stack)] = e]
      /\ UNCHANGED dicts /\ Top.at <= Len(Top.siblings)
    BY DEF FillLeaf, SetTop
<1>2. Top \in Call_ /\ Len(Top.siblings) \in Nat /\ CallOK(Len(stack))
    BY <1>1, TopCall
<1>3. Top.at \in 1 .. Len(Top.siblings)
    BY <1>1, <1>2 DEF CallOK, Call_, Top
<1>4. e \in Call_ /\ e.siblings = Top.siblings /\ e.at = Top.at + 1
    BY <1>2, <1>3 DEF NextSibling, Frame, Call_
<1>5. e.at >= 1 /\ e.at <= Len(e.siblings) + 1
    BY <1>2, <1>3, <1>4
<1> HIDE DEF e
<1> QED
    BY <1>1, <1>3, <1>4, <1>5, CallsReplaced DEF e

LEMMA CallsNext ==
    ASSUME Calls, [Next]_vars
    PROVE  Calls'
<1>1. CASE UNCHANGED <<dicts, stack, pc>> /\ pos' \in Nat /\ pos <= pos' /\ next_check_pos' \in Nat
    <2>1. \A i \in 1 .. Len(stack) : CallOK(i)'
        BY <1>1 DEF Calls, CallOK, Parent, Root
    <2>2. pc = "scan" => Top.siblings[1].code \in Nat /\ Top.siblings[1].code <= pos /\ pos \in Nat
        BY BeginPositive DEF Calls
    <2>3. Top' = Top
        BY <1>1 DEF Top
    <2>4. pc' = "scan" => Top'.siblings[1].code <= pos'
        BY <1>1, <2>2, <2>3
    <2> QED
        BY <1>1, <2>1, <2>4 DEF Calls
<1>2. CASE UNCHANGED vars
    <2>1. pos \in Nat /\ next_check_pos \in Nat
        BY DEF Calls
    <2> QED
        BY <1>1, <1>2, <2>1 DEF vars
<1>3. CASE ScanTaken
    <2>1. pos \in Nat /\ next_check_pos \in Nat
        BY DEF Calls
    <2>2. UNCHANGED <<dicts, stack, pc, next_check_pos>> /\ pos' = pos + 1
        BY <1>3 DEF ScanTaken
    <2> QED
        BY <1>1, <2>1, <2>2
<1>4. CASE ScanUsed \/ ScanClash
    <2>1. pos \in Nat /\ next_check_pos \in Nat
        BY DEF Calls
    <2>2. UNCHANGED <<dicts, stack, pc>> /\ pos' = pos + 1 /\ next_check_pos' = FirstFree
        BY <1>4 DEF ScanUsed, ScanClash, Advance
    <2>3. FirstFree \in Nat
        BY <2>1 DEF FirstFree
    <2> QED
        BY <1>1, <2>1, <2>2, <2>3
<1>5. CASE Place
    <2>1. pos \in Nat /\ next_check_pos \in Nat
        BY DEF Calls
    <2>2. pos' = pos + 1 /\ next_check_pos' \in {pos + 1, FirstFree}
        BY <1>5 DEF Place
    <2>3. FirstFree \in Nat
        BY <2>1 DEF FirstFree
    <2>4. pos' \in Nat /\ next_check_pos' \in Nat
        BY <2>1, <2>2, <2>3
    <2> QED
        BY <1>5, <2>4, CallsPlace DEF Calls
<1>6. CASE FillLeaf
    <2>1. UNCHANGED <<pos, next_check_pos, pc>>
        BY <1>6 DEF FillLeaf
    <2> QED
        BY <1>6, <2>1, CallsLeaf DEF Calls
<1>7. CASE FillDeeper
    <2> DEFINE n == Len(stack)
               kid == Top.siblings[Top.at]
               s == Siblings(dicts, kid)
               called == Frame(s, 0, 1)
               after == s[1].code + 1
    <2>1. /\ stack' \in Seq(Call_) /\ stack' # <<>> /\ Len(stack') = n + 1
          /\ stack'[n + 1] = called /\ called \in Call_ /\ Children(dicts, kid, called.siblings)
          /\ \A i \in 1 .. n + 1 : CallOK(i)'
        BY <1>7, CallsDeeper
    <2>2. /\ UNCHANGED <<dicts, next_check_pos>> /\ pc' = "scan"
          /\ pos' = (IF after > next_check_pos THEN after ELSE next_check_pos) - 1
        BY <1>7 DEF FillDeeper, Call, FetchSiblings
    <2>3. called.siblings = s
        BY DEF Frame
    <2>4. s[1].code \in Nat
        <3>1. s \in Seq(Node) /\ s # <<>>
            BY <2>1, <2>3 DEF Children
        <3>2. s[1] \in Node
            BY <3>1
        <3> QED
            BY <3>2 DEF Node
    <2>5. Top'.siblings[1].code = s[1].code
        BY <2>1, <2>3 DEF Top
    <2>6. next_check_pos \in Nat
        BY DEF Calls
    <2> HIDE DEF s, kid, n, called
    <2>7. pos' \in Nat /\ s[1].code <= pos'
        BY <2>2, <2>4, <2>6
    <2> QED
        BY <2>1, <2>2, <2>5, <2>6, <2>7 DEF Calls
<1>8. CASE Return
    <2>1. UNCHANGED <<dicts, pos, next_check_pos>> /\ pc = "fill"
        BY <1>8 DEF Return
    <2>2. stack \in Seq(Call_) /\ Len(stack) \in Nat /\ Len(stack) > 0
        BY <2>1, TopCall DEF Calls
    <2>3. CASE Len(stack) = 1
        <3>1. SubSeq(stack, 1, Len(stack) - 1) = <<>>
            BY <2>2, <2>3, WithoutLast
        <3>2. pc' = "done" /\ stack' = <<>>
            BY <1>8, <3>1 DEF Return
        <3>3. stack' \in Seq(Call_) /\ Len(stack') = 0
            BY <3>2
        <3> QED
            BY <2>1, <3>2, <3>3 DEF Calls
    <2>4. CASE Len(stack) > 1
        BY <1>8, <2>1, <2>4, CallsReturn DEF Calls
    <2>5. \A n \in Nat : n > 0 => n = 1 \/ n > 1
        OBVIOUS
    <2> QED
        BY <2>2, <2>3, <2>4, <2>5, Zenon
<1> QED
    BY <1>2, <1>3, <1>4, <1>5, <1>6, <1>7, <1>8 DEF Next, Build

-----------------------------------------------------------------------------
(* Whose children a begin was found for; the arrays do not say it.  The    *)
(* children's cells are their begin's, a taken cell is some child's, and a *)
(* child that no call in progress still has to deal with is linked to the  *)
(* begin of its own children, or to its line.                              *)
Kids(owner, b) == Siblings(dicts, owner[b])

Marked(owner) ==
    \A b \in used :
        /\ b \in Nat \ {0} /\ Inner(dicts, owner[b])
        /\ \A k \in 1 .. Len(Kids(owner, b)) :
              b + Kids(owner, b)[k].code \in DOMAIN check /\ check[b + Kids(owner, b)[k].code] = b

Spelled(owner) ==
    \A c \in DOMAIN check :
        /\ check[c] \in used
        /\ \E k \in 1 .. Len(Kids(owner, check[c])) : c = check[c] + Kids(owner, check[c])[k].code

Link(owner, c, kid) ==
    /\ c \in DOMAIN base
    /\ kid.code = 0 => base[c] = - kid.left - 1
    /\ kid.code # 0 => base[c] \in used /\ owner[base[c]] = kid

Pending(b, k) == \E i \in 1 .. Len(stack) : Placed(i) /\ stack[i].begin = b /\ stack[i].at <= k

Linked(owner) ==
    \A b \in used : \A k \in 1 .. Len(Kids(owner, b)) :
        Link(owner, b + Kids(owner, b)[k].code, Kids(owner, b)[k]) \/ Pending(b, k)

CallsOwn(owner) ==
    /\ \A i \in 1 .. Len(stack) : Placed(i) =>
          stack[i].begin \in used /\ owner[stack[i].begin] = Parent(i)
    /\ pc = "done" => 0 \in DOMAIN base /\ base[0] \in used /\ owner[base[0]] = Root

Owned(owner) == Marked(owner) /\ Spelled(owner) /\ Linked(owner) /\ CallsOwn(owner)

LEMMA OwnedInit ==
    ASSUME Init
    PROVE  \A owner : Owned(owner)
<1>1. used = {} /\ check = <<>> /\ pc = "scan" /\ \E f : stack = <<f>>
    BY DEF Init
<1>2. Len(stack) = 1 /\ \A i \in 1 .. Len(stack) : i = 1
    BY <1>1
<1>3. \A i \in 1 .. Len(stack) : ~ Placed(i)
    BY <1>1, <1>2 DEF Placed
<1>4. DOMAIN check = {}
    BY <1>1
<1> QED
    BY <1>1, <1>3, <1>4 DEF Owned, Marked, Spelled, Linked, CallsOwn

LEMMA OwnedScan ==
    ASSUME NEW owner, Owned(owner),
           UNCHANGED <<dicts, base, check, used, stack, pc>>
    PROVE  Owned(owner)'
<1>1. \A b : Kids(owner, b)' = Kids(owner, b)
    BY DEF Kids
<1>2. \A i : Parent(i)' = Parent(i) /\ Placed(i)' = Placed(i)
    BY DEF Parent, Root, Placed
<1>3. Marked(owner)'
    BY <1>1 DEF Owned, Marked
<1>4. Spelled(owner)'
    BY <1>1 DEF Owned, Spelled
<1>5. Linked(owner)'
    <2>1. \A b, k : Pending(b, k)' = Pending(b, k)
        BY <1>2 DEF Pending
    <2>2. \A c, kid : Link(owner, c, kid)' = Link(owner, c, kid)
        BY DEF Link
    <2> QED
        BY <1>1, <2>1, <2>2 DEF Owned, Linked
<1>6. CallsOwn(owner)'
    BY <1>2 DEF Owned, CallsOwn, Root
<1> QED
    BY <1>3, <1>4, <1>5, <1>6 DEF Owned

(* The children of a begin's node, and their cells.                        *)
LEMMA KidsOf ==
    ASSUME Calls, NEW owner, Marked(owner), NEW b \in used
    PROVE  /\ b \in Nat /\ b > 0 /\ Children(dicts, owner[b], Kids(owner, b))
           /\ \A k \in 1 .. Len(Kids(owner, b)) :
                 /\ Kids(owner, b)[k] \in Node /\ Kids(owner, b)[k].code \in Nat
                 /\ b + Kids(owner, b)[k].code \in Nat /\ b + Kids(owner, b)[k].code > 0
<1>1. b \in Nat /\ b > 0 /\ Inner(dicts, owner[b])
    BY DEF Marked
<1>2. Children(dicts, owner[b], Kids(owner, b))
    BY <1>1, InnerSiblings DEF Calls, Kids
<1>3. ASSUME NEW k \in 1 .. Len(Kids(owner, b))
      PROVE  /\ Kids(owner, b)[k] \in Node /\ Kids(owner, b)[k].code \in Nat
             /\ b + Kids(owner, b)[k].code \in Nat /\ b + Kids(owner, b)[k].code > 0
    <2>1. Kids(owner, b)[k] \in Node
        BY <1>2 DEF Children
    <2>2. Kids(owner, b)[k].code \in Nat
        BY <2>1 DEF Node
    <2> QED
        BY <1>1, <2>1, <2>2
<1> QED
    BY <1>1, <1>2, <1>3

(* No two children share a cell.                                           *)
LEMMA CellsApart ==
    ASSUME Calls, NEW owner, Marked(owner), NEW a \in used, NEW b \in used,
           NEW j \in 1 .. Len(Kids(owner, a)), NEW k \in 1 .. Len(Kids(owner, b)),
           a + Kids(owner, a)[j].code = b + Kids(owner, b)[k].code
    PROVE  a = b /\ j = k
<1>1. a = b
    BY DEF Marked
<1>2. /\ a \in Nat /\ Kids(owner, a)[j].code \in Nat /\ Kids(owner, a)[k].code \in Nat
      /\ Children(dicts, owner[a], Kids(owner, a))
    BY <1>1, KidsOf
<1>3. Kids(owner, a)[j].code = Kids(owner, a)[k].code
    BY <1>1, <1>2
<1>4. ~ (j < k) /\ ~ (k < j)
    BY <1>1, <1>2, <1>3 DEF Children
<1>5. Len(Kids(owner, a)) \in Nat
    BY <1>2 DEF Children
<1>6. j \in Nat /\ k \in Nat
    BY <1>1, <1>5
<1> QED
    BY <1>1, <1>4, <1>6

(* A begin that was found belongs to the node whose children it was found  *)
(* for.                                                                    *)
LEMMA OwnedPlace ==
    ASSUME Calls, Place, ~resized', NEW owner, Owned(owner)
    PROVE  \E o : Owned(o)'
<1>0. PICK n, s, new, begin, o :
               /\ n = Len(stack) /\ s = Top.siblings /\ new = Parent(Len(stack)) /\ begin = Begin
               /\ o = [b \in used \cup {Begin} |-> IF b = Begin THEN Parent(Len(stack)) ELSE owner[b]]
    OBVIOUS
<1> DEFINE cells == {begin + s[k].code : k \in DOMAIN s}
           e == Frame(s, begin, 1)
<1>1. /\ n \in Nat /\ n > 0 /\ CallOK(n) /\ Children(dicts, new, s) /\ Len(s) \in Nat
      /\ DOMAIN s = 1 .. Len(s) /\ Top = stack[n] /\ pc = "scan" /\ pc' = "fill"
      /\ s = Siblings(dicts, new)
    <2>1. pc = "scan" /\ pc' = "fill"
        BY DEF Place, Free
    <2>2. CallOK(n) /\ Top = stack[n] /\ n \in Nat /\ n > 0
        BY <1>0, <2>1, TopCall DEF Top
    <2>3. Children(dicts, new, s) /\ Len(s) \in Nat
        BY <1>0, <2>1, TopCall
    <2>4. s \in Seq(Node)
        BY <2>3 DEF Children
    <2> QED
        BY <1>0, <2>1, <2>2, <2>3, <2>4 DEF CallOK
<1>2. begin \notin used /\ used' = used \cup {begin} /\ base' = base /\ UNCHANGED dicts
    BY <1>0 DEF Place, BeginUsed, Resize, Copied
<1>3. check' = Mark(check, cells, begin) /\ cells \cap DOMAIN check = {}
    BY <1>0 DEF Place, Resize, Copied, Clash
<1>4. /\ DOMAIN check' = DOMAIN check \cup cells
      /\ \A c \in cells : check'[c] = begin
      /\ \A c \in DOMAIN check : check'[c] = check[c]
    BY <1>3 DEF Mark
<1>5. /\ stack' # <<>> /\ Len(stack') = n
      /\ \A i \in 1 .. n : stack'[i] = (IF i = n THEN e ELSE stack[i]) /\ Parent(i)' = Parent(i)
    BY <1>0, CallsPlace
<1>6. begin \in Nat \ {0}
    BY <1>0, <1>1, BeginPositive
<1>7. o[begin] = new /\ \A b \in used : o[b] = owner[b] /\ b # begin
    BY <1>0, <1>2
<1>8. e.begin = begin /\ e.siblings = s /\ e.at = 1
    BY DEF Frame
<1> HIDE DEF e
<1>9. Kids(o, begin)' = s /\ \A b \in used : Kids(o, b)' = Kids(owner, b)
    BY <1>1, <1>2, <1>7 DEF Kids
<1>10. Inner(dicts, new)
    BY <1>0, <1>1 DEF CallOK
<1>11. Marked(o)'
    <2>1. ASSUME NEW b \in used
          PROVE  /\ b \in Nat \ {0} /\ Inner(dicts', o[b])
                 /\ \A k \in 1 .. Len(Kids(owner, b)) :
                       /\ b + Kids(owner, b)[k].code \in DOMAIN check'
                       /\ check'[b + Kids(owner, b)[k].code] = b
        BY <1>2, <1>4, <1>7 DEF Owned, Marked
    <2>2. \A k \in 1 .. Len(s) : begin + s[k].code \in cells
        BY <1>1
    <2>3. Inner(dicts', o[begin])
        BY <1>2, <1>7, <1>10
    <2> HIDE DEF cells
    <2>4. ASSUME NEW b \in used'
          PROVE  /\ b \in Nat \ {0} /\ Inner(dicts', o[b])
                 /\ \A k \in 1 .. Len(Kids(o, b)') :
                       /\ b + Kids(o, b)'[k].code \in DOMAIN check'
                       /\ check'[b + Kids(o, b)'[k].code] = b
        <3>1. CASE b \in used
            BY <1>9, <2>1, <3>1
        <3>2. CASE b = begin
            BY <1>4, <1>6, <1>9, <2>2, <2>3, <3>2
        <3> QED
            BY <1>2, <3>1, <3>2
    <2> QED
        BY <2>4 DEF Marked
<1>12. Spelled(o)'
    <2> DEFINE Mine(c, b) == \E k \in 1 .. Len(Siblings(dicts', o[b])) :
                                 c = b + Siblings(dicts', o[b])[k].code
    <2>1. /\ Siblings(dicts', o[begin]) = s
          /\ \A b \in used : Siblings(dicts', o[b]) = Kids(owner, b)
        BY <1>1, <1>2, <1>7 DEF Kids
    <2>2. ASSUME NEW c \in DOMAIN check' PROVE check'[c] \in used' /\ Mine(c, check'[c])
        <3>1. CASE c \in DOMAIN check
            <4>1. /\ check'[c] = check[c] /\ check[c] \in used
                  /\ \E k \in 1 .. Len(Kids(owner, check[c])) : c = check[c] + Kids(owner, check[c])[k].code
                BY <1>4, <3>1 DEF Owned, Spelled
            <4>2. Mine(c, check[c])
                BY <2>1, <4>1
            <4> QED
                BY <1>2, <4>1, <4>2
        <3>2. CASE c \in cells
            <4>1. check'[c] = begin
                BY <1>4, <3>2
            <4>2. PICK k \in 1 .. Len(s) : c = begin + s[k].code
                BY <1>1, <3>2
            <4>3. Mine(c, begin)
                BY <2>1, <4>2
            <4> QED
                BY <1>2, <4>1, <4>3
        <3> QED
            BY <1>4, <3>1, <3>2
    <2> QED
        BY <2>2 DEF Spelled, Kids
<1>13. Linked(o)'
    <2>1. ASSUME NEW b \in used, NEW k \in 1 .. Len(Kids(owner, b))
          PROVE  Link(o, b + Kids(owner, b)[k].code, Kids(owner, b)[k])' \/ Pending(b, k)'
        <3>1. CASE Link(owner, b + Kids(owner, b)[k].code, Kids(owner, b)[k])
            <4>1. \A c, kid : Link(owner, c, kid) => Link(o, c, kid)'
                BY <1>2, <1>7 DEF Link
            <4>2. Kids(owner, b)' = Kids(owner, b)
                BY <1>2 DEF Kids
            <4> QED
                BY <3>1, <4>1, <4>2
        <3>2. CASE Pending(b, k)
            <4>1. PICK i \in 1 .. n : Placed(i) /\ stack[i].begin = b /\ stack[i].at <= k
                BY <1>0, <3>2 DEF Pending
            <4>2. i # n
                BY <1>0, <1>1, <4>1 DEF Placed
            <4>3. stack'[i] = stack[i] /\ Placed(i)'
                BY <1>0, <1>1, <1>5, <4>2 DEF Placed
            <4> QED
                BY <1>5, <4>1, <4>3 DEF Pending
        <3> QED
            BY <3>1, <3>2 DEF Owned, Linked
    <2>2. ASSUME NEW k \in 1 .. Len(s) PROVE Pending(begin, k)'
        <3>1. n \in 1 .. Len(stack') /\ Placed(n)' /\ stack'[n] = e
            BY <1>0, <1>1, <1>5 DEF Placed
        <3>2. stack'[n].begin = begin /\ stack'[n].at <= k
            BY <1>1, <1>8, <3>1
        <3> QED
            BY <3>1, <3>2 DEF Pending
    <2>3. ASSUME NEW b \in used', NEW k \in 1 .. Len(Kids(o, b)')
          PROVE  Link(o, b + Kids(o, b)[k].code, Kids(o, b)[k])' \/ Pending(b, k)'
        <3>1. CASE b \in used
            <4>1. Kids(o, b)' = Kids(owner, b) /\ Kids(owner, b)' = Kids(owner, b)
                BY <1>2, <1>9, <3>1 DEF Kids
            <4> QED
                BY <2>1, <3>1, <4>1
        <3>2. CASE b = begin
            BY <1>9, <2>2, <3>2
        <3> QED
            BY <1>2, <3>1, <3>2
    <2> QED
        BY <2>3 DEF Linked
<1>14. CallsOwn(o)'
    <2>1. ASSUME NEW i \in 1 .. n
          PROVE  stack'[i].begin \in used' /\ o[stack'[i].begin] = Parent(i)'
        <3>1. CASE i = n
            BY <1>0, <1>2, <1>5, <1>7, <1>8, <3>1
        <3>2. CASE i # n
            <4>1. Placed(i) /\ stack'[i] = stack[i] /\ Parent(i)' = Parent(i)
                BY <1>0, <1>1, <1>5, <3>2 DEF Placed
            <4>2. stack[i].begin \in used /\ owner[stack[i].begin] = Parent(i)
                BY <1>0, <4>1 DEF Owned, CallsOwn
            <4> QED
                BY <1>2, <1>7, <4>1, <4>2
        <3> QED
            BY <3>1, <3>2
    <2> QED
        BY <1>1, <1>5, <2>1 DEF CallsOwn
<1> QED
    BY <1>11, <1>12, <1>13, <1>14 DEF Owned

(* A step that gives the top's or its caller's child a link changes no     *)
(* other link, and the call goes on behind this child.                     *)
LEMMA OwnedLinked ==
    ASSUME Calls, NEW owner, Owned(owner), UNCHANGED <<dicts, check, used>>,
           NEW b \in used, NEW j \in 1 .. Len(Kids(owner, b)), NEW to,
           base' = [d \in DOMAIN base \cup {b + Kids(owner, b)[j].code} |->
                       IF d = b + Kids(owner, b)[j].code THEN to ELSE base[d]],
           IF Kids(owner, b)[j].code = 0 THEN to = - Kids(owner, b)[j].left - 1
           ELSE to \in used /\ owner[to] = Kids(owner, b)[j],
           \A a \in used : \A k \in 1 .. Len(Kids(owner, a)) :
               Pending(a, k) => Pending(a, k)' \/ (a = b /\ k = j)
    PROVE  Marked(owner)' /\ Spelled(owner)' /\ Linked(owner)'
<1> DEFINE cell == b + Kids(owner, b)[j].code
<1>1. \A a : Kids(owner, a)' = Kids(owner, a)
    BY DEF Kids
<1>2. Marked(owner)'
    BY <1>1 DEF Owned, Marked
<1>3. Spelled(owner)'
    BY <1>1 DEF Owned, Spelled
<1>4. \A d, kid : d # cell /\ Link(owner, d, kid) => Link(owner, d, kid)'
    BY DEF Link
<1>5. Link(owner, cell, Kids(owner, b)[j])'
    <2> DEFINE kid == Kids(owner, b)[j]
    <2>1. cell' = cell /\ kid' = kid
        BY <1>1
    <2>2. cell \in DOMAIN base' /\ base'[cell] = to
        OBVIOUS
    <2> HIDE DEF cell, kid
    <2>3. IF kid.code = 0 THEN to = - kid.left - 1 ELSE to \in used /\ owner[to] = kid
        BY DEF kid
    <2> QED
        BY <2>1, <2>2, <2>3 DEF Link, kid
<1>6. ASSUME NEW a \in used, NEW k \in 1 .. Len(Kids(owner, a))
      PROVE  Link(owner, a + Kids(owner, a)[k].code, Kids(owner, a)[k])' \/ Pending(a, k)'
    <2>1. CASE a + Kids(owner, a)[k].code = cell
        <3>1. a = b /\ k = j
            BY <2>1, CellsApart DEF Owned
        <3> QED
            BY <1>1, <1>5, <3>1
    <2>2. CASE a + Kids(owner, a)[k].code # cell
        <3>1. ~ (a = b /\ k = j)
            BY <2>2
        <3>2. Link(owner, a + Kids(owner, a)[k].code, Kids(owner, a)[k]) \/ Pending(a, k)
            BY DEF Owned, Linked
        <3> HIDE DEF cell
        <3> QED
            BY <1>1, <1>4, <2>2, <3>1, <3>2
    <2> QED
        BY <2>1, <2>2
<1>7. Linked(owner)'
    BY <1>1, <1>6 DEF Linked
<1> QED
    BY <1>2, <1>3, <1>7

LEMMA OwnedLeaf ==
    ASSUME Calls, FillLeaf, NEW owner, Owned(owner)
    PROVE  Owned(owner)'
<1> DEFINE n == Len(stack)
           b == Top.begin
           at == Top.at
           kid == Top.siblings[at]
<1>1. /\ n \in Nat /\ n > 0 /\ CallOK(n) /\ Top = stack[n] /\ pc = "fill" /\ pc' = "fill"
      /\ at \in 1 .. Len(Top.siblings) /\ Placed(n) /\ at \in Nat
    BY TopCall, CallsLeaf DEF FillLeaf, Placed, Top, Call_
<1>2. b \in used /\ owner[b] = Parent(n)
    BY <1>1 DEF Owned, CallsOwn
<1>3. Top.siblings = Kids(owner, b)
    BY <1>1, <1>2 DEF Kids, CallOK
<1>4. Children(dicts, owner[b], Kids(owner, b)) /\ Inner(dicts, owner[b])
    BY <1>2, KidsOf DEF Owned, Marked
<1>5. kid.code = 0
    <2>1. Siblings(dicts, kid) = <<>>
        BY DEF FillLeaf, FetchSiblings
    <2>2. kid.code # 0 => Inner(dicts, kid)
        BY <1>1, <1>3, <1>4 DEF Children
    <2>3. Inner(dicts, kid) => Siblings(dicts, kid) # <<>>
        BY InnerSiblings DEF Calls, Children
    <2> QED
        BY <2>1, <2>2, <2>3
<1>6. base' = [d \in DOMAIN base \cup {b + kid.code} |->
                  IF d = b + kid.code THEN - kid.left - 1 ELSE base[d]]
    BY DEF FillLeaf, SetBase, Cell
<1>7. UNCHANGED <<dicts, check, used>>
    BY DEF FillLeaf
<1>8. /\ stack' # <<>> /\ Len(stack') = n
      /\ \A i \in 1 .. n : /\ stack'[i] = IF i = n THEN NextSibling(Top) ELSE stack[i]
                           /\ Parent(i)' = Parent(i)
    BY CallsLeaf
<1>9. NextSibling(Top).begin = b /\ NextSibling(Top).at = at + 1
    BY DEF NextSibling, Frame
<1>10. \A i : Placed(i)' = Placed(i)
    BY <1>1, <1>8 DEF Placed
<1>11. ASSUME NEW a \in used, NEW k \in 1 .. Len(Kids(owner, a)), Pending(a, k)
       PROVE  Pending(a, k)' \/ (a = b /\ k = at)
    <2>1. PICK i \in 1 .. n : Placed(i) /\ stack[i].begin = a /\ stack[i].at <= k
        BY <1>11 DEF Pending
    <2>2. CASE i # n
        <3>1. i \in 1 .. Len(stack') /\ stack'[i] = stack[i]
            BY <1>8, <2>2
        <3> QED
            BY <1>10, <2>1, <3>1 DEF Pending
    <2>3. CASE i = n
        <3>1. a = b /\ at <= k
            BY <1>1, <2>1, <2>3
        <3>2. Len(Kids(owner, a)) \in Nat /\ k \in Nat
            BY <1>4, <3>1 DEF Children
        <3>3. k = at \/ at + 1 <= k
            BY <1>1, <3>1, <3>2
        <3>4. stack'[i].begin = a /\ stack'[i].at = at + 1 /\ Placed(i)' /\ i \in 1 .. Len(stack')
            BY <1>8, <1>9, <1>10, <2>1, <2>3, <3>1
        <3> QED
            BY <3>1, <3>3, <3>4 DEF Pending
    <2> QED
        BY <2>2, <2>3
<1>12. CallsOwn(owner)'
    <2>1. ASSUME NEW i \in 1 .. n, Placed(i)
          PROVE  stack'[i].begin \in used /\ owner[stack'[i].begin] = Parent(i)'
        <3>1. stack[i].begin \in used /\ owner[stack[i].begin] = Parent(i)
            BY <2>1 DEF Owned, CallsOwn
        <3>2. stack'[i].begin = stack[i].begin
            BY <1>1, <1>8, <1>9
        <3> QED
            BY <1>8, <3>1, <3>2
    <2> QED
        BY <1>1, <1>7, <1>8, <1>10, <2>1 DEF CallsOwn
<1>13. Marked(owner)' /\ Spelled(owner)' /\ Linked(owner)'
    <2>1. PICK a, j, to : a = b /\ j = at /\ to = - kid.left - 1
        OBVIOUS
    <2>2. a \in used /\ j \in 1 .. Len(Kids(owner, a)) /\ kid = Kids(owner, a)[j]
        BY <1>1, <1>2, <1>3, <2>1
    <2>3. base' = [d \in DOMAIN base \cup {a + Kids(owner, a)[j].code} |->
                      IF d = a + Kids(owner, a)[j].code THEN to ELSE base[d]]
        BY <1>6, <2>1, <2>2
    <2>4. IF Kids(owner, a)[j].code = 0 THEN to = - Kids(owner, a)[j].left - 1
          ELSE to \in used /\ owner[to] = Kids(owner, a)[j]
        BY <1>5, <2>1, <2>2
    <2>5. \A c \in used : \A k \in 1 .. Len(Kids(owner, c)) :
              Pending(c, k) => Pending(c, k)' \/ (c = a /\ k = j)
        BY <1>11, <2>1
    <2> HIDE DEF kid, b, at
    <2> QED
        BY <1>7, <2>2, <2>3, <2>4, <2>5, OwnedLinked
<1> QED
    BY <1>12, <1>13 DEF Owned

LEMMA OwnedDeeper ==
    ASSUME Calls, FillDeeper, NEW owner, Owned(owner)
    PROVE  Owned(owner)'
<1> DEFINE n == Len(stack)
<1>1. /\ UNCHANGED <<dicts, base, check, used>> /\ pc = "fill" /\ pc' = "scan" /\ n \in Nat
    BY TopCall DEF FillDeeper, Call, arrays
<1>2. /\ Len(stack') = n + 1
      /\ \A i \in 1 .. n : stack'[i] = stack[i] /\ Parent(i)' = Parent(i)
    BY CallsDeeper
<1>3. \A i \in 1 .. n : Placed(i) /\ Placed(i)' /\ i \in 1 .. n + 1
    BY <1>1, <1>2 DEF Placed
<1>4. \A i \in 1 .. n + 1 : Placed(i)' => i \in 1 .. n
    BY <1>1, <1>2 DEF Placed
<1>5. \A b : Kids(owner, b)' = Kids(owner, b)
    BY <1>1 DEF Kids
<1>6. Marked(owner)'
    BY <1>1, <1>5 DEF Owned, Marked
<1>7. Spelled(owner)'
    BY <1>1, <1>5 DEF Owned, Spelled
<1>8. Linked(owner)'
    <2>1. \A b, k : Pending(b, k) => Pending(b, k)'
        BY <1>2, <1>3 DEF Pending
    <2>2. \A c, kid : Link(owner, c, kid)' = Link(owner, c, kid)
        BY <1>1 DEF Link
    <2> QED
        BY <1>1, <1>5, <2>1, <2>2 DEF Owned, Linked
<1>9. CallsOwn(owner)'
    BY <1>1, <1>2, <1>3, <1>4 DEF Owned, CallsOwn
<1> QED
    BY <1>6, <1>7, <1>8, <1>9 DEF Owned

(* The child whose children were inserted has a code: its lines go on.     *)
LEMMA InnerCode ==
    ASSUME NEW words \in Seq(Seq(Character)), NEW n, Inner(words, n), n.depth > 0
    PROVE  n.code # 0
<1>1. n.left + 1 \in 1 .. Len(words) /\ n.depth \in Nat \ {0}
    BY DEF Inner, IsNode, Node
<1>2. words[n.left + 1] \in Seq(Character)
    BY <1>1
<1>3. n.code = CodeAt(words[n.left + 1], n.depth) /\ Len(words[n.left + 1]) >= n.depth
    BY DEF Inner, IsNode
<1>4. CodeAt(words[n.left + 1], n.depth) = 0 => Len(words[n.left + 1]) < n.depth
    BY <1>1, <1>2, CodesOfWord
<1> QED
    BY <1>1, <1>2, <1>3, <1>4

(* A call that returns has dealt with all its children.                    *)
LEMMA ReturnDealt ==
    ASSUME Calls, Return, NEW owner, Owned(owner)
    PROVE  /\ pc = "fill" /\ Len(stack) \in Nat /\ Len(stack) > 0
           /\ Top.begin \in used /\ owner[Top.begin] = Parent(Len(stack))
           /\ \A a \in used : \A k \in 1 .. Len(Kids(owner, a)) :
                 ~ (stack[Len(stack)].begin = a /\ stack[Len(stack)].at <= k)
<1> DEFINE n == Len(stack)
<1>1. /\ n \in Nat /\ n > 0 /\ CallOK(n) /\ Top = stack[n] /\ pc = "fill"
      /\ Top.at > Len(Top.siblings) /\ Placed(n) /\ Top.at \in Nat
    BY TopCall DEF Return, Placed, Top, Call_
<1>2. Top.begin \in used /\ owner[Top.begin] = Parent(n)
    BY <1>1 DEF Owned, CallsOwn
<1>3. Top.siblings = Kids(owner, Top.begin)
    BY <1>1, <1>2 DEF Kids, CallOK
<1>4. Len(Top.siblings) \in Nat
    BY <1>1, TopCall
<1>5. ASSUME NEW a \in used, NEW k \in 1 .. Len(Kids(owner, a)), stack[n].begin = a, stack[n].at <= k
      PROVE  FALSE
    BY <1>1, <1>3, <1>4, <1>5
<1> QED
    BY <1>1, <1>2, <1>5

LEMMA OwnedReturn ==
    ASSUME Calls, Return, Len(stack) > 1, NEW owner, Owned(owner)
    PROVE  Owned(owner)'
<1> DEFINE n == Len(stack)
           m == n - 1
           caller == stack[m]
           b == caller.begin
           at == caller.at
           kid == caller.siblings[at]
<1>1. /\ n \in Nat /\ n > 0 /\ pc = "fill" /\ Top.begin \in used /\ owner[Top.begin] = Parent(n)
      /\ \A a \in used : \A k \in 1 .. Len(Kids(owner, a)) :
            ~ (stack[n].begin = a /\ stack[n].at <= k)
    BY ReturnDealt
<1>2. /\ stack' # <<>> /\ Len(stack') = m /\ stack'[m] = NextSibling(caller)
      /\ caller \in Call_ /\ at \in 1 .. Len(caller.siblings)
      /\ \A i \in 1 .. n - 2 : stack'[i] = stack[i]
      /\ \A i \in 1 .. m : Parent(i)' = Parent(i)
      /\ base' = [d \in DOMAIN base \cup {Cell(caller, at)} |->
                     IF d = Cell(caller, at) THEN Top.begin ELSE base[d]]
      /\ pc' = "fill"
    BY CallsReturn
<1>3. m \in 1 .. n /\ m # n /\ m < n /\ n # 1 /\ m \in 1 .. m
    BY <1>1
<1>4. \A i \in 1 .. n : i = n \/ i = m \/ (i \in 1 .. n - 2 /\ i # m /\ i # n)
    BY <1>1
<1>5. \A i \in 1 .. m : Placed(i) /\ Placed(i)' /\ i \in 1 .. n
    BY <1>1, <1>2 DEF Placed
<1>6. Parent(n) = kid
    BY <1>3 DEF Parent
<1> HIDE DEF m
<1>7. CallOK(m) /\ CallOK(n)
    BY <1>1, <1>3 DEF Calls
<1>8. b \in used /\ owner[b] = Parent(m)
    BY <1>3, <1>5 DEF Owned, CallsOwn
<1>9. caller.siblings = Kids(owner, b)
    BY <1>7, <1>8 DEF Kids, CallOK
<1>10. Children(dicts, owner[b], Kids(owner, b)) /\ Inner(dicts, owner[b])
    BY <1>8, KidsOf DEF Owned, Marked
<1>11. Inner(dicts, kid) /\ kid.depth > 0
    <2>1. Inner(dicts, kid)
        BY <1>6, <1>7 DEF CallOK
    <2>2. kid.depth = owner[b].depth + 1
        BY <1>2, <1>9, <1>10 DEF Children
    <2>3. owner[b].depth \in Nat
        BY <1>10 DEF Inner, IsNode, Node
    <2> QED
        BY <2>1, <2>2, <2>3
<1>12. kid.code # 0
    BY <1>11, InnerCode DEF Calls
<1>13. UNCHANGED <<dicts, check, used>>
    BY DEF Return
<1>14. NextSibling(caller).begin = b /\ NextSibling(caller).at = at + 1 /\ at \in Nat
    BY <1>2 DEF NextSibling, Frame, Call_
<1>15. Cell(caller, at) = b + kid.code
    BY DEF Cell
<1> HIDE DEF caller
<1>16. ASSUME NEW a \in used, NEW k \in 1 .. Len(Kids(owner, a)), Pending(a, k)
       PROVE  Pending(a, k)' \/ (a = b /\ k = at)
    <2>1. PICK i \in 1 .. n : Placed(i) /\ stack[i].begin = a /\ stack[i].at <= k
        BY <1>16 DEF Pending
    <2>2. CASE i = n
        BY <1>1, <2>1, <2>2
    <2>3. CASE i \in 1 .. n - 2 /\ i # m /\ i # n
        <3>1. i \in 1 .. Len(stack') /\ stack'[i] = stack[i] /\ i \in 1 .. m
            BY <1>1, <1>2, <2>3 DEF m
        <3> QED
            BY <1>5, <2>1, <3>1 DEF Pending
    <2>4. CASE i = m
        <3>1. a = b /\ at <= k
            BY <2>1, <2>4 DEF caller
        <3>2. Len(Kids(owner, a)) \in Nat /\ k \in Nat
            BY <1>10, <3>1 DEF Children
        <3>3. k = at \/ at + 1 <= k
            BY <1>14, <3>1, <3>2
        <3>4. stack'[i].begin = a /\ stack'[i].at = at + 1 /\ Placed(i)' /\ i \in 1 .. Len(stack')
            BY <1>2, <1>3, <1>5, <1>14, <2>4, <3>1
        <3> QED
            BY <3>1, <3>3, <3>4 DEF Pending
    <2> QED
        BY <1>4, <2>2, <2>3, <2>4
<1>17. CallsOwn(owner)'
    <2>1. ASSUME NEW i \in 1 .. m
          PROVE  stack'[i].begin \in used /\ owner[stack'[i].begin] = Parent(i)'
        <3>1. stack[i].begin \in used /\ owner[stack[i].begin] = Parent(i)
            BY <1>5 DEF Owned, CallsOwn
        <3>2. stack'[i].begin = stack[i].begin
            <4>1. i \in 1 .. n /\ i # n
                BY <1>1, <1>3, <1>5 DEF m
            <4>2. CASE i = m
                BY <1>2, <1>14, <4>2 DEF caller
            <4>3. CASE i \in 1 .. n - 2
                BY <1>2, <4>3
            <4> QED
                BY <1>4, <4>1, <4>2, <4>3
        <3> QED
            BY <1>2, <3>1, <3>2
    <2> QED
        BY <1>2, <1>13, <2>1 DEF CallsOwn
<1>18. Marked(owner)' /\ Spelled(owner)' /\ Linked(owner)'
    <2>1. PICK a, j, to : a = b /\ j = at /\ to = Top.begin
        OBVIOUS
    <2>2. a \in used /\ j \in 1 .. Len(Kids(owner, a)) /\ kid = Kids(owner, a)[j]
        BY <1>2, <1>8, <1>9, <2>1
    <2>3. base' = [d \in DOMAIN base \cup {a + Kids(owner, a)[j].code} |->
                      IF d = a + Kids(owner, a)[j].code THEN to ELSE base[d]]
        BY <1>2, <1>15, <2>1, <2>2
    <2>4. Kids(owner, a)[j].code # 0 /\ to \in used /\ owner[to] = Kids(owner, a)[j]
        BY <1>1, <1>6, <1>12, <2>1, <2>2
    <2>5. \A c \in used : \A k \in 1 .. Len(Kids(owner, c)) :
              Pending(c, k) => Pending(c, k)' \/ (c = a /\ k = j)
        BY <1>16, <2>1
    <2> HIDE DEF kid, b, at
    <2> QED
        BY <1>13, <2>2, <2>3, <2>4, <2>5, OwnedLinked
<1> QED
    BY <1>17, <1>18 DEF Owned

(* _build has returned: all children are linked, and state 0 to the root's *)
(* children.                                                               *)
LEMMA OwnedDone ==
    ASSUME Calls, Return, Len(stack) = 1, NEW owner, Owned(owner)
    PROVE  Owned(owner)'
<1>1. /\ Top.begin \in used /\ owner[Top.begin] = Parent(1) /\ pc = "fill"
      /\ \A a \in used : \A k \in 1 .. Len(Kids(owner, a)) :
            ~ (stack[1].begin = a /\ stack[1].at <= k)
    BY ReturnDealt
<1>2. \A i \in 1 .. Len(stack) : i = 1
    OBVIOUS
<1>3. SubSeq(stack, 1, Len(stack) - 1) = <<>>
    BY <1>1, TopCall, WithoutLast DEF Calls
<1>4. /\ UNCHANGED <<dicts, check, used>> /\ stack' = <<>> /\ pc' = "done"
      /\ base' = [d \in DOMAIN base \cup {0} |-> IF d = 0 THEN Top.begin ELSE base[d]]
    BY <1>3 DEF Return, SetBase
<1>5. \A b : Kids(owner, b)' = Kids(owner, b)
    BY <1>4 DEF Kids
<1>6. Marked(owner)'
    BY <1>4, <1>5 DEF Owned, Marked
<1>7. Spelled(owner)'
    BY <1>4, <1>5 DEF Owned, Spelled
<1>8. Linked(owner)'
    <2>1. ASSUME NEW a \in used, NEW k \in 1 .. Len(Kids(owner, a))
          PROVE  Link(owner, a + Kids(owner, a)[k].code, Kids(owner, a)[k])'
        <3>1. ~ Pending(a, k)
            BY <1>1, <1>2 DEF Pending
        <3>2. Link(owner, a + Kids(owner, a)[k].code, Kids(owner, a)[k])
            BY <3>1 DEF Owned, Linked
        <3>3. a + Kids(owner, a)[k].code # 0
            BY KidsOf DEF Owned
        <3> DEFINE kid == Kids(owner, a)[k]
                   c == a + kid.code
        <3>4. \A d, e : d # 0 /\ Link(owner, d, e) => Link(owner, d, e)'
            BY <1>4 DEF Link
        <3> QED
            BY <1>5, <3>2, <3>3, <3>4
    <2> QED
        BY <1>4, <1>5, <2>1 DEF Linked
<1>9. CallsOwn(owner)'
    <2>1. Len(stack') = 0 /\ Root' = Root /\ Parent(1) = Root
        BY <1>4 DEF Root, Parent
    <2>2. \A i \in 1 .. Len(stack') : FALSE
        BY <2>1
    <2> QED
        BY <1>1, <1>4, <2>1, <2>2 DEF CallsOwn
<1> QED
    BY <1>6, <1>7, <1>8, <1>9 DEF Owned

(* The inductive invariant behind LookupExact.                             *)
Tree == Calls /\ (~resized => \E owner : Owned(owner))

LEMMA TreeNext ==
    ASSUME Tree, [Next]_vars
    PROVE  Tree'
<1>1. Calls /\ Calls'
    BY CallsNext DEF Tree
<1> SUFFICES ASSUME ~resized' PROVE \E o : Owned(o)'
    BY <1>1 DEF Tree
<1>2. ~resized
    BY DEF Next, Build, ScanTaken, ScanUsed, ScanClash, Place, FillLeaf, FillDeeper, Return,
           Resize, vars
<1>3. PICK owner : Owned(owner)
    BY <1>2 DEF Tree
<1>4. CASE UNCHANGED vars \/ ScanTaken
    BY <1>3, <1>4, OwnedScan DEF vars, arrays, ScanTaken
<1>5. CASE ScanUsed \/ ScanClash
    BY <1>3, <1>5, OwnedScan DEF ScanUsed, ScanClash, Resize, Copied
<1>6. CASE Place
    BY <1>1, <1>3, <1>6, OwnedPlace
<1>7. CASE FillLeaf
    BY <1>1, <1>3, <1>7, OwnedLeaf
<1>8. CASE FillDeeper
    BY <1>1, <1>3, <1>8, OwnedDeeper
<1>9. CASE Return
    <2>1. Len(stack) \in Nat /\ Len(stack) > 0
        BY <1>1, <1>9, TopCall DEF Return
    <2>2. \A n \in Nat : n > 0 => n = 1 \/ n > 1
        OBVIOUS
    <2>3. Len(stack) = 1 \/ Len(stack) > 1
        BY <2>1, <2>2, Zenon
    <2> QED
        BY <1>1, <1>3, <1>9, <2>3, OwnedReturn, OwnedDone
<1> QED
    BY <1>4, <1>5, <1>6, <1>7, <1>8, <1>9 DEF Next, Build

-----------------------------------------------------------------------------
(* The lookups, once _build has returned.                                  *)
Spelt(owner) == Calls /\ Owned(owner) /\ pc = "done"

(* A line of a begin's node that goes on with this code has a child, and   *)
(* the cells say so.                                                       *)
LEMMA KidFor ==
    ASSUME NEW owner, Spelt(owner), NEW b \in used, NEW code \in Nat
    PROVE  LET n == owner[b]
           IN  /\ b \in Nat /\ b > 0 /\ n.depth \in Nat
               /\ At(check, b + code) = b =>
                     \E kid : /\ IsNode(dicts, kid) /\ kid.depth = n.depth + 1
                              /\ kid.left \in n.left .. n.right - 1 /\ kid.left \in Nat
                              /\ kid.code = code
                              /\ code = CodeAt(dicts[kid.left + 1], n.depth + 1)
                              /\ Link(owner, b + code, kid)
               /\ \A m \in n.left .. n.right - 1 :
                     CodeAt(dicts[m + 1], n.depth + 1) = code => At(check, b + code) = b
<1> DEFINE n == owner[b]
           s == Kids(owner, b)
<1>1. /\ b \in Nat /\ b > 0 /\ Children(dicts, n, s) /\ Inner(dicts, n)
      /\ \A k \in 1 .. Len(s) : s[k].code \in Nat /\ s[k] \in Node
    BY KidsOf DEF Spelt, Owned, Marked
<1>2. n.depth \in Nat /\ n.left \in Nat /\ n.right \in Nat
    BY <1>1 DEF Inner, IsNode, Node
<1>3. \A k \in 1 .. Len(s) : Link(owner, b + s[k].code, s[k])
    <2>1. stack = <<>>
        BY DEF Spelt, Calls
    <2>2. \A a, k : ~ Pending(a, k)
        BY <2>1 DEF Pending
    <2> QED
        BY <2>2 DEF Spelt, Owned, Linked
<1>4. ASSUME At(check, b + code) = b
      PROVE  \E k \in 1 .. Len(s) : s[k].code = code
    <2>1. b + code \in DOMAIN check /\ check[b + code] = b
        BY <1>1, <1>4 DEF At
    <2>2. PICK k \in 1 .. Len(s) : b + code = b + s[k].code
        BY <2>1 DEF Spelt, Owned, Spelled
    <2> HIDE DEF s
    <2> QED
        BY <1>1, <2>2
<1>5. ASSUME NEW k \in 1 .. Len(s)
      PROVE  /\ IsNode(dicts, s[k]) /\ s[k].depth = n.depth + 1
             /\ s[k].left \in n.left .. n.right - 1 /\ s[k].left \in Nat
             /\ s[k].code = CodeAt(dicts[s[k].left + 1], n.depth + 1)
    <2>1. /\ IsNode(dicts, s[k]) /\ s[k].depth = n.depth + 1
          /\ n.left <= s[k].left /\ s[k].right <= n.right
          /\ s[k].code = CodeAt(dicts[s[k].left + 1], n.depth + 1)
        BY <1>1 DEF Children
    <2>2. s[k].left < s[k].right /\ s[k].left \in Nat /\ s[k].right \in Nat
        BY <2>1 DEF IsNode, Node
    <2> QED
        BY <1>2, <2>1, <2>2
<1>6. ASSUME NEW m \in n.left .. n.right - 1, CodeAt(dicts[m + 1], n.depth + 1) = code
      PROVE  At(check, b + code) = b
    <2>1. PICK k \in 1 .. Len(s) : m \in s[k].left .. s[k].right - 1
        BY <1>1 DEF Children
    <2>2. m \in 0 .. Len(dicts) - 1
        BY <1>1, InnerLines DEF Spelt, Calls
    <2>3. Agree(dicts, s[k].left, m, n.depth + 1)
        BY <1>5, <2>1, <2>2 DEF IsNode
    <2>4. n.depth + 1 \in 1 .. n.depth + 1
        BY <1>2
    <2>5. s[k].code = code
        BY <1>5, <1>6, <2>3, <2>4 DEF Agree
    <2>6. b + code \in DOMAIN check /\ check[b + code] = b
        BY <2>5 DEF Spelt, Owned, Marked
    <2> QED
        BY <2>6 DEF At
<1> QED
    BY <1>1, <1>2, <1>3, <1>4, <1>5, <1>6, Zenon

(* A word's first i codes are the key's.                                   *)
Matches(word, w, i) == \A j \in 1 .. i : CodeAt(word, j) = CodeAt(w, j)

(* The state that i characters of a key lead to: the begin of the node     *)
(* whose lines start with these characters.                                *)
Reaches(owner, w, i, b) ==
    /\ b \in used /\ owner[b].depth = i
    /\ \A m \in 0 .. Len(dicts) - 1 :
           m \in owner[b].left .. owner[b].right - 1 <=> Matches(dicts[m + 1], w, i)

LEMMA ReachesNext ==
    ASSUME NEW owner, Spelt(owner), NEW w \in Seq(Character), NEW i \in Nat, i < Len(w),
           NEW b, Reaches(owner, w, i, b)
    PROVE  LET code == GetCnCode(w[i + 1])
           IN  /\ At(check, b + code) = b => Reaches(owner, w, i + 1, At(base, b + code))
               /\ \A m \in 0 .. Len(dicts) - 1 :
                     Matches(dicts[m + 1], w, i + 1) => At(check, b + code) = b
<1> DEFINE code == GetCnCode(w[i + 1])
           n == owner[b]
<1>1. code = CodeAt(w, i + 1) /\ code \in Nat /\ code # 0 /\ i + 1 \in Nat \ {0}
    <2>1. i + 1 \in DOMAIN w /\ i + 1 \in Nat \ {0} /\ ~ (Len(w) < i + 1)
        OBVIOUS
    <2>2. code = CodeAt(w, i + 1)
        BY <2>1 DEF CodeAt
    <2> HIDE DEF code
    <2> QED
        BY <2>1, <2>2, CodesOfWord
<1>2. b \in used /\ n.depth = i
    BY DEF Reaches
<1>3. \A m \in 0 .. Len(dicts) - 1 : m \in n.left .. n.right - 1 <=> Matches(dicts[m + 1], w, i)
    BY DEF Reaches
<1>4. \A word : Matches(word, w, i + 1) <=>
                    Matches(word, w, i) /\ CodeAt(word, i + 1) = CodeAt(w, i + 1)
    <2>1. \A j : j \in 1 .. i + 1 <=> j \in 1 .. i \/ j = i + 1
        OBVIOUS
    <2> QED
        BY <2>1, Zenon DEF Matches
<1> HIDE DEF code
<1>5. ASSUME At(check, b + code) = b PROVE Reaches(owner, w, i + 1, At(base, b + code))
    <2>1. PICK kid : /\ IsNode(dicts, kid) /\ kid.depth = i + 1
                     /\ kid.left \in n.left .. n.right - 1 /\ kid.left \in Nat /\ kid.code = code
                     /\ code = CodeAt(dicts[kid.left + 1], i + 1)
                     /\ Link(owner, b + code, kid)
        BY <1>1, <1>2, <1>5, KidFor, Zenon
    <2>2. At(base, b + code) \in used /\ owner[At(base, b + code)] = kid
        BY <1>1, <2>1 DEF Link, At
    <2>3. kid.left \in 0 .. Len(dicts) - 1
        BY <2>1 DEF IsNode, Node, Spelt, Calls
    <2>4. Matches(dicts[kid.left + 1], w, i + 1)
        BY <1>1, <1>3, <1>4, <2>1, <2>3
    <2>5. ASSUME NEW m \in 0 .. Len(dicts) - 1
          PROVE  m \in kid.left .. kid.right - 1 <=> Matches(dicts[m + 1], w, i + 1)
        <3>1. m \in kid.left .. kid.right - 1 <=> Agree(dicts, kid.left, m, i + 1)
            BY <2>1 DEF IsNode
        <3>2. Agree(dicts, kid.left, m, i + 1) <=> Matches(dicts[m + 1], w, i + 1)
            BY <2>4, Zenon DEF Agree, Matches
        <3> QED
            BY <3>1, <3>2
    <2> QED
        BY <2>1, <2>2, <2>5 DEF Reaches
<1>6. ASSUME NEW m \in 0 .. Len(dicts) - 1, Matches(dicts[m + 1], w, i + 1)
      PROVE  At(check, b + code) = b
    <2>1. m \in n.left .. n.right - 1 /\ CodeAt(dicts[m + 1], i + 1) = code
        BY <1>1, <1>3, <1>4, <1>6
    <2>2. \A l \in n.left .. n.right - 1 :
              CodeAt(dicts[l + 1], n.depth + 1) = code => At(check, b + code) = b
        BY <1>1, <1>2, KidFor, Zenon
    <2> QED
        BY <1>2, <2>1, <2>2
<1> QED
    BY <1>5, <1>6 DEF code

LEMMA ReachesRoot ==
    ASSUME NEW owner, Spelt(owner), NEW w
    PROVE  Reaches(owner, w, 0, At(base, 0))
<1>1. At(base, 0) \in used /\ owner[At(base, 0)] = Root
    BY DEF Spelt, Owned, CallsOwn, At
<1>2. Root.depth = 0 /\ Root.left = 0 /\ Root.right = Len(dicts)
    BY DEF Root
<1>3. \A word : Matches(word, w, 0)
    BY DEF Matches
<1> QED
    BY <1>1, <1>2, <1>3 DEF Reaches

(* The loops of the lookups.  A cell of _base holds one of these.          *)
Values == {base[c] : c \in DOMAIN base} \cup {0}

LEMMA FollowLoop ==
    ASSUME NEW key, SplitChWords(key) \in Seq(Character)
    PROVE  LET w == SplitChWords(key) IN
           \E f : /\ Follow(key) = f[Len(w)] /\ f[0] = {At(base, 0)}
                  /\ \A i \in 0 .. Len(w) - 1 : f[i + 1] = Nexts(f[i], GetCnCode(w[i + 1]))
<1> DEFINE w == SplitChWords(key)
           n == Len(w)
           S == SUBSET Values
           start == {At(base, 0)}
           Turn(s, i) == Nexts(s, GetCnCode(w[i]))
           step == [i \in 1 .. n |-> [s \in S |-> Turn(s, i)]]
           states[i \in 0 .. n] == IF i = 0 THEN start ELSE Turn(states[i - 1], i)
<1>1. n \in Nat
    OBVIOUS
<1>2. \A c : At(base, c) \in Values
    BY DEF At, Values
<1>3. start \in S /\ \A s, i : Turn(s, i) \in S
    BY <1>2 DEF Nexts
<1>4. step \in [1 .. n -> [S -> S]]
    <2> HIDE DEF S, Turn
    <2> QED
        BY <1>3
<1> HIDE DEF S, start
<1>5. PICK f \in [0 .. n -> S] : Strings!Loops(f, n, start, step)
    <2> HIDE DEF n, step
    <2> QED
        BY <1>1, <1>3, <1>4, Strings!Loop
<1>6. f = [i \in 0 .. n |-> IF i = 0 THEN start ELSE step[i][f[i - 1]]]
    BY <1>5 DEF Strings!Loops
<1>7. ASSUME NEW i \in 1 .. n PROVE step[i][f[i - 1]] = Turn(f[i - 1], i)
    <2>1. f[i - 1] \in S
        BY <1>1
    <2> HIDE DEF Turn
    <2> QED
        BY <2>1
<1>8. f = [i \in 0 .. n |-> IF i = 0 THEN start ELSE Turn(f[i - 1], i)]
    <2>1. \A i \in 0 .. n : i # 0 => i \in 1 .. n
        BY <1>1
    <2> HIDE DEF n, step, Turn
    <2> QED
        BY <1>6, <1>7, <2>1
<1>9. states = [i \in 0 .. n |-> IF i = 0 THEN start ELSE Turn(states[i - 1], i)]
    <2> HIDE DEF n, Turn
    <2> QED
        BY <1>8
<1>10. Follow(key) = states[n]
    BY Zenon DEF Follow, states, n, start, Turn
<1> HIDE DEF states, step
<1>11. states[0] = start
    BY <1>1, <1>9
<1>12. ASSUME NEW i \in 0 .. n - 1 PROVE states[i + 1] = Turn(states[i], i + 1)
    <2>1. i + 1 \in 0 .. n /\ i + 1 # 0 /\ (i + 1) - 1 = i
        BY <1>1
    <2> HIDE DEF n, Turn
    <2> QED
        BY <1>9, <2>1
<1> QED
    BY <1>10, <1>11, <1>12 DEF start

LEMMA TSearchLoop ==
    ASSUME NEW key, SplitChWords(key) \in Seq(Character)
    PROVE  LET w == SplitChWords(key) IN
           \E g : /\ TSearch(key) = (IF g[Len(w)].end THEN g[Len(w)].b
                                     ELSE IF At(base, g[Len(w)].b) < 0
                                          THEN - At(base, g[Len(w)].b) - 1
                                     ELSE -1)
                  /\ g[0] = [end |-> FALSE, b |-> At(base, 0)]
                  /\ \A i \in 0 .. Len(w) - 1 : g[i + 1] = TNext(g[i], GetCnCode(w[i + 1]))
<1> DEFINE w == SplitChWords(key)
           n == Len(w)
           S == [end : BOOLEAN, b : Values \cup {-1} \cup {- v - 1 : v \in Values}]
           start == [end |-> FALSE, b |-> At(base, 0)]
           Turn(s, i) == TNext(s, GetCnCode(w[i]))
           step == [i \in 1 .. n |-> [s \in S |-> Turn(s, i)]]
           steps[i \in 0 .. n] == IF i = 0 THEN start ELSE Turn(steps[i - 1], i)
<1>1. n \in Nat
    OBVIOUS
<1>2. \A c : At(base, c) \in Values
    BY DEF At, Values
<1>3. start \in S /\ \A s \in S : \A i : Turn(s, i) \in S
    BY <1>2 DEF TNext
<1>4. step \in [1 .. n -> [S -> S]]
    <2> HIDE DEF S, Turn
    <2> QED
        BY <1>3
<1> HIDE DEF S, start
<1>5. PICK f \in [0 .. n -> S] : Strings!Loops(f, n, start, step)
    <2> HIDE DEF n, step
    <2> QED
        BY <1>1, <1>3, <1>4, Strings!Loop
<1>6. f = [i \in 0 .. n |-> IF i = 0 THEN start ELSE step[i][f[i - 1]]]
    BY <1>5 DEF Strings!Loops
<1>7. ASSUME NEW i \in 1 .. n PROVE step[i][f[i - 1]] = Turn(f[i - 1], i)
    <2>1. f[i - 1] \in S
        BY <1>1
    <2> HIDE DEF Turn
    <2> QED
        BY <2>1
<1>8. f = [i \in 0 .. n |-> IF i = 0 THEN start ELSE Turn(f[i - 1], i)]
    <2>1. \A i \in 0 .. n : i # 0 => i \in 1 .. n
        BY <1>1
    <2> HIDE DEF n, step, Turn
    <2> QED
        BY <1>6, <1>7, <2>1
<1>9. steps = [i \in 0 .. n |-> IF i = 0 THEN start ELSE Turn(steps[i - 1], i)]
    <2> HIDE DEF n, Turn
    <2> QED
        BY <1>8
<1>10. TSearch(key) = (IF steps[n].end THEN steps[n].b
                       ELSE IF At(base, steps[n].b) < 0 THEN - At(base, steps[n].b) - 1
                       ELSE -1)
    BY Zenon DEF TSearch, steps, n, start, Turn
<1> HIDE DEF steps, step
<1>11. steps[0] = start
    BY <1>1, <1>9
<1>12. ASSUME NEW i \in 0 .. n - 1 PROVE steps[i + 1] = Turn(steps[i], i + 1)
    <2>1. i + 1 \in 0 .. n /\ i + 1 # 0 /\ (i + 1) - 1 = i
        BY <1>1
    <2> HIDE DEF n, Turn
    <2> QED
        BY <1>9, <2>1
<1> QED
    BY <1>10, <1>11, <1>12 DEF start

(* Where the characters of a key lead, and the first line that starts with *)
(* them: they lead nowhere when there is none.                             *)
LEMMA Followed ==
    ASSUME NEW owner, Spelt(owner), NEW key, NEW w \in Seq(Character), w = SplitChWords(key),
           NEW f, f[0] = {At(base, 0)},
           \A i \in 0 .. Len(w) - 1 : f[i + 1] = Nexts(f[i], GetCnCode(w[i + 1]))
    PROVE  \A i \in 0 .. Len(w) :
              \/ \E b : f[i] = {b} /\ Reaches(owner, w, i, b)
              \/ f[i] = {} /\ \A m \in 0 .. Len(dicts) - 1 : ~ Matches(dicts[m + 1], w, i)
<1> DEFINE Leads(i) ==
               \/ \E b : f[i] = {b} /\ Reaches(owner, w, i, b)
               \/ f[i] = {} /\ \A m \in 0 .. Len(dicts) - 1 : ~ Matches(dicts[m + 1], w, i)
           T == {i \in Nat : i <= Len(w) => Leads(i)}
<1>1. Len(w) \in Nat
    OBVIOUS
<1>2. Leads(0)
    BY ReachesRoot
<1>3. ASSUME NEW i \in Nat, i + 1 <= Len(w), Leads(i) PROVE Leads(i + 1)
    <2> DEFINE code == GetCnCode(w[i + 1])
    <2>1. i \in 0 .. Len(w) - 1 /\ i < Len(w)
        BY <1>1, <1>3
    <2>2. f[i + 1] = {At(base, b + code) : b \in {b \in f[i] : At(check, b + code) = b}}
        BY <2>1 DEF Nexts
    <2>3. \A word : Matches(word, w, i + 1) => Matches(word, w, i)
        <3>1. \A j \in 1 .. i : j \in 1 .. i + 1
            OBVIOUS
        <3> QED
            BY <3>1, Zenon DEF Matches
    <2>4. ASSUME NEW b, f[i] = {b}, Reaches(owner, w, i, b) PROVE Leads(i + 1)
        <3>1. /\ At(check, b + code) = b => Reaches(owner, w, i + 1, At(base, b + code))
              /\ \A m \in 0 .. Len(dicts) - 1 :
                    Matches(dicts[m + 1], w, i + 1) => At(check, b + code) = b
            BY <2>1, <2>4, ReachesNext
        <3> HIDE DEF code
        <3>2. CASE At(check, b + code) = b
            <4>1. f[i + 1] = {At(base, b + code)}
                BY <2>2, <2>4, <3>2
            <4> QED
                BY <3>1, <3>2, <4>1
        <3>3. CASE At(check, b + code) # b
            <4>1. f[i + 1] = {}
                BY <2>2, <2>4, <3>3
            <4> QED
                BY <3>1, <3>3, <4>1
        <3> QED
            BY <3>2, <3>3
    <2>5. CASE f[i] = {} /\ \A m \in 0 .. Len(dicts) - 1 : ~ Matches(dicts[m + 1], w, i)
        <3> HIDE DEF code
        <3>1. f[i + 1] = {}
            BY <2>2, <2>5
        <3> QED
            BY <2>3, <2>5, <3>1
    <2> QED
        BY <1>3, <2>4, <2>5
<1> HIDE DEF Leads
<1>4. \A i \in Nat : i \in T => i + 1 \in T
    BY <1>1, <1>3
<1>5. 0 \in T
    BY <1>2
<1> HIDE DEF T
<1>6. Nat \subseteq T
    BY <1>4, <1>5, Strings!Induction
<1>7. \A i \in 0 .. Len(w) : Leads(i)
    BY <1>1, <1>6 DEF T
<1> QED
    BY <1>7 DEF Leads

(* The lines of a key's words.                                             *)
LEMMA WordLines ==
    ASSUME Calls, NEW w \in Seq(Character), NEW m \in 0 .. Len(dicts) - 1
    PROVE  dicts[m + 1] = w <=> Matches(dicts[m + 1], w, Len(w)) /\ CodeAt(dicts[m + 1], Len(w) + 1) = 0
<1>1. dicts[m + 1] \in Seq(Character) /\ Len(w) \in Nat
    BY DEF Calls
<1>2. CodeAt(w, Len(w) + 1) = 0
    BY <1>1, CodesOfWord
<1>3. \A j : j \in 1 .. Len(w) + 1 <=> j \in 1 .. Len(w) \/ j = Len(w) + 1
    BY <1>1
<1>4. ASSUME Matches(dicts[m + 1], w, Len(w)), CodeAt(dicts[m + 1], Len(w) + 1) = 0
      PROVE  dicts[m + 1] = w
    <2>1. \A j \in 1 .. Len(w) + 1 : CodeAt(dicts[m + 1], j) = CodeAt(w, j)
        BY <1>2, <1>3, <1>4, Zenon DEF Matches
    <2> QED
        BY <1>1, <2>1, WordByCodes
<1> QED
    BY <1>2, <1>4, Zenon DEF Matches

(* _search finds a term at its first line, and nothing else.               *)
LEMMA FindExact ==
    ASSUME NEW owner, Spelt(owner), NEW key, SplitChWords(key) \in Seq(Character)
    PROVE  /\ Find(key) = LineOf(key)
           /\ LineOf(key) # -1 => \E b \in Follow(key) : At(base, b) < 0 /\ Find(key) = - At(base, b) - 1
           /\ LineOf(key) # -1 => \E l \in DOMAIN dicts : dicts[l] = SplitChWords(key)
<1> DEFINE w == SplitChWords(key)
           n == Len(w)
           ends == {b \in Follow(key) : At(check, b) = b /\ At(base, b) < 0}
           ls == {l \in DOMAIN dicts : dicts[l] = w}
           least == CHOOSE l \in ls : \A m \in ls : l <= m
<1>1. n \in Nat /\ Calls /\ Len(dicts) \in Nat /\ DOMAIN dicts = 1 .. Len(dicts)
    BY DEF Spelt, Calls
<1>2. PICK f : /\ Follow(key) = f[n] /\ f[0] = {At(base, 0)}
               /\ \A i \in 0 .. n - 1 : f[i + 1] = Nexts(f[i], GetCnCode(w[i + 1]))
    BY FollowLoop
<1>3. \/ \E b : f[n] = {b} /\ Reaches(owner, w, n, b)
      \/ f[n] = {} /\ \A m \in 0 .. Len(dicts) - 1 : ~ Matches(dicts[m + 1], w, n)
    <2> n \in 0 .. n
        BY <1>1
    <2> QED
        BY <1>2, Followed
<1>4. \A m \in 0 .. Len(dicts) - 1 :
          dicts[m + 1] = w <=> Matches(dicts[m + 1], w, n) /\ CodeAt(dicts[m + 1], n + 1) = 0
    BY <1>1, WordLines
<1>5. Find(key) = (IF ends = {} THEN -1 ELSE - At(base, CHOOSE b \in ends : TRUE) - 1)
    BY Zenon DEF Find, ends
<1>6. LineOf(key) = (IF ls = {} THEN -1 ELSE least - 1)
    BY Zenon DEF LineOf, ls, least
<1> HIDE DEF w, least
<1>7. \A l \in ls : l - 1 \in 0 .. Len(dicts) - 1 /\ (l - 1) + 1 = l /\ l \in Int
    BY <1>1
<1> HIDE DEF n
<1>8. ASSUME \A m \in 0 .. Len(dicts) - 1 : dicts[m + 1] # w PROVE ls = {}
    BY <1>7, <1>8
<1>9. CASE f[n] = {} /\ \A m \in 0 .. Len(dicts) - 1 : ~ Matches(dicts[m + 1], w, n)
    <2>1. ls = {}
        BY <1>4, <1>8, <1>9
    <2>2. ends = {}
        BY <1>2, <1>9
    <2> QED
        BY <1>5, <1>6, <2>1, <2>2
<1>10. ASSUME NEW b, f[n] = {b}, Reaches(owner, w, n, b), At(check, b) # b
       PROVE  ls = {} /\ ends = {}
    <2>1. ends = {}
        BY <1>2, <1>10
    <2>2. b \in used /\ b \in Nat /\ b + 0 = b
        BY <1>10, KidFor DEF Reaches
    <2>3. ASSUME NEW m \in 0 .. Len(dicts) - 1, dicts[m + 1] = w PROVE FALSE
        <3>1. Matches(dicts[m + 1], w, n) /\ CodeAt(dicts[m + 1], n + 1) = 0
            BY <1>4, <2>3
        <3>2. m \in owner[b].left .. owner[b].right - 1 /\ owner[b].depth = n
            BY <1>10, <3>1 DEF Reaches
        <3>3. At(check, b + 0) = b
            BY <2>2, <3>1, <3>2, KidFor
        <3> QED
            BY <1>10, <2>2, <3>3
    <2> QED
        BY <1>8, <2>1, <2>3
<1>11. ASSUME NEW b, f[n] = {b}, Reaches(owner, w, n, b), At(check, b) = b
       PROVE  /\ LineOf(key) = Find(key) /\ b \in Follow(key) /\ At(base, b) < 0
              /\ Find(key) = - At(base, b) - 1
              /\ \E l \in DOMAIN dicts : dicts[l] = w
    <2>1. b \in used /\ b \in Nat /\ b + 0 = b /\ owner[b].depth = n
        BY <1>11, KidFor DEF Reaches
    <2>2. PICK kid : /\ IsNode(dicts, kid) /\ kid.depth = n + 1
                     /\ kid.left \in owner[b].left .. owner[b].right - 1 /\ kid.left \in Nat
                     /\ kid.code = 0 /\ 0 = CodeAt(dicts[kid.left + 1], n + 1)
                     /\ Link(owner, b + 0, kid)
        BY <1>11, <2>1, KidFor
    <2>3. At(base, b) = - kid.left - 1 /\ At(base, b) < 0 /\ - At(base, b) - 1 = kid.left
        BY <2>1, <2>2 DEF Link, At
    <2>4. ends = {b}
        BY <1>2, <1>11, <2>3
    <2>5. Find(key) = - At(base, b) - 1
        BY <1>5, <2>4
    <2>6. kid.left \in 0 .. Len(dicts) - 1
        BY <1>1, <2>2 DEF IsNode, Node
    <2>7. dicts[kid.left + 1] = w
        <3>1. Matches(dicts[kid.left + 1], w, n)
            BY <1>11, <2>2, <2>6 DEF Reaches
        <3> QED
            BY <1>4, <2>2, <2>6, <3>1
    <2>8. ASSUME NEW l \in ls PROVE kid.left + 1 <= l
        <3>1. dicts[(l - 1) + 1] = w /\ l - 1 \in 0 .. Len(dicts) - 1
            BY <1>7
        <3>2. Agree(dicts, kid.left, l - 1, n + 1)
            BY <2>7, <3>1 DEF Agree
        <3>3. l - 1 \in kid.left .. kid.right - 1
            BY <2>2, <3>1, <3>2 DEF IsNode
        <3> QED
            BY <1>7, <2>2, <3>3
    <2>9. kid.left + 1 \in ls
        BY <1>1, <2>6, <2>7
    <2>10. least = kid.left + 1
        <3>1. least \in ls /\ \A m \in ls : least <= m
            BY <2>8, <2>9 DEF least
        <3>2. least <= kid.left + 1 /\ kid.left + 1 <= least /\ least \in Int
            BY <1>7, <2>8, <2>9, <3>1
        <3> QED
            BY <2>2, <3>2
    <2>11. LineOf(key) = kid.left
        BY <1>6, <2>2, <2>9, <2>10
    <2> QED
        BY <1>2, <1>11, <2>3, <2>5, <2>9, <2>11
<1> QED
    BY <1>3, <1>5, <1>6, <1>9, <1>10, <1>11 DEF w

(* _tsearch does not look at _check, and need not where there is a term.   *)
LEMMA TSearchExact ==
    ASSUME NEW owner, Spelt(owner), NEW key, SplitChWords(key) \in Seq(Character),
           LineOf(key) # -1
    PROVE  TSearch(key) = LineOf(key)
<1> DEFINE w == SplitChWords(key)
           n == Len(w)
<1>1. n \in Nat /\ Calls /\ Len(dicts) \in Nat /\ DOMAIN dicts = 1 .. Len(dicts)
    BY DEF Spelt, Calls
<1>2. PICK f : /\ Follow(key) = f[n] /\ f[0] = {At(base, 0)}
               /\ \A i \in 0 .. n - 1 : f[i + 1] = Nexts(f[i], GetCnCode(w[i + 1]))
    BY FollowLoop
<1>3. PICK g : /\ TSearch(key) = (IF g[n].end THEN g[n].b
                                  ELSE IF At(base, g[n].b) < 0 THEN - At(base, g[n].b) - 1
                                  ELSE -1)
               /\ g[0] = [end |-> FALSE, b |-> At(base, 0)]
               /\ \A i \in 0 .. n - 1 : g[i + 1] = TNext(g[i], GetCnCode(w[i + 1]))
    BY TSearchLoop
<1>4. /\ Find(key) = LineOf(key)
      /\ \E b \in Follow(key) : At(base, b) < 0 /\ Find(key) = - At(base, b) - 1
    BY FindExact
<1>5. PICK l \in DOMAIN dicts : dicts[l] = w
    BY FindExact
<1>6. l - 1 \in 0 .. Len(dicts) - 1 /\ (l - 1) + 1 = l
    BY <1>1
<1>7. \A i : Matches(dicts[l], w, i)
    BY <1>5 DEF Matches
<1>8. ASSUME NEW i \in 0 .. n PROVE \E b \in used : f[i] = {b} /\ b \in Nat /\ b > 0
    <2>1. \/ \E b : f[i] = {b} /\ Reaches(owner, w, i, b)
          \/ f[i] = {} /\ \A m \in 0 .. Len(dicts) - 1 : ~ Matches(dicts[m + 1], w, i)
        BY <1>2, Followed
    <2>2. PICK b : f[i] = {b} /\ Reaches(owner, w, i, b)
        BY <1>6, <1>7, <2>1
    <2>3. b \in used
        BY <2>2 DEF Reaches
    <2> QED
        BY <2>2, <2>3, KidFor
<1> DEFINE T == {i \in Nat : i <= n => ~ g[i].end /\ f[i] = {g[i].b}}
<1>9. 0 \in T
    BY <1>2, <1>3
<1>10. ASSUME NEW i \in Nat, i \in T PROVE i + 1 \in T
    <2> SUFFICES ASSUME i + 1 <= n PROVE ~ g[i + 1].end /\ f[i + 1] = {g[i + 1].b}
        OBVIOUS
    <2>1. i \in 0 .. n - 1 /\ i + 1 \in 0 .. n /\ i <= n
        BY <1>1
    <2> DEFINE b == g[i].b
               code == GetCnCode(w[i + 1])
    <2>2. ~ g[i].end /\ f[i] = {b}
        BY <1>10, <2>1
    <2>3. f[i + 1] = {At(base, a + code) : a \in {a \in {b} : At(check, a + code) = a}}
        BY <1>2, <2>1, <2>2 DEF Nexts
    <2>4. PICK to \in used : f[i + 1] = {to} /\ to \in Nat /\ to > 0
        BY <1>8, <2>1
    <2>5. g[i + 1] = TNext(g[i], code)
        BY <1>3, <2>1
    <2> HIDE DEF code, b
    <2>6. At(base, b + code) = to
        BY <2>3, <2>4
    <2>7. g[i + 1] = [end |-> FALSE, b |-> to]
        BY <2>2, <2>4, <2>5, <2>6 DEF TNext, b
    <2> QED
        BY <2>4, <2>7
<1> HIDE DEF T
<1>11. \A i \in Nat : i \in T => i + 1 \in T
    BY <1>10
<1>12. Nat \subseteq T
    BY <1>9, <1>11, Strings!Induction
<1>13. ~ g[n].end /\ f[n] = {g[n].b}
    BY <1>1, <1>12 DEF T
<1>14. At(base, g[n].b) < 0 /\ Find(key) = - At(base, g[n].b) - 1
    BY <1>2, <1>4, <1>13
<1> QED
    BY <1>3, <1>4, <1>13, <1>14

(* For files whose terms are sorted and made of readable characters: once  *)
(* _build has returned without a resize, _search finds the terms of the    *)
(* file and nothing else, each at its first line, _reversed_search gives   *)
(* its postings, and _tsearch finds every term (dat.h 293-367).            *)
THEOREM LookupExactCorrect ==
    ASSUME FilesSorted, ProbesReadable
    PROVE  Spec => []LookupExact
<1>1. Init => Tree
    BY CallsInit, OwnedInit DEF Tree
<1>2. Tree /\ [Next]_vars => Tree'
    BY TreeNext
<1>3. Tree => LookupExact
    <2> SUFFICES ASSUME Tree, pc = "done", ~resized, NEW key \in Probes
                 PROVE  /\ Find(key) = LineOf(key)
                        /\ ReversedSearch(key) = IF LineOf(key) = -1 THEN <<>>
                                                 ELSE values[LineOf(key) + 1]
                        /\ LineOf(key) # -1 => TSearch(key) = LineOf(key)
        BY DEF LookupExact
    <2>1. PICK owner : Spelt(owner)
        BY DEF Tree, Spelt
    <2>2. SplitChWords(key) \in Seq(Character)
        BY DEF ProbesReadable
    <2>3. Find(key) = LineOf(key)
        BY <2>1, <2>2, FindExact
    <2> QED
        BY <2>1, <2>2, <2>3, TSearchExact DEF ReversedSearch
<1> QED
    BY <1>1, <1>2, <1>3, PTL DEF Spec

-----------------------------------------------------------------------------
(* The arrays always have room for the cells that are taken.               *)
LEMMA Divided ==
    ASSUME NEW a \in Nat, NEW p \in Nat \ {0}, NEW q \in Nat, q * p <= a
    PROVE  a \div p \in Nat /\ q <= a \div p
<1> DEFINE d == a \div p
<1>1. d \in Int /\ d >= 0
    OBVIOUS
<1>2. a < p * d + p
    OBVIOUS
<1> HIDE DEF d
<1>3. d + 1 <= q => p * (d + 1) <= p * q
    <2> SUFFICES ASSUME d + 1 <= q PROVE p * (d + 1) <= p * q
        OBVIOUS
    <2>1. PICK e \in Nat : q = d + 1 + e
        <3>1. q - (d + 1) \in Nat /\ q = d + 1 + (q - (d + 1))
            BY <1>1
        <3> QED
            BY <3>1
    <2>2. p * q = p * (d + 1) + p * e
        BY <1>1, <2>1
    <2>3. p * e \in Nat
        OBVIOUS
    <2> QED
        BY <1>1, <2>2, <2>3
<1>4. p * (d + 1) = p * d + p /\ p * q = q * p
    BY <1>1
<1>5. q <= d
    BY <1>1, <1>2, <1>3, <1>4
<1> QED
    BY <1>1, <1>5 DEF d

(* A resize adds 5 percent at least: more than the largest code.           *)
Room == 20 * 65536

LEMMA Growth ==
    ASSUME NEW s \in Nat, s >= Room, NEW n \in Nat, NEW p \in Nat \ {0}
    PROVE  /\ (s * 105) \div 100 \in Nat /\ (s * 105) \div 100 >= s + 65536
           /\ ~ (105 * p > 100 * n) => (s * n) \div p \in Nat /\ (s * n) \div p >= s + 65536
<1>1. (s * 105) \div 100 \in Nat /\ (s * 105) \div 100 >= s + 65536
    BY DEF Room
<1>2. \A x, y, z \in Nat : x <= y => x * z <= y * z
    OBVIOUS
<1>3. ASSUME 105 * p <= 100 * n PROVE (s + 65536) * p <= s * n
    <2>1. 100 * (s + 65536) <= 105 * s
        BY DEF Room
    <2>2. (100 * (s + 65536)) * p <= (105 * s) * p
        BY <1>2, <2>1
    <2>3. (105 * p) * s <= (100 * n) * s
        BY <1>2, <1>3
    <2> DEFINE u == (s + 65536) * p
               v == s * n
               w == s * p
    <2>4. /\ (100 * (s + 65536)) * p = 100 * u /\ (105 * s) * p = 105 * w
          /\ (105 * p) * s = 105 * w /\ (100 * n) * s = 100 * v
          /\ u \in Nat /\ v \in Nat /\ w \in Nat
        OBVIOUS
    <2> HIDE DEF u, v, w
    <2>5. u <= v
        BY <2>2, <2>3, <2>4
    <2> QED
        BY <2>5 DEF u, v
<1>4. ASSUME ~ (105 * p > 100 * n) PROVE (s * n) \div p \in Nat /\ (s * n) \div p >= s + 65536
    <2>1. (s + 65536) * p <= s * n
        BY <1>3, <1>4
    <2>2. s * n \in Nat /\ s + 65536 \in Nat
        OBVIOUS
    <2> QED
        BY <2>1, <2>2, Divided
<1> QED
    BY <1>1, <1>4

(* What makes TypeOK inductive.                                            *)
Types ==
    /\ Calls /\ TypeOK
    /\ size >= Room /\ pos + 1 <= size /\ next_check_pos <= size

LEMMA ChildCodes ==
    ASSUME NEW words \in Seq(Seq(Character)), NEW n \in Node, NEW s, Children(words, n, s)
    PROVE  \A k \in 1 .. Len(s) :
               s[k].code \in Nat /\ s[k].code <= MaxCode /\ s[k].code <= s[Len(s)].code
<1>1. s \in Seq(Node) /\ Len(s) \in Nat /\ n.depth + 1 \in Nat \ {0}
    BY DEF Children, Node
<1>2. ASSUME NEW k \in 1 .. Len(s) PROVE s[k].code \in Nat /\ s[k].code <= MaxCode
    <2>1. IsNode(words, s[k]) /\ s[k].code = CodeAt(words[s[k].left + 1], n.depth + 1)
        BY DEF Children
    <2>2. s[k].left + 1 \in 1 .. Len(words)
        BY <2>1 DEF IsNode, Node
    <2>3. words[s[k].left + 1] \in Seq(Character)
        BY <2>2
    <2> QED
        BY <1>1, <2>1, <2>3, CodesOfWord
<1>3. \A j, k \in 1 .. Len(s) : j < k => s[j].code < s[k].code
    BY DEF Children
<1>4. ASSUME NEW k \in 1 .. Len(s) PROVE s[k].code <= s[Len(s)].code
    <2>1. Len(s) \in 1 .. Len(s) /\ (k = Len(s) \/ k < Len(s))
        BY <1>1
    <2> QED
        BY <1>2, <1>3, <2>1
<1> QED
    BY <1>2, <1>4

LEMMA TopCodes ==
    ASSUME Calls, pc # "done"
    PROVE  \A k \in 1 .. Len(Top.siblings) :
               /\ Top.siblings[k].code \in Nat /\ Top.siblings[k].code <= MaxCode
               /\ Top.siblings[k].code <= Top.siblings[Len(Top.siblings)].code
<1>1. Children(dicts, Parent(Len(stack)), Top.siblings) /\ Parent(Len(stack)) \in Node
    BY TopCall DEF CallOK, Inner, IsNode
<1> QED
    BY <1>1, ChildCodes DEF Calls

(* Where the search for a begin looks, there are cells, resized or not.    *)
LEMMA Fits ==
    ASSUME Types, Free
    PROVE  /\ Begin \in Nat /\ Begin > 0 /\ pos + 2 <= Grown /\ Needed = Grown
           /\ Grown \in Nat /\ size <= Grown
           /\ \A k \in DOMAIN Top.siblings :
                 /\ Begin + Top.siblings[k].code \in 1 .. Grown - 1
                 /\ Begin \in 1 .. Grown - 1
<1> DEFINE s == Top.siblings
           last == s[Len(s)].code
           first_ == s[1].code
<1>1. Calls /\ pc = "scan" /\ size \in Nat /\ size >= Room /\ pos + 1 <= size /\ pos \in Nat
      /\ progress \in Nat /\ dicts \in Seq(Seq(Character))
    BY DEF Types, TypeOK, Free, Calls
<1>2. Begin \in Nat /\ Begin > 0 /\ first_ \in Nat /\ first_ <= pos
    BY <1>1, BeginPositive DEF Calls
<1>3. Len(s) \in Nat /\ Len(s) > 0 /\ DOMAIN s = 1 .. Len(s) /\ Len(s) \in 1 .. Len(s)
    <2>1. Children(dicts, Parent(Len(stack)), s) /\ Len(s) \in Nat /\ Len(s) > 0
        BY <1>1, TopCall
    <2>2. s \in Seq(Node)
        BY <2>1 DEF Children
    <2> QED
        BY <2>1, <2>2
<1>4. \A k \in 1 .. Len(s) : s[k].code \in Nat /\ s[k].code <= last
    BY <1>1, TopCodes
<1>5. last \in Nat /\ last <= MaxCode /\ first_ <= last
    <2>1. 1 \in 1 .. Len(s)
        BY <1>3
    <2> QED
        BY <1>1, <1>3, <2>1, TopCodes
<1>6. Begin = pos + 1 - first_ /\ LastCell = Begin + last
    BY DEF Begin, LastCell
<1> HIDE DEF s, last, first_
<1>7. LastCell \in Nat /\ LastCell >= pos + 1 /\ LastCell <= size + 65535
    BY <1>1, <1>2, <1>5, <1>6 DEF MaxCode
<1>8. Grown \in Nat /\ size <= Grown /\ LastCell < Grown
    <2> DEFINE n == Len(dicts)
               p == progress + 1
    <2>1. n \in Nat /\ p \in Nat \ {0}
        BY <1>1
    <2>2. /\ (size * 105) \div 100 \in Nat /\ (size * 105) \div 100 >= size + 65536
          /\ ~ (105 * p > 100 * n) => (size * n) \div p \in Nat /\ (size * n) \div p >= size + 65536
        <3> HIDE DEF n, p
        <3> QED
            BY <1>1, <2>1, Growth
    <2>3. Grown = IF LastCell < size THEN size
                  ELSE IF 105 * p > 100 * n THEN (size * 105) \div 100
                  ELSE (size * n) \div p
        BY DEF Grown
    <2> HIDE DEF n, p
    <2>4. CASE LastCell < size
        BY <1>1, <2>3, <2>4
    <2>5. CASE ~ (LastCell < size)
        <3>1. Grown \in Nat /\ Grown >= size + 65536
            BY <2>2, <2>3, <2>5
        <3> QED
            BY <1>1, <1>7, <3>1
    <2> QED
        BY <2>4, <2>5
<1>9. Needed = Grown
    BY <1>7, <1>8 DEF Needed
<1>10. pos + 2 <= Grown
    BY <1>1, <1>7, <1>8
<1>11. ASSUME NEW k \in 1 .. Len(s)
       PROVE  Begin + s[k].code \in 1 .. Grown - 1 /\ Begin \in 1 .. Grown - 1
    BY <1>2, <1>4, <1>5, <1>6, <1>7, <1>8
<1> QED
    BY <1>2, <1>3, <1>8, <1>9, <1>10, <1>11 DEF s

LEMMA TypesInit ==
    ASSUME FilesSorted, RoomEnough, Init
    PROVE  Types
<1>1. Calls
    BY CallsInit
<1>2. /\ size = InitSize /\ base = <<>> /\ check = <<>> /\ used = {} /\ pc = "scan"
      /\ next_check_pos = 0 /\ non_zero_num = 0 /\ progress = 0 /\ first = FALSE /\ resized = FALSE
      /\ stack = <<Frame(FetchSiblings(Root), 0, 1)>> /\ pos = FetchSiblings(Root)[1].code
    BY DEF Init
<1>3. size \in Nat /\ size >= Room
    BY <1>2, DatAssumption DEF RoomEnough, Room
<1>4. pos + 1 <= size
    <2>1. Len(Top.siblings) > 0 /\ Len(Top.siblings) \in Nat
        BY <1>1, <1>2, TopCall
    <2>2. Top.siblings[1].code \in Nat /\ Top.siblings[1].code <= MaxCode
        BY <1>1, <1>2, <2>1, TopCodes
    <2>3. pos = Top.siblings[1].code
        BY <1>2 DEF Top, Frame
    <2> QED
        BY <1>3, <2>2, <2>3 DEF MaxCode, Room
<1>5. DOMAIN check = {} /\ DOMAIN base = {}
    BY <1>2
<1>6. TypeOK
    BY <1>1, <1>2, <1>3, <1>5 DEF TypeOK, Calls, Call_
<1> QED
    BY <1>1, <1>2, <1>3, <1>4, <1>6 DEF Types, Room

(* What a resize copies.                                                   *)
LEMMA CopiedCells ==
    ASSUME NEW array, NEW new_size
    PROVE  /\ DOMAIN Copied(array, new_size) \subseteq DOMAIN array
           /\ \A c \in DOMAIN Copied(array, new_size) : Copied(array, new_size)[c] = array[c]
BY DEF Copied

LEMMA TypesScan ==
    ASSUME Types, ScanUsed \/ ScanClash
    PROVE  TypeOK' /\ size' >= Room /\ pos' + 1 <= size' /\ next_check_pos' <= size'
<1>1. Free /\ size' = Grown /\ resized' \in BOOLEAN
      /\ base' = Copied(base, Grown) /\ check' = Copied(check, Grown)
    <2>1. Free /\ Needed = Grown
        BY Fits DEF ScanUsed, ScanClash
    <2> QED
        BY <2>1 DEF ScanUsed, ScanClash, Resize
<1>2. /\ pos' = pos + 1 /\ next_check_pos' = FirstFree /\ first' = TRUE
      /\ UNCHANGED <<used, non_zero_num, progress, stack, pc>>
    BY DEF ScanUsed, ScanClash, Advance
<1>3. pos + 2 <= Grown /\ Grown \in Nat /\ size <= Grown
    BY <1>1, Fits
<1>4. /\ size \in Nat /\ pos \in Nat /\ next_check_pos \in Nat /\ pos + 1 <= size
      /\ next_check_pos <= size /\ size >= Room
    BY DEF Types, TypeOK
<1>5. FirstFree \in Nat /\ FirstFree <= size
    BY <1>4 DEF FirstFree
<1>6. \A x : x \in 1 .. size - 1 => x \in 1 .. Grown - 1
    BY <1>3, <1>4
<1>7. DOMAIN check' \subseteq 1 .. size' - 1 /\ used' \subseteq 1 .. size' - 1
    BY <1>1, <1>2, <1>6, CopiedCells DEF Types, TypeOK
<1>8. \A c \in DOMAIN check' : check'[c] \in used'
    BY <1>1, <1>2, CopiedCells DEF Types, TypeOK
<1>9. DOMAIN base' \subseteq Nat /\ \A c \in DOMAIN base' : base'[c] \in Int
    BY <1>1, CopiedCells DEF Types, TypeOK
<1>10. {size', next_check_pos', non_zero_num', progress', pos'} \subseteq Nat
    BY <1>1, <1>2, <1>3, <1>4, <1>5 DEF Types, TypeOK
<1>11. /\ stack' \in Seq([siblings : Seq(Node), begin : Nat, at : Nat])
       /\ pc' \in {"scan", "fill", "done"} /\ {first', resized'} \subseteq BOOLEAN
    BY <1>1, <1>2 DEF Types, TypeOK
<1>12. TypeOK'
    BY <1>7, <1>8, <1>9, <1>10, <1>11 DEF TypeOK
<1>13. Grown >= Room /\ pos' + 1 <= Grown /\ next_check_pos' <= Grown
    BY <1>2, <1>3, <1>4, <1>5 DEF Room
<1> QED
    BY <1>1, <1>12, <1>13

LEMMA TypesPlace ==
    ASSUME Types, Place, Calls'
    PROVE  TypeOK' /\ size' >= Room /\ pos' + 1 <= size' /\ next_check_pos' <= size'
<1> DEFINE cells == {Begin + Top.siblings[k].code : k \in DOMAIN Top.siblings}
           old == Copied(check, Grown)
<1>1. /\ Free /\ size' = Grown /\ resized' \in BOOLEAN /\ base' = Copied(base, Grown)
      /\ check' = Mark(old, cells, Begin)
    <2>1. Free /\ Needed = Grown
        BY Fits DEF Place
    <2> QED
        BY <2>1 DEF Place, Resize
<1>2. /\ pos' = pos + 1 /\ next_check_pos' \in {pos + 1, FirstFree} /\ used' = used \cup {Begin}
      /\ UNCHANGED <<non_zero_num, progress, first>>
    BY DEF Place
<1>3. /\ pos + 2 <= Grown /\ Grown \in Nat /\ size <= Grown
      /\ \A k \in DOMAIN Top.siblings :
            Begin + Top.siblings[k].code \in 1 .. Grown - 1 /\ Begin \in 1 .. Grown - 1
    BY <1>1, Fits
<1>4. /\ size \in Nat /\ pos \in Nat /\ next_check_pos \in Nat /\ pos + 1 <= size
      /\ next_check_pos <= size /\ size >= Room
    BY DEF Types, TypeOK
<1>5. FirstFree \in Nat /\ FirstFree <= size
    BY <1>4 DEF FirstFree
<1>6. \A x : x \in 1 .. size - 1 => x \in 1 .. Grown - 1
    BY <1>3, <1>4
<1>7. Begin \in 1 .. Grown - 1 /\ cells \subseteq 1 .. Grown - 1
    <2>1. 1 \in DOMAIN Top.siblings
        <3>1. Top.siblings \in Seq(Node) /\ Len(Top.siblings) > 0
            BY <1>1, TopCall DEF Types, Free, Children
        <3> QED
            BY <3>1
    <2> QED
        BY <1>3, <2>1
<1>8. /\ DOMAIN check' = DOMAIN old \cup cells
      /\ \A c \in DOMAIN check' : check'[c] = IF c \in cells THEN Begin ELSE old[c]
    BY <1>1 DEF Mark
<1>9. /\ DOMAIN old \subseteq DOMAIN check
      /\ \A c \in DOMAIN old : old[c] = check[c]
    BY CopiedCells
<1> HIDE DEF cells, old
<1>10. DOMAIN check' \subseteq 1 .. size' - 1 /\ used' \subseteq 1 .. size' - 1
    <2>1. DOMAIN check \subseteq 1 .. Grown - 1 /\ used \subseteq 1 .. Grown - 1
        BY <1>6 DEF Types, TypeOK
    <2> QED
        BY <1>1, <1>2, <1>7, <1>8, <1>9, <2>1
<1>11. \A c \in DOMAIN check' : check'[c] \in used'
    BY <1>2, <1>8, <1>9 DEF Types, TypeOK
<1>12. DOMAIN base' \subseteq Nat /\ \A c \in DOMAIN base' : base'[c] \in Int
    BY <1>1, CopiedCells DEF Types, TypeOK
<1>13. {size', next_check_pos', non_zero_num', progress', pos'} \subseteq Nat
    BY <1>1, <1>2, <1>3, <1>4, <1>5 DEF Types, TypeOK
<1>14. /\ stack' \in Seq([siblings : Seq(Node), begin : Nat, at : Nat])
       /\ pc' \in {"scan", "fill", "done"} /\ {first', resized'} \subseteq BOOLEAN
    BY <1>1, <1>2 DEF Types, TypeOK, Calls, Call_
<1>15. TypeOK'
    BY <1>10, <1>11, <1>12, <1>13, <1>14 DEF TypeOK
<1>16. Grown >= Room /\ pos' + 1 <= Grown /\ next_check_pos' <= Grown
    BY <1>2, <1>3, <1>4, <1>5 DEF Room
<1> QED
    BY <1>1, <1>15, <1>16

LEMMA TypesNext ==
    ASSUME Types, [Next]_vars
    PROVE  Types'
<1>1. Calls /\ Calls' /\ TypeOK
    BY CallsNext DEF Types
<1>2. /\ size \in Nat /\ pos \in Nat /\ next_check_pos \in Nat /\ pos + 1 <= size
      /\ next_check_pos <= size /\ size >= Room /\ progress \in Nat /\ non_zero_num \in Nat
    BY DEF Types, TypeOK
<1>3. /\ stack' \in Seq([siblings : Seq(Node), begin : Nat, at : Nat])
      /\ pc' \in {"scan", "fill", "done"} /\ pos' \in Nat /\ next_check_pos' \in Nat
    BY <1>1 DEF Calls, Call_
<1>4. CASE UNCHANGED vars
    BY <1>4 DEF Types, TypeOK, Calls, CallOK, Parent, Root, Top, vars, arrays
<1>5. CASE ScanTaken
    <2>1. /\ UNCHANGED <<base, check, used, size, next_check_pos, progress, first, resized>>
          /\ pos' = pos + 1 /\ non_zero_num' = non_zero_num + 1 /\ pos + 1 \in DOMAIN check
        BY <1>5 DEF ScanTaken, arrays
    <2>2. TypeOK'
        BY <1>1, <1>2, <1>3, <2>1 DEF TypeOK
    <2>3. pos + 1 \in 1 .. size - 1
        BY <1>1, <2>1 DEF TypeOK
    <2> QED
        BY <1>1, <1>2, <2>1, <2>2, <2>3 DEF Types
<1>6. CASE ScanUsed \/ ScanClash
    BY <1>1, <1>6, TypesScan DEF Types
<1>7. CASE Place
    BY <1>1, <1>7, TypesPlace DEF Types
<1>8. ASSUME NEW c \in Nat, NEW v \in Int, SetBase(c, v),
             UNCHANGED <<check, used, size, next_check_pos, non_zero_num, pos, first, resized>>,
             progress' \in Nat
      PROVE  Types'
    <2>1. DOMAIN base' = DOMAIN base \cup {c} /\ \A d \in DOMAIN base' : base'[d] = IF d = c THEN v ELSE base[d]
        BY <1>8 DEF SetBase
    <2>2. DOMAIN base' \subseteq Nat /\ \A d \in DOMAIN base' : base'[d] \in Int
        BY <1>1, <1>8, <2>1 DEF TypeOK
    <2>3. TypeOK'
        BY <1>1, <1>2, <1>3, <1>8, <2>2 DEF TypeOK
    <2> QED
        BY <1>1, <1>2, <1>8, <2>3 DEF Types
<1>9. CASE FillLeaf
    <2>1. Top \in Call_ /\ Top.at \in 1 .. Len(Top.siblings)
        BY <1>1, <1>9, CallsLeaf, TopCall
    <2>2. Top.siblings[Top.at] \in Node /\ Top.begin \in Nat
        BY <2>1 DEF Call_
    <2>3. Cell(Top, Top.at) \in Nat /\ - Top.siblings[Top.at].left - 1 \in Int
        BY <2>2 DEF Cell, Node
    <2>4. /\ SetBase(Cell(Top, Top.at), - Top.siblings[Top.at].left - 1)
          /\ UNCHANGED <<check, used, size, next_check_pos, non_zero_num, pos, first, resized>>
          /\ progress' = progress + 1
        BY <1>9 DEF FillLeaf
    <2> QED
        BY <1>2, <1>8, <2>3, <2>4
<1>10. CASE FillDeeper
    <2>1. /\ UNCHANGED <<base, check, used, size, next_check_pos, progress, resized>>
          /\ first' = FALSE /\ non_zero_num' = 0 /\ pc' = "scan"
        BY <1>10 DEF FillDeeper, Call, arrays
    <2>2. TypeOK'
        <3>1. {first', resized'} \subseteq BOOLEAN
            BY <1>1, <2>1 DEF TypeOK
        <3>2. {size', next_check_pos', non_zero_num', progress', pos'} \subseteq Nat
            BY <1>2, <1>3, <2>1
        <3> QED
            BY <1>1, <1>3, <2>1, <3>1, <3>2 DEF TypeOK
    <2> DEFINE kid == Top.siblings[Top.at]
               s == FetchSiblings(kid)
               code == s[1].code
    <2>3. code \in Nat /\ code <= MaxCode
        <3>1. Children(dicts, kid, Frame(s, 0, 1).siblings)
            BY <1>1, <1>10, CallsDeeper DEF FetchSiblings
        <3>2. Children(dicts, kid, s)
            BY <3>1 DEF Frame
        <3>3. Len(s) \in Nat /\ Len(s) > 0
            <4>1. s \in Seq(Node) /\ s # <<>>
                BY <3>2 DEF Children
            <4> QED
                BY <4>1
        <3>4. kid \in Node
            <4>1. Top \in Call_ /\ CallOK(Len(stack)) /\ Top = stack[Len(stack)]
                BY <1>1, <1>10, TopCall DEF FillDeeper, Top
            <4>2. Top.at \in 1 .. Len(Top.siblings)
                BY <1>10, <4>1 DEF FillDeeper, CallOK, Call_
            <4> QED
                BY <1>1, <1>10, <4>2, TopCall DEF FillDeeper
        <3> HIDE DEF s, kid
        <3> QED
            BY <1>1, <3>2, <3>3, <3>4, ChildCodes DEF Calls
    <2>4. pos' = (IF code + 1 > next_check_pos THEN code + 1 ELSE next_check_pos) - 1
        BY <1>10 DEF FillDeeper, Call
    <2> HIDE DEF code
    <2>5. pos' + 1 <= size
        BY <1>2, <2>3, <2>4 DEF MaxCode, Room
    <2> QED
        BY <1>1, <1>2, <2>1, <2>2, <2>5 DEF Types
<1>11. CASE Return
    <2>1. /\ UNCHANGED <<check, used, size, next_check_pos, non_zero_num, pos, first, resized, progress>>
          /\ pc = "fill"
        BY <1>11 DEF Return
    <2>2. Top \in Call_ /\ Top.begin \in Int /\ stack \in Seq(Call_) /\ Len(stack) \in Nat /\ Len(stack) > 0
        BY <1>1, <2>1, TopCall DEF Call_, Calls
    <2>3. \A n \in Nat : n > 0 => n = 1 \/ n > 1
        OBVIOUS
    <2>4. CASE Len(stack) = 1
        <3>1. SubSeq(stack, 1, Len(stack) - 1) = <<>>
            BY <2>2, <2>4, WithoutLast
        <3>2. SetBase(0, Top.begin)
            BY <1>11, <3>1 DEF Return
        <3> QED
            BY <1>2, <1>8, <2>1, <2>2, <3>2
    <2>5. CASE Len(stack) > 1
        <3> DEFINE caller == stack[Len(stack) - 1]
        <3>1. /\ caller \in Call_ /\ caller.at \in 1 .. Len(caller.siblings)
              /\ base' = [d \in DOMAIN base \cup {Cell(caller, caller.at)} |->
                             IF d = Cell(caller, caller.at) THEN Top.begin ELSE base[d]]
            BY <1>1, <1>11, <2>5, CallsReturn
        <3> HIDE DEF caller
        <3>2. Cell(caller, caller.at) \in Nat
            <4>1. caller.begin \in Nat /\ caller.siblings \in Seq(Node)
                BY <3>1 DEF Call_
            <4>2. caller.siblings[caller.at] \in Node
                BY <3>1, <4>1
            <4>3. caller.siblings[caller.at].code \in Nat
                BY <4>2 DEF Node
            <4> QED
                BY <4>1, <4>3 DEF Cell
        <3>3. SetBase(Cell(caller, caller.at), Top.begin)
            BY <3>1, Zenon DEF SetBase
        <3> QED
            BY <1>2, <1>8, <2>1, <2>2, <3>2, <3>3
    <2> QED
        BY <2>2, <2>3, <2>4, <2>5, Zenon
<1> QED
    BY <1>4, <1>5, <1>6, <1>7, <1>8, <1>9, <1>10, <1>11 DEF Next, Build

(* For files of sorted terms and arrays as large as the code's: every cell *)
(* that is taken, and every begin, lies inside what is allocated, whatever *)
(* resizes happen on the way (dat.h 235-290).                              *)
THEOREM TypeOKCorrect ==
    ASSUME FilesSorted, RoomEnough
    PROVE  Spec => []TypeOK
<1>1. Init => Types
    BY TypesInit
<1>2. Types /\ [Next]_vars => Types'
    BY TypesNext
<1>3. Types => TypeOK
    BY DEF Types
<1> QED
    BY <1>1, <1>2, <1>3, PTL DEF Spec
=============================================================================
