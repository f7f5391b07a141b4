-------------------------- MODULE HttpParser_proof --------------------------
(***************************************************************************)
(* What the functions on strings compute, for every string: induction and  *)
(* recursion over data, which everything here rests on, are derived first  *)
(* from the least-number principle for sets (WFMin), which unlike the      *)
(* library's induction theorems takes no operator as a parameter.          *)
(***************************************************************************)
EXTENDS HttpParser, WellFoundedInduction, SequenceTheorems, TLAPS

(* Induction over the natural numbers, for a set instead of a predicate.   *)
LEMMA Induction ==
    ASSUME NEW T, 0 \in T, \A n \in Nat : n \in T => n + 1 \in T
    PROVE  Nat \subseteq T
<1>1. SUFFICES ASSUME Nat \ T # {} PROVE FALSE
    OBVIOUS
<1>2. PICK n \in Nat \ T : \A m \in Nat \ T : ~ (<<m, n>> \in OpToRel(<, Nat))
    <2> HIDE DEF OpToRel
    <2> QED
        BY <1>1, NatLessThanWellFounded, WFMin
<1>3. \A m \in Nat \ T : ~ (m < n)
    BY <1>2 DEF OpToRel
<1>4. n # 0 /\ n - 1 \in Nat /\ n - 1 \in T
    BY <1>3
<1> QED
    BY <1>4

(* A recursive definition has a solution when there is a bounded measure   *)
(* that descends: Step[x][f], the right-hand side at x, looks at f only    *)
(* where the measure is less than that of x.                               *)
Descends(Dom, S, measure, Step) ==
    \A x \in Dom : \A g, h \in [Dom -> S] :
        (\A y \in Dom : measure[y] < measure[x] => g[y] = h[y])
            => Step[x][g] = Step[x][h]

Solvable(Dom, S, Step) == \E f \in [Dom -> S] : \A x \in Dom : f[x] = Step[x][f]

LEMMA Recursion ==
    ASSUME NEW Dom, NEW bound \in Nat, NEW measure \in [Dom -> 0 .. bound],
           NEW S, S # {}, NEW Step \in [Dom -> [[Dom -> S] -> S]],
           Descends(Dom, S, measure, Step)
    PROVE  Solvable(Dom, S, Step)
<1> DEFINE Solves(f, k) == \A x \in Dom : measure[x] < k => f[x] = Step[x][f]
           T == {k \in Nat : \E f \in [Dom -> S] : Solves(f, k)}
<1>1. 0 \in T
    <2>1. PICK e : e \in S
        OBVIOUS
    <2>2. [x \in Dom |-> e] \in [Dom -> S]
        BY <2>1
    <2>3. \A x \in Dom : ~ (measure[x] < 0)
        OBVIOUS
    <2> QED
        BY <2>2, <2>3
<1>2. ASSUME NEW k \in Nat, k \in T PROVE k + 1 \in T
    <2>1. PICK f \in [Dom -> S] : Solves(f, k)
        BY <1>2
    <2> DEFINE h == [x \in Dom |-> IF measure[x] = k THEN Step[x][f] ELSE f[x]]
    <2>2. h \in [Dom -> S]
        BY <2>1
    <2>3. \A x \in Dom : measure[x] # k => h[x] = f[x]
        OBVIOUS
    <2>4. \A x \in Dom : measure[x] = k => h[x] = Step[x][f]
        OBVIOUS
    <2> HIDE DEF h
    <2>5. ASSUME NEW x \in Dom, measure[x] < k + 1 PROVE h[x] = Step[x][h]
        <3>1. measure[x] = k \/ measure[x] < k
            <4>1. measure[x] \in Int /\ k \in Int
                OBVIOUS
            <4>2. \A m, n \in Int : m < n + 1 => m = n \/ m < n
                OBVIOUS
            <4> QED
                BY <2>5, <4>1, <4>2, Zenon
        <3>2. \A y \in Dom : measure[y] < measure[x] => f[y] = h[y]
            BY <2>3, <3>1
        <3>3. Step[x][f] = Step[x][h]
            BY <2>1, <2>2, <3>2 DEF Descends
        <3>4. CASE measure[x] = k
            BY <2>4, <3>3, <3>4
        <3>5. CASE measure[x] < k
            BY <2>1, <2>3, <3>3, <3>5
        <3> QED
            BY <3>1, <3>4, <3>5
    <2> QED
        BY <2>2, <2>5
<1>3. bound + 1 \in T
    <2> HIDE DEF T
    <2> QED
        BY <1>1, <1>2, Induction
<1> QED
    BY <1>3 DEF Solvable

(* A loop whose turns step[1], step[2], ... begin with start.              *)
Loops(f, n, start, step) == f = [i \in 0 .. n |-> IF i = 0 THEN start ELSE step[i][f[i - 1]]]

LEMMA Loop ==
    ASSUME NEW S, NEW start \in S, NEW n \in Nat, NEW step \in [1 .. n -> [S -> S]]
    PROVE  \E f \in [0 .. n -> S] : Loops(f, n, start, step)
<1> DEFINE Dom == 0 .. n
           measure == [i \in Dom |-> i]
           Step == [i \in Dom |-> [g \in [Dom -> S] |-> IF i = 0 THEN start ELSE step[i][g[i - 1]]]]
<1>1. measure \in [Dom -> 0 .. n]
    OBVIOUS
<1>2. Step \in [Dom -> [[Dom -> S] -> S]]
    <2>1. ASSUME NEW i \in Dom, NEW g \in [Dom -> S], i # 0 PROVE step[i][g[i - 1]] \in S
        <3>1. i \in 1 .. n /\ g[i - 1] \in S
            BY <2>1
        <3> QED
            BY <3>1
    <2> QED
        BY <2>1
<1>3. Descends(Dom, S, measure, Step)
    <2> SUFFICES ASSUME NEW x \in Dom, NEW g \in [Dom -> S], NEW h \in [Dom -> S],
                        \A y \in Dom : measure[y] < measure[x] => g[y] = h[y]
                 PROVE  Step[x][g] = Step[x][h]
        BY DEF Descends
    <2>1. x # 0 => g[x - 1] = h[x - 1]
        OBVIOUS
    <2> QED
        BY <2>1
<1>4. Solvable(Dom, S, Step)
    <2> HIDE DEF Dom, measure, Step
    <2> QED
        BY <1>1, <1>2, <1>3, Recursion
<1>5. PICK f \in [Dom -> S] : \A i \in Dom : f[i] = Step[i][f]
    BY <1>4 DEF Solvable
<1>6. f = [i \in 0 .. n |-> IF i = 0 THEN start ELSE step[i][f[i - 1]]]
    BY <1>5
<1> QED
    BY <1>6 DEF Loops

-----------------------------------------------------------------------------
(* A sequence of bytes is a string.                                        *)
Byte == 0 .. 255

(* The loop of split_ch_words for s, as in SplitChWords.                   *)
SplitFrom(s, g, i) ==
    LET Continues(j) == j <= Len(s) /\ s[j] \in 128 .. 191
    IN  IF i > Len(s) THEN <<>>
        ELSE IF s[i] \in 224 .. 239
             THEN IF Continues(i + 1) /\ Continues(i + 2)
                  THEN <<SubSeq(s, i, i + 2)>> \o g[i + 3]
                  ELSE g[i + 1]
             ELSE IF s[i] = Space THEN g[i + 1]
             ELSE << <<s[i]>> >> \o g[i + 1]

LEMMA SplitStep ==
    ASSUME NEW s \in Seq(Byte), NEW i \in 1 .. Len(s) + 1,
           NEW g \in [1 .. Len(s) + 1 -> Seq(Seq(Byte))]
    PROVE  SplitFrom(s, g, i) \in Seq(Seq(Byte))
<1>1. Len(s) \in Nat /\ \A j \in 1 .. Len(s) : s[j] \in Byte
    OBVIOUS
<1>2. ASSUME NEW j \in 1 .. Len(s) + 1 PROVE g[j] \in Seq(Seq(Byte))
    BY <1>2
<1>3. ASSUME i + 2 <= Len(s) PROVE <<SubSeq(s, i, i + 2)>> \o g[i + 3] \in Seq(Seq(Byte))
    <2>1. SubSeq(s, i, i + 2) \in Seq(Byte)
        BY <1>1, <1>3, SubSeqProperties
    <2>2. g[i + 3] \in Seq(Seq(Byte))
        BY <1>1, <1>2, <1>3
    <2> QED
        BY <2>1, <2>2, ConcatProperties
<1>4. ASSUME i <= Len(s) PROVE << <<s[i]>> >> \o g[i + 1] \in Seq(Seq(Byte))
    <2>1. <<s[i]>> \in Seq(Byte)
        BY <1>1, <1>4
    <2>2. g[i + 1] \in Seq(Seq(Byte))
        BY <1>1, <1>2, <1>4
    <2> QED
        BY <2>1, <2>2, ConcatProperties
<1> QED
    BY <1>1, <1>2, <1>3, <1>4 DEF SplitFrom

(* The loop goes on behind i only.                                         *)
LEMMA SplitLooksAhead ==
    ASSUME NEW s \in Seq(Byte), NEW i \in 1 .. Len(s) + 1, NEW g, NEW h,
           \A j \in 1 .. Len(s) + 1 : j > i => g[j] = h[j]
    PROVE  SplitFrom(s, g, i) = SplitFrom(s, h, i)
<1>1. CASE i > Len(s)
    BY <1>1 DEF SplitFrom
<1>2. CASE i <= Len(s)
    <2>1. g[i + 1] = h[i + 1] /\ (i + 2 <= Len(s) => g[i + 3] = h[i + 3])
        BY <1>2
    <2> QED
        BY <1>2, <2>1 DEF SplitFrom
<1> QED
    BY <1>1, <1>2

LEMMA SplitChWordsLoop ==
    ASSUME NEW s \in Seq(Byte)
    PROVE  \E from \in [1 .. Len(s) + 1 -> Seq(Seq(Byte))] :
              /\ SplitChWords(s) = from[1]
              /\ \A i \in 1 .. Len(s) + 1 : from[i] = SplitFrom(s, from, i)
<1> DEFINE Dom == 1 .. Len(s) + 1
           S == Seq(Seq(Byte))
           bound == Len(s) + 1
           measure == [i \in Dom |-> Len(s) + 1 - i]
           Step == [i \in Dom |-> [g \in [Dom -> S] |-> SplitFrom(s, g, i)]]
           from[i \in Dom] == SplitFrom(s, from, i)
<1>1. SplitChWords(s) = from[1]
    BY DEF SplitChWords, SplitFrom
<1>2. Len(s) \in Nat
    OBVIOUS
<1>3. Solvable(Dom, S, Step)
    <2>1. measure \in [Dom -> 0 .. bound]
        BY <1>2
    <2>2. Step \in [Dom -> [[Dom -> S] -> S]]
        BY SplitStep
    <2>3. Descends(Dom, S, measure, Step)
        <3> SUFFICES ASSUME NEW x \in Dom, NEW g \in [Dom -> S], NEW h \in [Dom -> S],
                            \A y \in Dom : measure[y] < measure[x] => g[y] = h[y]
                     PROVE  SplitFrom(s, g, x) = SplitFrom(s, h, x)
            BY DEF Descends
        <3>1. \A y \in Dom : y > x => g[y] = h[y]
            BY <1>2
        <3> QED
            BY <3>1, SplitLooksAhead
    <2>4. S # {}
        <3>1. <<>> \in S
            OBVIOUS
        <3> QED
            BY <3>1
    <2>5. bound \in Nat
        BY <1>2
    <2> HIDE DEF Dom, S, measure, Step, bound
    <2> QED
        BY <2>1, <2>2, <2>3, <2>4, <2>5, Recursion
<1>4. \E f : f = [i \in Dom |-> SplitFrom(s, f, i)]
    <2>1. PICK f \in [Dom -> S] : \A i \in Dom : f[i] = Step[i][f]
        BY <1>3 DEF Solvable
    <2>2. f = [i \in Dom |-> SplitFrom(s, f, i)]
        BY <2>1
    <2> QED
        BY <2>2
<1>5. from = [i \in Dom |-> SplitFrom(s, from, i)]
    BY <1>4
<1> HIDE DEF from
<1> DEFINE T == {k \in Nat : \A i \in Dom : Len(s) + 1 - i < k => from[i] \in S}
<1>6. ASSUME NEW k \in Nat, k \in T PROVE k + 1 \in T
    <2> SUFFICES ASSUME NEW i \in Dom, Len(s) + 1 - i < k + 1 PROVE from[i] \in S
        BY <1>2
    <2> DEFINE h == [j \in Dom |-> IF j > i THEN from[j] ELSE <<>>]
    <2>1. h \in [Dom -> S]
        BY <1>2, <1>6
    <2>2. SplitFrom(s, from, i) = SplitFrom(s, h, i)
        <3>1. \A j \in Dom : j > i => from[j] = h[j]
            OBVIOUS
        <3> HIDE DEF h
        <3> QED
            BY <3>1, SplitLooksAhead
    <2> HIDE DEF h
    <2>3. SplitFrom(s, h, i) \in S
        BY <2>1, SplitStep
    <2> QED
        BY <1>5, <2>2, <2>3
<1>7. Len(s) + 2 \in T
    <2>1. 0 \in T
        BY <1>2
    <2> HIDE DEF T
    <2> QED
        BY <1>2, <1>6, <2>1, Induction
<1>8. from \in [Dom -> S]
    BY <1>2, <1>5, <1>7
<1> QED
    BY <1>1, <1>5, <1>8

-----------------------------------------------------------------------------
(* The loop of FlattenSeq.                                                 *)
Flattens(seqs, f) ==
    /\ FlattenSeq(seqs) = f[Len(seqs)]
    /\ f[1] = seqs[1]
    /\ \A i, j \in 1 .. Len(seqs) : i = j + 1 => f[i] = f[j] \o seqs[i]

FlattensInto(seqs, T) == \E f \in [1 .. Len(seqs) -> T] : Flattens(seqs, f)

(* A position is the first or behind another.                              *)
LEMMA Previous ==
    ASSUME NEW n \in Nat, NEW i \in 1 .. n, i # 1
    PROVE  \E j \in 1 .. n : i = j + 1
<1>1. i - 1 \in 1 .. n /\ i = i - 1 + 1
    OBVIOUS
<1> QED
    BY <1>1

LEMMA FlattenLoop ==
    ASSUME NEW S, NEW seqs \in Seq(Seq(S)), seqs # <<>>
    PROVE  FlattensInto(seqs, Seq(S))
<1> DEFINE Dom == 1 .. Len(seqs)
           T == Seq(S)
           bound == Len(seqs)
           measure == [i \in Dom |-> i]
           Turn(f, i) == IF i = 1 THEN seqs[i] ELSE f[i - 1] \o seqs[i]
           Step == [i \in Dom |-> [g \in [Dom -> T] |-> Turn(g, i)]]
           flatten[i \in Dom] == Turn(flatten, i)
<1>1. Len(seqs) \in Nat /\ Len(seqs) # 0 /\ \A i \in Dom : seqs[i] \in T
    OBVIOUS
<1>2. FlattenSeq(seqs) = flatten[Len(seqs)]
    BY <1>1 DEF FlattenSeq
<1>3. ASSUME NEW i \in Dom, i # 1 PROVE i - 1 \in Dom /\ i - 1 < i
    BY <1>1, <1>3
<1>4. ASSUME NEW i \in Dom, NEW g \in [Dom -> T] PROVE Turn(g, i) \in T
    <2>1. CASE i = 1
        BY <1>1, <2>1
    <2>2. CASE i # 1
        <3>1. g[i - 1] \in T /\ seqs[i] \in T
            <4>1. i - 1 \in Dom
                BY <1>3, <2>2
            <4> HIDE DEF T, Dom
            <4> QED
                BY <1>1, <4>1
        <3>2. g[i - 1] \o seqs[i] \in T
            BY <3>1, ConcatProperties
        <3> QED
            BY <2>2, <3>2
    <2> QED
        BY <2>1, <2>2
<1>5. Solvable(Dom, T, Step)
    <2>1. measure \in [Dom -> 0 .. bound]
        BY <1>1
    <2>2. Step \in [Dom -> [[Dom -> T] -> T]]
        BY <1>4
    <2>3. Descends(Dom, T, measure, Step)
        <3> SUFFICES ASSUME NEW x \in Dom, NEW g \in [Dom -> T], NEW h \in [Dom -> T],
                            \A y \in Dom : measure[y] < measure[x] => g[y] = h[y]
                     PROVE  Turn(g, x) = Turn(h, x)
            BY DEF Descends
        <3>1. x # 1 => g[x - 1] = h[x - 1]
            BY <1>3
        <3> QED
            BY <3>1
    <2>4. T # {}
        <3>1. <<>> \in T
            OBVIOUS
        <3> QED
            BY <3>1
    <2>5. bound \in Nat
        BY <1>1
    <2> HIDE DEF Dom, T, measure, Step, bound
    <2> QED
        BY <2>1, <2>2, <2>3, <2>4, <2>5, Recursion
<1>6. PICK f \in [Dom -> T] : \A i \in Dom : f[i] = Step[i][f]
    BY <1>5 DEF Solvable
<1>7. f = [i \in Dom |-> Turn(f, i)]
    BY <1>6
<1>8. flatten = [i \in Dom |-> Turn(flatten, i)]
    BY <1>7
<1> HIDE DEF flatten
<1>9. flatten[1] = seqs[1]
    BY <1>1, <1>8
<1>10. ASSUME NEW i \in Dom, NEW j \in Dom, i = j + 1 PROVE flatten[i] = flatten[j] \o seqs[i]
    <2>1. i # 1 /\ i - 1 = j
        BY <1>1, <1>10
    <2>2. flatten[i] = Turn(flatten, i)
        BY <1>8
    <2> QED
        BY <2>1, <2>2
<1> DEFINE Q == {k \in Nat : \A i \in Dom : i <= k => flatten[i] \in T}
<1>11. ASSUME NEW k \in Nat, k \in Q PROVE k + 1 \in Q
    <2> SUFFICES ASSUME NEW i \in Dom, i <= k + 1 PROVE flatten[i] \in T
        OBVIOUS
    <2>1. CASE i = 1
        BY <1>1, <1>9, <2>1
    <2>2. CASE i # 1
        <3>1. PICK j \in Dom : i = j + 1
            BY <1>1, <2>2, Previous
        <3>2. flatten[j] \in T /\ seqs[i] \in T
            BY <1>1, <1>11, <3>1
        <3>3. flatten[i] = flatten[j] \o seqs[i]
            BY <1>10, <3>1
        <3> QED
            BY <3>2, <3>3, ConcatProperties
    <2> QED
        BY <2>1, <2>2
<1>12. Len(seqs) \in Q
    <2>1. 0 \in Q
        BY <1>1
    <2> HIDE DEF Q
    <2> QED
        BY <1>1, <1>11, <2>1, Induction
<1>13. flatten \in [Dom -> T]
    BY <1>1, <1>8, <1>12
<1>14. Flattens(seqs, flatten)
    BY <1>2, <1>9, <1>10 DEF Flattens
<1> QED
    BY <1>13, <1>14 DEF FlattensInto

LEMMA FlattenEmpty == FlattenSeq(<<>>) = <<>>
    BY DEF FlattenSeq

LEMMA FlattenType ==
    ASSUME NEW S, NEW seqs \in Seq(Seq(S))
    PROVE  FlattenSeq(seqs) \in Seq(S)
<1>1. CASE seqs = <<>>
    <2>1. <<>> \in Seq(S)
        OBVIOUS
    <2> QED
        BY <1>1, <2>1, FlattenEmpty
<1>2. CASE seqs # <<>>
    <2>1. FlattensInto(seqs, Seq(S))
        BY <1>2, FlattenLoop
    <2>2. PICK f \in [1 .. Len(seqs) -> Seq(S)] : Flattens(seqs, f)
        BY <2>1 DEF FlattensInto
    <2>3. Len(seqs) \in 1 .. Len(seqs)
        BY <1>2
    <2> QED
        BY <2>2, <2>3 DEF Flattens
<1> QED
    BY <1>1, <1>2

LEMMA FlattenAppend ==
    ASSUME NEW S, NEW seqs \in Seq(Seq(S)), NEW e \in Seq(S)
    PROVE  FlattenSeq(Append(seqs, e)) = FlattenSeq(seqs) \o e
<1> DEFINE T == Seq(S)
           more == Append(seqs, e)
           n == Len(seqs)
<1>1. n \in Nat /\ more \in Seq(T)
    OBVIOUS
<1>2. Len(more) = n + 1 /\ more # <<>> /\ more[n + 1] = e /\ \A i \in 1 .. n : more[i] = seqs[i]
    <2>1. seqs \in Seq(T) /\ e \in T
        OBVIOUS
    <2> HIDE DEF T
    <2>2. Len(more) = n + 1 /\ more # <<>> /\ more[n + 1] = e
        BY <2>1, AppendProperties
    <2>3. \A i \in 1 .. n : more[i] = seqs[i]
        BY <2>1, AppendProperties
    <2> QED
        BY <2>2, <2>3
<1>3. FlattensInto(more, T)
    <2> HIDE DEF more
    <2> QED
        BY <1>1, <1>2, FlattenLoop
<1>4. PICK g \in [1 .. n + 1 -> T] : Flattens(more, g)
    BY <1>2, <1>3 DEF FlattensInto
<1> HIDE DEF more
<1>5. CASE seqs = <<>>
    <2>1. n = 0
        BY <1>5
    <2>2. FlattenSeq(more) = e
        BY <1>2, <1>4, <2>1 DEF Flattens
    <2> QED
        BY <1>5, <2>2, FlattenEmpty DEF more
<1>6. CASE seqs # <<>>
    <2>1. FlattensInto(seqs, T)
        BY <1>6, FlattenLoop
    <2>2. PICK f \in [1 .. n -> T] : Flattens(seqs, f)
        BY <2>1 DEF FlattensInto
    <2>3. n # 0
        BY <1>6
    <2> HIDE DEF n
    <2> DEFINE Q == {k \in Nat : \A i \in 1 .. n : i <= k => g[i] = f[i]}
    <2>4. f[1] = seqs[1] /\ g[1] = more[1]
        BY <1>4, <2>2 DEF Flattens
    <2>5. ASSUME NEW i \in 1 .. n, NEW j \in 1 .. n, i = j + 1
          PROVE  f[i] = f[j] \o seqs[i]
        BY <2>2, <2>5 DEF Flattens, n
    <2>6. ASSUME NEW i \in 1 .. n + 1, NEW j \in 1 .. n + 1, i = j + 1
          PROVE  g[i] = g[j] \o more[i]
        BY <1>2, <1>4, <2>6 DEF Flattens
    <2>7. ASSUME NEW k \in Nat, k \in Q PROVE k + 1 \in Q
        <3> SUFFICES ASSUME NEW i \in 1 .. n, i <= k + 1 PROVE g[i] = f[i]
            OBVIOUS
        <3>1. CASE i = 1
            BY <1>2, <2>4, <3>1
        <3>2. CASE i # 1
            <4>1. PICK j \in 1 .. n : i = j + 1
                BY <1>1, <3>2, Previous
            <4>2. g[j] = f[j]
                BY <1>1, <2>7, <4>1
            <4>3. f[i] = f[j] \o seqs[i]
                BY <2>5, <4>1
            <4>4. g[i] = g[j] \o more[i]
                <5>1. i \in 1 .. n + 1 /\ j \in 1 .. n + 1
                    BY <1>1
                <5> QED
                    BY <2>6, <4>1, <5>1
            <4> QED
                BY <1>2, <4>2, <4>3, <4>4
        <3> QED
            BY <3>1, <3>2
    <2>8. n \in Q
        <3>1. 0 \in Q
            BY <1>1
        <3> HIDE DEF Q
        <3> QED
            BY <1>1, <2>7, <3>1, Induction
    <2>9. n \in 1 .. n
        BY <1>1, <2>3
    <2>10. g[n] = f[n]
        BY <1>1, <2>8, <2>9
    <2>11. FlattenSeq(more) = g[n] \o e
        <3>1. n \in 1 .. n + 1 /\ n + 1 \in 1 .. n + 1
            BY <1>1, <2>9
        <3>2. g[n + 1] = g[n] \o more[n + 1]
            BY <2>6, <3>1
        <3> QED
            BY <1>2, <1>4, <3>2 DEF Flattens
    <2>12. FlattenSeq(seqs) = f[n]
        BY <2>2 DEF Flattens, n
    <2> QED
        BY <2>10, <2>11, <2>12 DEF more
<1> QED
    BY <1>5, <1>6

-----------------------------------------------------------------------------
(* The loop of decode for e, as in Decode.                                 *)
CharAt(e, i) == IF i <= Len(e) THEN e[i] ELSE 0

Decoded(e, i) == (HexChar2Dec(CharAt(e, i + 1)) * 16 + HexChar2Dec(CharAt(e, i + 2))) % 256

DecodeFrom(e, g, i) ==
    IF i > Len(e) THEN <<>>
    ELSE IF e[i] # Percent THEN <<e[i]>> \o g[i + 1]
    ELSE <<Decoded(e, i)>> \o g[i + 3]

LEMMA DecodedIsByte ==
    ASSUME NEW e \in Seq(Byte), NEW i \in 1 .. Len(e)
    PROVE  Decoded(e, i) \in Byte
<1>1. ASSUME NEW j \in Nat \ {0} PROVE CharAt(e, j) \in Int
    <2>1. CASE j <= Len(e)
        <3>1. e[j] \in Byte
            BY <2>1
        <3>2. \A b \in Byte : b \in Int
            BY DEF Byte
        <3>3. CharAt(e, j) = e[j]
            BY <2>1 DEF CharAt
        <3> QED
            BY <3>1, <3>2, <3>3
    <2>2. CASE ~ (j <= Len(e))
        BY <2>2 DEF CharAt
    <2> QED
        BY <2>1, <2>2
<1>2. ASSUME NEW c \in Int PROVE HexChar2Dec(c) \in Int
    BY DEF HexChar2Dec
<1>3. i + 1 \in Nat \ {0} /\ i + 2 \in Nat \ {0}
    OBVIOUS
<1>4. HexChar2Dec(CharAt(e, i + 1)) \in Int /\ HexChar2Dec(CharAt(e, i + 2)) \in Int
    BY <1>1, <1>2, <1>3
<1>5. \A m, n \in Int : (m * 16 + n) % 256 \in 0 .. 255
    OBVIOUS
<1> QED
    BY <1>4, <1>5 DEF Decoded, Byte

LEMMA DecodeStep ==
    ASSUME NEW e \in Seq(Byte), NEW i \in 1 .. Len(e) + 3,
           NEW g \in [1 .. Len(e) + 3 -> Seq(Byte)]
    PROVE  DecodeFrom(e, g, i) \in Seq(Byte)
<1>1. CASE i > Len(e)
    <2>1. <<>> \in Seq(Byte)
        OBVIOUS
    <2> QED
        BY <1>1, <2>1 DEF DecodeFrom
<1>2. CASE i <= Len(e)
    <2>1. g[i + 1] \in Seq(Byte) /\ g[i + 3] \in Seq(Byte)
        <3>1. i + 1 \in 1 .. Len(e) + 3 /\ i + 3 \in 1 .. Len(e) + 3
            BY <1>2
        <3> QED
            BY <3>1
    <2>2. <<e[i]>> \in Seq(Byte)
        <3>1. e[i] \in Byte
            BY <1>2
        <3> QED
            BY <3>1
    <2>3. <<Decoded(e, i)>> \in Seq(Byte)
        <3>1. Decoded(e, i) \in Byte
            BY <1>2, DecodedIsByte
        <3> QED
            BY <3>1
    <2>4. <<e[i]>> \o g[i + 1] \in Seq(Byte) /\ <<Decoded(e, i)>> \o g[i + 3] \in Seq(Byte)
        BY <2>1, <2>2, <2>3, ConcatProperties
    <2> QED
        BY <1>2, <2>4 DEF DecodeFrom
<1>3. Len(e) \in Nat
    OBVIOUS
<1> QED
    BY <1>1, <1>2, <1>3

LEMMA DecodeLooksAhead ==
    ASSUME NEW e \in Seq(Byte), NEW i \in 1 .. Len(e) + 3, NEW g, NEW h,
           \A j \in 1 .. Len(e) + 3 : j > i => g[j] = h[j]
    PROVE  DecodeFrom(e, g, i) = DecodeFrom(e, h, i)
<1>1. CASE i > Len(e)
    BY <1>1 DEF DecodeFrom
<1>2. CASE i <= Len(e)
    <2>1. g[i + 1] = h[i + 1] /\ g[i + 3] = h[i + 3]
        BY <1>2
    <2> QED
        BY <1>2, <2>1 DEF DecodeFrom
<1> QED
    BY <1>1, <1>2


LEMMA DecodeLoop ==
    ASSUME NEW e \in Seq(Byte)
    PROVE  \E from \in [1 .. Len(e) + 3 -> Seq(Byte)] :
              /\ Decode(e) = from[1]
              /\ \A i \in 1 .. Len(e) + 3 : from[i] = DecodeFrom(e, from, i)
<1> DEFINE Dom == 1 .. Len(e) + 3
           S == Seq(Byte)
           bound == Len(e) + 3
           measure == [i \in Dom |-> Len(e) + 3 - i]
           Step == [i \in Dom |-> [g \in [Dom -> S] |-> DecodeFrom(e, g, i)]]
           from[i \in Dom] == DecodeFrom(e, from, i)
<1>1. Decode(e) = from[1]
    BY DEF Decode, DecodeFrom, Decoded, CharAt
<1>2. Len(e) \in Nat
    OBVIOUS
<1>3. Solvable(Dom, S, Step)
    <2>1. measure \in [Dom -> 0 .. bound]
        BY <1>2
    <2>2. Step \in [Dom -> [[Dom -> S] -> S]]
        BY DecodeStep
    <2>3. Descends(Dom, S, measure, Step)
        <3> SUFFICES ASSUME NEW x \in Dom, NEW g \in [Dom -> S], NEW h \in [Dom -> S],
                            \A y \in Dom : measure[y] < measure[x] => g[y] = h[y]
                     PROVE  DecodeFrom(e, g, x) = DecodeFrom(e, h, x)
            BY DEF Descends
        <3>1. \A y \in Dom : y > x => g[y] = h[y]
            BY <1>2
        <3> QED
            BY <3>1, DecodeLooksAhead
    <2>4. S # {}
        <3>1. <<>> \in S
            OBVIOUS
        <3> QED
            BY <3>1
    <2>5. bound \in Nat
        BY <1>2
    <2> HIDE DEF Dom, S, measure, Step, bound
    <2> QED
        BY <2>1, <2>2, <2>3, <2>4, <2>5, Recursion
<1>4. \E f : f = [i \in Dom |-> DecodeFrom(e, f, i)]
    <2>1. PICK f \in [Dom -> S] : \A i \in Dom : f[i] = Step[i][f]
        BY <1>3 DEF Solvable
    <2>2. f = [i \in Dom |-> DecodeFrom(e, f, i)]
        BY <2>1
    <2> QED
        BY <2>2
<1>5. from = [i \in Dom |-> DecodeFrom(e, from, i)]
    BY <1>4
<1> HIDE DEF from
<1> DEFINE T == {k \in Nat : \A i \in Dom : Len(e) + 3 - i < k => from[i] \in S}
<1>6. ASSUME NEW k \in Nat, k \in T PROVE k + 1 \in T
    <2> SUFFICES ASSUME NEW i \in Dom, Len(e) + 3 - i < k + 1 PROVE from[i] \in S
        BY <1>2
    <2> DEFINE h == [j \in Dom |-> IF j > i THEN from[j] ELSE <<>>]
    <2>1. h \in [Dom -> S]
        BY <1>2, <1>6
    <2>2. DecodeFrom(e, from, i) = DecodeFrom(e, h, i)
        <3>1. \A j \in Dom : j > i => from[j] = h[j]
            OBVIOUS
        <3> HIDE DEF h
        <3> QED
            BY <3>1, DecodeLooksAhead
    <2> HIDE DEF h
    <2>3. DecodeFrom(e, h, i) \in S
        BY <2>1, DecodeStep
    <2> QED
        BY <1>5, <2>2, <2>3
<1>7. Len(e) + 4 \in T
    <2>1. 0 \in T
        BY <1>2
    <2> HIDE DEF T
    <2> QED
        BY <1>2, <1>6, <2>1, Induction
<1>8. from \in [Dom -> S]
    BY <1>2, <1>5, <1>7
<1> QED
    BY <1>1, <1>5, <1>8


(* The two forms of an encoded byte.                                       *)
Plain(b, code) == b # Percent /\ code = <<b>>

Hex(b, code) ==
    /\ code \in Seq(Byte) /\ Len(code) = 3 /\ code[1] = Percent
    /\ (HexChar2Dec(code[2]) * 16 + HexChar2Dec(code[3])) % 256 = b

LEMMA HexDigit ==
    ASSUME NEW n \in 0 .. 15
    PROVE  Dec2HexChar(n) \in Byte /\ HexChar2Dec(Dec2HexChar(n)) = n
<1>1. CASE n <= 9
    <2>1. Dec2HexChar(n) = n + 48
        BY <1>1 DEF Dec2HexChar
    <2>2. n + 48 \in 48 .. 57 /\ (n + 48) - 48 = n
        BY <1>1
    <2> QED
        BY <2>1, <2>2 DEF HexChar2Dec, Byte
<1>2. CASE ~ (n <= 9)
    <2>1. Dec2HexChar(n) = n + 55
        BY <1>2 DEF Dec2HexChar
    <2>2. n + 55 \in 65 .. 70 /\ n + 55 \notin 48 .. 57 /\ (n + 55) - 55 = n
        BY <1>2
    <2> QED
        BY <2>1, <2>2 DEF HexChar2Dec, Byte
<1> QED
    BY <1>1, <1>2

LEMMA EncodedByte ==
    ASSUME NEW b \in Byte
    PROVE  Plain(b, EncodeByte(b)) \/ Hex(b, EncodeByte(b))
<1> DEFINE alnum == 48 .. 57 \cup 65 .. 90 \cup 97 .. 122 \cup {46, 47}
           high == Dec2HexChar(b \div 16)
           low == Dec2HexChar(b % 16)
<1>1. b \in Nat /\ b <= 255
    BY DEF Byte
<1>2. CASE b \in alnum
    <2>1. EncodeByte(b) = <<b>>
        BY <1>2 DEF EncodeByte
    <2>2. b # Percent
        BY <1>2 DEF Percent
    <2> QED
        BY <2>1, <2>2 DEF Plain
<1>3. CASE b \notin alnum
    <2>1. EncodeByte(b) = <<Percent, high, low>>
        BY <1>3 DEF EncodeByte
    <2>2. b \div 16 \in 0 .. 15 /\ b % 16 \in 0 .. 15 /\ ((b \div 16) * 16 + (b % 16)) % 256 = b
        BY <1>1
    <2>3. high \in Byte /\ low \in Byte /\ HexChar2Dec(high) = b \div 16 /\ HexChar2Dec(low) = b % 16
        BY <2>2, HexDigit
    <2>4. Percent \in Byte
        BY DEF Percent, Byte
    <2> HIDE DEF high, low
    <2>5. <<Percent, high, low>> \in Seq(Byte)
        BY <2>3, <2>4
    <2>6. /\ Len(<<Percent, high, low>>) = 3 /\ <<Percent, high, low>>[1] = Percent
          /\ <<Percent, high, low>>[2] = high /\ <<Percent, high, low>>[3] = low
        OBVIOUS
    <2>7. Hex(b, <<Percent, high, low>>)
        BY <2>2, <2>3, <2>5, <2>6 DEF Hex
    <2> QED
        BY <2>1, <2>7
<1> QED
    BY <1>2, <1>3


(* f is the beginning of e.                                                *)
Begins(f, e) == Len(f) <= Len(e) /\ \A i \in 1 .. Len(f) : e[i] = f[i]

LEMMA BeginsConcat ==
    ASSUME NEW e \in Seq(Byte), NEW f \in Seq(Byte), NEW c \in Seq(Byte), Begins(f \o c, e)
    PROVE  /\ Begins(f, e) /\ Len(f \o c) = Len(f) + Len(c) /\ Len(f) + Len(c) <= Len(e)
           /\ \A i \in 1 .. Len(c) : e[Len(f) + i] = c[i]
<1> DEFINE fc == f \o c
<1>1. /\ Len(fc) = Len(f) + Len(c)
      /\ \A i \in 1 .. Len(f) : fc[i] = f[i]
      /\ \A i \in 1 .. Len(c) : fc[Len(f) + i] = c[i]
    OBVIOUS
<1>2. Len(f) \in Nat /\ Len(c) \in Nat /\ Len(e) \in Nat
    OBVIOUS
<1>3. Len(fc) <= Len(e) /\ \A i \in 1 .. Len(fc) : e[i] = fc[i]
    BY DEF Begins
<1> HIDE DEF fc
<1>4. ASSUME NEW i \in 1 .. Len(f) PROVE e[i] = f[i]
    <2>1. i \in 1 .. Len(fc)
        BY <1>1, <1>2
    <2> QED
        BY <1>1, <1>3, <2>1
<1>5. ASSUME NEW i \in 1 .. Len(c) PROVE e[Len(f) + i] = c[i]
    <2>1. Len(f) + i \in 1 .. Len(fc)
        BY <1>1, <1>2
    <2> QED
        BY <1>1, <1>3, <2>1
<1> QED
    BY <1>1, <1>2, <1>3, <1>4, <1>5 DEF Begins, fc

(* A turn of decode over an encoded byte behind f.                         *)
Encodes(code, b) == Plain(b, code) \/ Hex(b, code)

IsTurn(e, g, i, b, behind) == DecodeFrom(e, g, i) = <<b>> \o g[behind]

LEMMA DecodeTurn ==
    ASSUME NEW e \in Seq(Byte), NEW g, NEW f \in Seq(Byte), NEW b \in Byte, NEW code \in Seq(Byte),
           Encodes(code, b), NEW fc, fc = f \o code, Begins(fc, e),
           NEW i, i = Len(f) + 1, NEW behind, behind = Len(fc) + 1
    PROVE  IsTurn(e, g, i, b, behind)
<1>1. /\ Len(fc) = Len(f) + Len(code) /\ Len(f) + Len(code) <= Len(e)
      /\ \A k \in 1 .. Len(code) : e[Len(f) + k] = code[k]
    BY BeginsConcat
<1>2. Len(f) \in Nat /\ Len(code) \in Nat /\ Len(e) \in Nat
    OBVIOUS
<1>3. CASE Plain(b, code)
    <2>1. Len(code) = 1 /\ code[1] = b /\ b # Percent
        BY <1>3 DEF Plain
    <2>2. i <= Len(e) /\ e[i] = b /\ i + 1 = behind
        BY <1>1, <1>2, <2>1
    <2>3. DecodeFrom(e, g, i) = <<b>> \o g[i + 1]
        BY <1>2, <2>1, <2>2 DEF DecodeFrom
    <2> QED
        BY <2>2, <2>3 DEF IsTurn
<1>4. CASE Hex(b, code)
    <2>1. Len(code) = 3 /\ code[1] = Percent
        BY <1>4 DEF Hex
    <2>2. /\ i + 2 <= Len(e) /\ i <= Len(e) /\ e[i] = Percent /\ i + 3 = behind
          /\ e[i + 1] = code[2] /\ e[i + 2] = code[3]
        <3>1. e[Len(f) + 1] = code[1] /\ e[Len(f) + 2] = code[2] /\ e[Len(f) + 3] = code[3]
            BY <1>1, <2>1
        <3>2. i + 1 = Len(f) + 2 /\ i + 2 = Len(f) + 3 /\ i + 3 = Len(f) + 4
            BY <1>2
        <3> QED
            BY <1>1, <1>2, <2>1, <3>1, <3>2
    <2>3. CharAt(e, i + 1) = code[2] /\ CharAt(e, i + 2) = code[3]
        BY <1>2, <2>2 DEF CharAt
    <2>4. Decoded(e, i) = b
        BY <1>4, <2>3 DEF Decoded, Hex
    <2>5. DecodeFrom(e, g, i) = <<b>> \o g[i + 3]
        BY <1>2, <2>2, <2>4 DEF DecodeFrom
    <2> QED
        BY <2>2, <2>5 DEF IsTurn
<1> QED
    BY <1>3, <1>4 DEF Encodes

LEMMA SubSeqFirst ==
    ASSUME NEW S, NEW s \in Seq(S), NEW k \in Nat, k + 1 <= Len(s)
    PROVE  <<s[k + 1]>> \o SubSeq(s, k + 2, Len(s)) = SubSeq(s, k + 1, Len(s))
<1>1. Len(s) \in Nat /\ k + 1 \in 1 .. Len(s)
    OBVIOUS
<1> QED
    BY <1>1

LEMMA FlattenPrefixes ==
    ASSUME NEW S, NEW seqs \in Seq(Seq(S)), NEW k \in Nat, k + 1 <= Len(seqs)
    PROVE  /\ FlattenSeq(SubSeq(seqs, 1, k)) \in Seq(S)
           /\ FlattenSeq(SubSeq(seqs, 1, k + 1)) = FlattenSeq(SubSeq(seqs, 1, k)) \o seqs[k + 1]
<1> DEFINE T == Seq(S)
           before == SubSeq(seqs, 1, k)
<1>1. seqs \in Seq(T)
    OBVIOUS
<1>2. seqs[k + 1] \in T
    BY <1>1
<1>3. before \in Seq(T) /\ SubSeq(seqs, 1, k + 1) = Append(before, seqs[k + 1])
    <2> HIDE DEF T
    <2> QED
        BY <1>1
<1> HIDE DEF before
<1> QED
    BY <1>2, <1>3, FlattenAppend, FlattenType DEF before


(* decode takes back what encode did, for every string of bytes: no byte   *)
(* is lost, changed or taken for another's digits (http_parse.cpp 12-74).  *)
THEOREM DecodeEncode ==
    ASSUME NEW s \in Seq(Byte)
    PROVE  Decode(Encode(s)) = s
<1> DEFINE n == Len(s)
           codes == [i \in DOMAIN s |-> EncodeByte(s[i])]
           F(k) == FlattenSeq(SubSeq(codes, 1, k))
           e == Encode(s)
<1>1. n \in Nat /\ DOMAIN s = 1 .. n /\ \A i \in 1 .. n : s[i] \in Byte
    OBVIOUS
<1>2. ASSUME NEW i \in 1 .. n
      PROVE  /\ codes[i] \in Seq(Byte)
             /\ Plain(s[i], codes[i]) \/ Hex(s[i], codes[i])
    <2>1. s[i] \in Byte /\ codes[i] = EncodeByte(s[i])
        BY <1>1
    <2> HIDE DEF codes
    <2>2. Plain(s[i], codes[i]) \/ Hex(s[i], codes[i])
        BY <2>1, EncodedByte
    <2>3. <<s[i]>> \in Seq(Byte)
        BY <2>1
    <2> QED
        BY <2>2, <2>3 DEF Plain, Hex
<1>3. codes \in Seq(Seq(Byte)) /\ Len(codes) = n
    <2>1. codes = [i \in 1 .. n |-> codes[i]]
        BY <1>1
    <2> HIDE DEF codes
    <2> QED
        BY <1>1, <1>2, <2>1
<1> HIDE DEF codes, n
<1>4. e = F(n)
    <2>1. SubSeq(codes, 1, n) = codes
        BY <1>1, <1>3
    <2> QED
        BY <2>1 DEF Encode, codes
<1>5. e \in Seq(Byte)
    BY <1>3, FlattenType DEF Encode, codes
<1>6. PICK from \in [1 .. Len(e) + 3 -> Seq(Byte)] :
          /\ Decode(e) = from[1]
          /\ \A i \in 1 .. Len(e) + 3 : from[i] = DecodeFrom(e, from, i)
    BY <1>5, DecodeLoop
<1> DEFINE Behind(k) == SubSeq(s, k + 1, n)
           Right(k) == Begins(F(k), e) /\ from[Len(F(k)) + 1] = Behind(k)
           T == {m \in Nat : \A k \in 0 .. n : k + m = n => Right(k)}
<1> HIDE DEF e, F
<1>7. Right(n)
    <2>1. Begins(e, e) /\ Len(e) \in Nat
        BY <1>5 DEF Begins
    <2>2. from[Len(e) + 1] = <<>>
        <3>1. Len(e) + 1 \in 1 .. Len(e) + 3 /\ Len(e) + 1 > Len(e)
            BY <2>1
        <3>2. DecodeFrom(e, from, Len(e) + 1) = <<>>
            BY <3>1 DEF DecodeFrom
        <3> QED
            BY <1>6, <3>1, <3>2
    <2>3. Behind(n) = <<>>
        BY <1>1
    <2> QED
        BY <1>4, <2>1, <2>2, <2>3
<1>8. ASSUME NEW k \in Nat, k + 1 <= n, Right(k + 1) PROVE Right(k)
    <2> DEFINE code == codes[k + 1]
    <2>1. k + 1 \in 1 .. n
        BY <1>1, <1>8
    <2>2. code \in Seq(Byte) /\ s[k + 1] \in Byte /\ (Plain(s[k + 1], code) \/ Hex(s[k + 1], code))
        BY <1>1, <1>2, <2>1
    <2>3. F(k) \in Seq(Byte) /\ F(k + 1) = F(k) \o code
        BY <1>3, <1>8, FlattenPrefixes DEF F
    <2> HIDE DEF code
    <2>4. Begins(F(k) \o code, e) /\ from[Len(F(k) \o code) + 1] = Behind(k + 1)
        BY <1>8, <2>3
    <2>5. Begins(F(k), e)
        BY <1>5, <2>2, <2>3, <2>4, BeginsConcat
    <2>6. DecodeFrom(e, from, Len(F(k)) + 1) = <<s[k + 1]>> \o Behind(k + 1)
        <3> DEFINE f == F(k)
                   fc == f \o code
                   b == s[k + 1]
                   i == Len(f) + 1
                   j == Len(fc) + 1
        <3>1. /\ f \in Seq(Byte) /\ b \in Byte /\ Encodes(code, b)
              /\ fc = f \o code /\ Begins(fc, e) /\ i = Len(f) + 1 /\ j = Len(fc) + 1
            BY <2>2, <2>3, <2>4 DEF Encodes
        <3>2. from[j] = Behind(k + 1)
            BY <2>4
        <3> HIDE DEF f, fc, b, i, j, Behind
        <3>3. IsTurn(e, from, i, b, j)
            BY <1>5, <2>2, <3>1, DecodeTurn
        <3>4. DecodeFrom(e, from, i) = <<b>> \o Behind(k + 1)
            BY <3>2, <3>3 DEF IsTurn
        <3> QED
            BY <3>4 DEF i, f, b
    <2>7. Len(F(k)) + 1 \in 1 .. Len(e) + 3
        BY <1>5, <2>3, <2>5 DEF Begins
    <2>8. <<s[k + 1]>> \o Behind(k + 1) = Behind(k)
        <3>1. (k + 1) + 1 = k + 2
            OBVIOUS
        <3> QED
            BY <1>1, <1>8, <3>1, SubSeqFirst DEF n
    <2> QED
        BY <1>6, <2>5, <2>6, <2>7, <2>8
<1>9. Right(0)
    <2>1. 0 \in T
        <3>1. \A k \in 0 .. n : k + 0 = n => k = n
            BY <1>1
        <3> HIDE DEF Right
        <3> QED
            BY <1>7, <3>1
    <2>2. ASSUME NEW m \in Nat, m \in T PROVE m + 1 \in T
        <3> SUFFICES ASSUME NEW k \in 0 .. n, k + (m + 1) = n PROVE Right(k)
            OBVIOUS
        <3>1. k \in Nat /\ k + 1 <= n /\ k + 1 \in 0 .. n /\ (k + 1) + m = n
            BY <1>1
        <3>2. Right(k + 1)
            BY <2>2, <3>1
        <3> HIDE DEF Right
        <3> QED
            BY <1>8, <3>1, <3>2
    <2>3. n \in T
        <3> HIDE DEF T
        <3> QED
            BY <1>1, <2>1, <2>2, Induction
    <2> QED
        BY <1>1, <2>3
<1>10. F(0) = <<>>
    <2>1. SubSeq(codes, 1, 0) = <<>>
        BY <1>3
    <2> QED
        BY <2>1, FlattenEmpty DEF F
<1>11. Behind(0) = s
    BY <1>1 DEF n
<1>12. Len(<<>>) + 1 = 1
    OBVIOUS
<1>13. from[1] = s
    BY <1>9, <1>10, <1>11, <1>12
<1> QED
    BY <1>6, <1>13 DEF e

-----------------------------------------------------------------------------
(* The loop of split.                                                      *)
Splits(s, d, parts) ==
    /\ Split(s, d) = IF s = <<>> THEN <<>> ELSE parts[Len(s)]
    /\ parts[0] = << <<>> >>
    /\ \A i, j \in 0 .. Len(s) : i = j + 1 => parts[i] = SplitNext(parts[j], s[i], d)

LEMMA SplitLoop ==
    ASSUME NEW s, Len(s) \in Nat, NEW d
    PROVE  \E parts : Splits(s, d, parts)
<1> DEFINE n == Len(s)
           Turn(f, i) == IF i = 0 THEN << <<>> >> ELSE SplitNext(f[i - 1], s[i], d)
           Upto(f, k) == f = [i \in 0 .. k |-> Turn(f, i)]
           T == {k \in Nat : \E f : Upto(f, k)}
           parts[i \in 0 .. n] == Turn(parts, i)
<1>1. 0 \in T
    <2> DEFINE f == [i \in 0 .. 0 |-> << <<>> >>]
    <2>1. f = [i \in 0 .. 0 |-> Turn(f, i)]
        OBVIOUS
    <2> QED
        BY <2>1
<1>2. ASSUME NEW k \in Nat, k \in T PROVE k + 1 \in T
    <2>1. PICK f : Upto(f, k)
        BY <1>2
    <2> DEFINE g == [i \in 0 .. k + 1 |-> IF i \in 0 .. k THEN f[i] ELSE SplitNext(f[k], s[i], d)]
    <2>2. \A i \in 0 .. k : g[i] = f[i]
        OBVIOUS
    <2>3. g[k + 1] = SplitNext(f[k], s[k + 1], d)
        OBVIOUS
    <2>4. DOMAIN g = 0 .. k + 1 /\ g = [i \in 0 .. k + 1 |-> g[i]]
        OBVIOUS
    <2> HIDE DEF g
    <2>5. ASSUME NEW i \in 0 .. k + 1 PROVE g[i] = Turn(g, i)
        <3>1. CASE i = 0
            BY <2>1, <2>2, <3>1
        <3>2. CASE i # 0 /\ i \in 0 .. k
            <4>1. i - 1 \in 0 .. k
                BY <3>2
            <4>2. g[i] = f[i] /\ g[i - 1] = f[i - 1]
                BY <2>2, <3>2, <4>1
            <4>3. f[i] = Turn(f, i)
                BY <2>1, <3>2
            <4> QED
                BY <3>2, <4>2, <4>3
        <3>3. CASE i = k + 1
            <4>1. i # 0 /\ i - 1 = k /\ g[k] = f[k]
                BY <2>2, <3>3
            <4> QED
                BY <2>3, <3>3, <4>1
        <3> QED
            BY <3>1, <3>2, <3>3
    <2>6. Upto(g, k + 1)
        BY <2>4, <2>5
    <2> QED
        BY <2>6
<1>3. n \in T
    <2> HIDE DEF T
    <2> QED
        BY <1>1, <1>2, Induction
<1>4. parts = [i \in 0 .. n |-> Turn(parts, i)]
    BY <1>3
<1> HIDE DEF parts
<1>5. ASSUME NEW i \in 0 .. n, NEW j \in 0 .. n, i = j + 1
      PROVE  parts[i] = SplitNext(parts[j], s[i], d)
    <2>1. i # 0 /\ i - 1 = j
        BY <1>5
    <2>2. parts[i] = Turn(parts, i)
        BY <1>4
    <2> QED
        BY <2>1, <2>2
<1>6. Splits(s, d, parts)
    <2>1. Split(s, d) = IF s = <<>> THEN <<>> ELSE parts[n]
        BY DEF Split, parts
    <2>2. parts[0] = << <<>> >>
        BY <1>4
    <2> QED
        BY <1>5, <2>1, <2>2 DEF Splits
<1> QED
    BY <1>6

LEMMA AppendNext ==
    ASSUME NEW S, NEW s \in Seq(S), NEW m \in Nat \ {0}, NEW n \in Nat, NEW upto \in 1 .. Len(s),
           upto = n + 1, m <= upto
    PROVE  Append(SubSeq(s, m, n), s[upto]) = SubSeq(s, m, upto)
<1>1. /\ SubSeq(s, m, n) \in Seq(S) /\ Len(SubSeq(s, m, n)) = n - m + 1
      /\ \A i \in 1 .. n - m + 1 : SubSeq(s, m, n)[i] = s[m + i - 1]
    BY SubSeqProperties
<1>2. /\ SubSeq(s, m, upto) \in Seq(S) /\ Len(SubSeq(s, m, upto)) = n - m + 2
      /\ \A i \in 1 .. n - m + 2 : SubSeq(s, m, upto)[i] = s[m + i - 1]
    BY SubSeqProperties
<1> QED
    BY <1>1, <1>2, ElementOfSeq, AppendProperties, SeqEqual

(* A step of split on the parts a separator or another token meets.        *)
LEMMA SplitNextParts ==
    ASSUME NEW T, NEW parts \in Seq(Seq(T)), Len(parts) >= 1, NEW t \in T, NEW d
    PROVE  /\ SplitNext(parts, t, d) \in Seq(Seq(T))
           /\ t = d => Len(SplitNext(parts, t, d)) = Len(parts) + 1
           /\ t # d => Len(SplitNext(parts, t, d)) = Len(parts)
<1> DEFINE U == Seq(T)
           step == SplitNext(parts, t, d)
<1>1. parts \in Seq(U) /\ <<>> \in U /\ Len(parts) \in 1 .. Len(parts) /\ Len(parts) \in Nat
    OBVIOUS
<1>2. parts[Len(parts)] \in U
    BY <1>1
<1>3. Append(parts[Len(parts)], t) \in U
    BY <1>2
<1>4. CASE t = d
    <2>1. step = Append(parts, <<>>)
        BY <1>4 DEF SplitNext
    <2> HIDE DEF U, step
    <2> QED
        BY <1>1, <1>4, <2>1, AppendProperties DEF U, step
<1>5. CASE t # d
    <2>1. step = [parts EXCEPT ![Len(parts)] = Append(parts[Len(parts)], t)]
        BY <1>5 DEF SplitNext
    <2> HIDE DEF U, step
    <2>2. step \in Seq(U) /\ Len(step) = Len(parts)
        BY <1>1, <1>3, <2>1
    <2> QED
        BY <1>5, <2>2 DEF U, step
<1> QED
    BY <1>4, <1>5

LEMMA AppendToOne ==
    ASSUME NEW x, NEW y
    PROVE  Append(<<x>>, y) = <<x, y>>
<1> DEFINE U == {x, y}
<1>1. <<x>> \in Seq(U) /\ y \in U /\ <<x, y>> \in Seq(U) /\ Len(<<x>>) = 1 /\ Len(<<x, y>>) = 2
    OBVIOUS
<1>2. <<x>>[1] = x /\ <<x, y>>[1] = x /\ <<x, y>>[2] = y
    OBVIOUS
<1> HIDE DEF U
<1>3. /\ Append(<<x>>, y) \in Seq(U) /\ Len(Append(<<x>>, y)) = 2
      /\ Append(<<x>>, y)[1] = x /\ Append(<<x>>, y)[2] = y
    BY <1>1, <1>2, AppendProperties
<1>4. \A i \in 1 .. 2 : Append(<<x>>, y)[i] = <<x, y>>[i]
    BY <1>2, <1>3
<1> QED
    BY <1>1, <1>3, <1>4, SeqEqual

LEMMA SplitNextOne ==
    ASSUME NEW T, NEW p \in Seq(T), NEW t, NEW d
    PROVE  /\ t # d => SplitNext(<<p>>, t, d) = <<Append(p, t)>>
           /\ t = d => SplitNext(<<p>>, t, d) = <<p, <<>> >>
<1>1. ASSUME t # d PROVE SplitNext(<<p>>, t, d) = <<Append(p, t)>>
    BY <1>1 DEF SplitNext
<1>2. ASSUME t = d PROVE SplitNext(<<p>>, t, d) = <<p, <<>> >>
    BY <1>2, AppendToOne DEF SplitNext
<1> QED
    BY <1>1, <1>2

LEMMA SplitNextTwo ==
    ASSUME NEW T, NEW p \in Seq(T), NEW q \in Seq(T), NEW t, NEW d, t # d
    PROVE  SplitNext(<<p, q>>, t, d) = <<p, Append(q, t)>>
    BY DEF SplitNext

NoneIs(s, d, i, j) == \A k \in i .. j : s[k] # d

(* What the first k characters make, by the separators among them: none,   *)
(* one at c, or more.                                                      *)
PartsOf(s, d, T, k, parts) ==
    /\ parts \in Seq(Seq(T)) /\ Len(parts) >= 1
    /\ NoneIs(s, d, 1, k) => parts = <<SubSeq(s, 1, k)>>
    /\ \A c \in 1 .. k :
          /\ s[c] = d => Len(parts) >= 2
          /\ s[c] = d /\ NoneIs(s, d, 1, c - 1) /\ NoneIs(s, d, c + 1, k) =>
                parts = <<SubSeq(s, 1, c - 1), SubSeq(s, c + 1, k)>>
          /\ \A e \in 1 .. k : s[c] = d /\ s[e] = d /\ c < e => Len(parts) >= 3

LEMMA PartsOfNext ==
    ASSUME NEW T, NEW s \in Seq(T), NEW d, NEW k \in Nat, NEW upto \in 1 .. Len(s), upto = k + 1,
           NEW parts, PartsOf(s, d, T, k, parts)
    PROVE  PartsOf(s, d, T, upto, SplitNext(parts, s[upto], d))
<1> DEFINE t == s[upto]
           step == SplitNext(parts, t, d)
<1>1. t \in T /\ k \in Nat /\ upto \in Nat /\ Len(s) \in Nat
    OBVIOUS
<1>2. /\ step \in Seq(Seq(T)) /\ Len(step) >= 1 /\ Len(step) >= Len(parts)
      /\ t = d => Len(step) = Len(parts) + 1
    <2>1. parts \in Seq(Seq(T)) /\ Len(parts) >= 1
        BY DEF PartsOf
    <2>2. Len(parts) \in Nat
        BY <2>1
    <2> HIDE DEF t
    <2> QED
        BY <1>1, <2>1, <2>2, SplitNextParts
<1>3. ASSUME NoneIs(s, d, 1, upto) PROVE step = <<SubSeq(s, 1, upto)>>
    <2>1. NoneIs(s, d, 1, k) /\ t # d
        BY <1>1, <1>3 DEF NoneIs
    <2>2. parts = <<SubSeq(s, 1, k)>> /\ SubSeq(s, 1, k) \in Seq(T)
        BY <2>1 DEF PartsOf
    <2>3. step = <<Append(SubSeq(s, 1, k), t)>>
        BY <2>1, <2>2, SplitNextOne
    <2>4. Append(SubSeq(s, 1, k), t) = SubSeq(s, 1, upto)
        BY <1>1, AppendNext
    <2> QED
        BY <2>3, <2>4
<1>4. ASSUME NEW c \in 1 .. upto, s[c] = d PROVE Len(step) >= 2
    <2>1. Len(parts) \in Nat /\ Len(parts) >= 1
        BY DEF PartsOf
    <2>2. CASE c = upto
        BY <1>2, <1>4, <2>1, <2>2
    <2>3. CASE c # upto
        <3>1. c \in 1 .. k
            BY <1>1, <2>3
        <3>2. Len(parts) >= 2
            BY <1>4, <3>1 DEF PartsOf
        <3>3. Len(step) \in Nat
            BY <1>2
        <3> HIDE DEF step
        <3> QED
            BY <1>2, <2>1, <3>2, <3>3
    <2> QED
        BY <2>2, <2>3
<1>5. ASSUME NEW c \in 1 .. upto, s[c] = d, NoneIs(s, d, 1, c - 1), NoneIs(s, d, c + 1, upto)
      PROVE  step = <<SubSeq(s, 1, c - 1), SubSeq(s, c + 1, upto)>>
    <2>1. CASE c = upto
        <3>1. NoneIs(s, d, 1, k) /\ t = d /\ c - 1 = k
            BY <1>1, <1>5, <2>1 DEF NoneIs
        <3>2. parts = <<SubSeq(s, 1, k)>> /\ SubSeq(s, 1, k) \in Seq(T)
            BY <3>1 DEF PartsOf
        <3>3. step = <<SubSeq(s, 1, k), <<>> >>
            BY <3>1, <3>2, SplitNextOne
        <3>4. SubSeq(s, c + 1, upto) = <<>>
            BY <1>1, <2>1
        <3> QED
            BY <3>1, <3>3, <3>4
    <2>2. CASE c # upto
        <3>1. c \in 1 .. k /\ NoneIs(s, d, c + 1, k) /\ t # d
            BY <1>1, <1>5, <2>2 DEF NoneIs
        <3>2. parts = <<SubSeq(s, 1, c - 1), SubSeq(s, c + 1, k)>>
            BY <1>5, <3>1 DEF PartsOf
        <3>3. SubSeq(s, 1, c - 1) \in Seq(T) /\ SubSeq(s, c + 1, k) \in Seq(T)
            BY <1>1
        <3>4. step = <<SubSeq(s, 1, c - 1), Append(SubSeq(s, c + 1, k), t)>>
            BY <3>1, <3>2, <3>3, SplitNextTwo
        <3>5. Append(SubSeq(s, c + 1, k), t) = SubSeq(s, c + 1, upto)
            <4>1. c + 1 \in Nat \ {0} /\ c + 1 <= upto
                BY <1>1, <3>1
            <4> QED
                BY <1>1, <4>1, AppendNext
        <3> QED
            BY <3>4, <3>5
    <2> QED
        BY <2>1, <2>2
<1>6. ASSUME NEW c \in 1 .. upto, NEW e \in 1 .. upto, s[c] = d, s[e] = d, c < e
      PROVE  Len(step) >= 3
    <2>1. c \in 1 .. k
        BY <1>1, <1>6
    <2>2. Len(parts) \in Nat /\ Len(step) \in Nat
        BY <1>2 DEF PartsOf
    <2>3. CASE e = upto
        <3>1. Len(parts) >= 2
            BY <1>6, <2>1 DEF PartsOf
        <3> QED
            BY <1>2, <1>6, <2>2, <2>3, <3>1
    <2>4. CASE e # upto
        <3>1. e \in 1 .. k
            BY <1>1, <2>4
        <3>2. Len(parts) >= 3
            BY <1>6, <2>1, <3>1 DEF PartsOf
        <3> HIDE DEF step
        <3> QED
            BY <1>2, <2>2, <3>2
    <2> QED
        BY <2>3, <2>4
<1> HIDE DEF step
<1>7. PartsOf(s, d, T, upto, step)
    BY <1>2, <1>3, <1>4, <1>5, <1>6 DEF PartsOf
<1> QED
    BY <1>7 DEF step

(* What split makes of a string that is not empty.                         *)
LEMMA SplitParts ==
    ASSUME NEW T, NEW s \in Seq(T), s # <<>>, NEW d
    PROVE  PartsOf(s, d, T, Len(s), Split(s, d))
<1> DEFINE n == Len(s)
<1>1. n \in Nat /\ n # 0
    OBVIOUS
<1>2. PICK parts : Splits(s, d, parts)
    BY <1>1, SplitLoop
<1> DEFINE Q == {k \in Nat : \A i \in 0 .. n : i <= k => PartsOf(s, d, T, i, parts[i])}
<1>3. PartsOf(s, d, T, 0, parts[0])
    <2>1. parts[0] = << <<>> >> /\ SubSeq(s, 1, 0) = <<>>
        BY <1>2 DEF Splits
    <2>2. << <<>> >> \in Seq(Seq(T)) /\ Len(<< <<>> >>) = 1
        OBVIOUS
    <2> QED
        BY <2>1, <2>2 DEF PartsOf
<1>4. ASSUME NEW k \in Nat, k \in Q PROVE k + 1 \in Q
    <2> SUFFICES ASSUME NEW i \in 0 .. n, i <= k + 1 PROVE PartsOf(s, d, T, i, parts[i])
        OBVIOUS
    <2>1. CASE i <= k
        BY <1>4, <2>1
    <2>2. CASE i = k + 1
        <3>1. k \in 0 .. n /\ i \in 1 .. Len(s)
            BY <1>1, <2>2
        <3>2. PartsOf(s, d, T, k, parts[k])
            BY <1>4, <3>1
        <3>3. parts[i] = SplitNext(parts[k], s[i], d)
            BY <1>2, <2>2, <3>1 DEF Splits
        <3> QED
            BY <2>2, <3>1, <3>2, <3>3, PartsOfNext
    <2> QED
        BY <2>1, <2>2
<1>5. n \in Q
    <2>1. 0 \in Q
        BY <1>3
    <2> HIDE DEF Q
    <2> QED
        BY <1>1, <1>4, <2>1, Induction
<1>6. Split(s, d) = parts[n]
    BY <1>2 DEF Splits
<1> QED
    BY <1>1, <1>5, <1>6

-----------------------------------------------------------------------------
LEMMA FindIs ==
    ASSUME NEW s, Len(s) \in Nat, NEW d, NEW i \in Nat \ {0}, NEW k \in i .. Len(s), s[k] = d,
           NoneIs(s, d, i, k - 1)
    PROVE  Find(s, d, i) = k
<1> DEFINE I == {j \in i .. Len(s) : s[j] = d}
<1>1. k \in I /\ k \in Nat
    OBVIOUS
<1>2. \A j \in I : k <= j
    <2> SUFFICES ASSUME NEW j \in I, j < k PROVE FALSE
        OBVIOUS
    <2>1. j \in i .. k - 1
        OBVIOUS
    <2> QED
        BY <2>1 DEF NoneIs
<1>3. I \subseteq Nat
    OBVIOUS
<1> HIDE DEF I
<1>4. \A j \in I : (\A m \in I : j <= m) => j = k
    BY <1>1, <1>2, <1>3
<1>5. Min(I) = k
    BY <1>1, <1>2, <1>4 DEF Min
<1>6. k # 0
    OBVIOUS
<1>7. I # {}
    BY <1>1
<1>8. SelectInSubSeq(s, i, Len(s), LAMBDA t : t = d) = Min(I)
    BY <1>7 DEF SelectInSubSeq, I
<1> QED
    BY <1>5, <1>6, <1>8 DEF Find

LEMMA FindNone ==
    ASSUME NEW s, Len(s) \in Nat, NEW d, NEW i \in Nat, NoneIs(s, d, i, Len(s))
    PROVE  Find(s, d, i) = Len(s) + 1
<1>1. {j \in i .. Len(s) : s[j] = d} = {}
    BY DEF NoneIs
<1>2. SelectInSubSeq(s, i, Len(s), LAMBDA t : t = d) = 0
    BY <1>1 DEF SelectInSubSeq
<1> QED
    BY <1>2 DEF Find

(* A find looks ahead.                                                     *)
LEMMA FindBounds ==
    ASSUME NEW s, Len(s) \in Nat, NEW d, NEW i \in Nat \ {0}
    PROVE  Find(s, d, i) \in Nat /\ (Find(s, d, i) \in i .. Len(s) \/ Find(s, d, i) = Len(s) + 1)
<1> DEFINE I == {j \in i .. Len(s) : s[j] = d}
<1>1. CASE I = {}
    <2>1. NoneIs(s, d, i, Len(s))
        BY <1>1 DEF NoneIs
    <2> QED
        BY <2>1, FindNone
<1>2. CASE I # {}
    <2> DEFINE T == {k \in Nat : \A j \in I : k < j}
    <2>1. PICK m \in I : TRUE
        BY <1>2
    <2>2. 0 \in T /\ m \notin T /\ m \in Nat
        BY <2>1
    <2>3. PICK k \in Nat : k \in T /\ k + 1 \notin T
        <3> HIDE DEF T
        <3> QED
            BY <2>2, Induction
    <2>4. k + 1 \in I /\ \A j \in I : k + 1 <= j
        BY <2>3
    <2>5. NoneIs(s, d, i, (k + 1) - 1)
        BY <2>4 DEF NoneIs
    <2>6. k + 1 \in i .. Len(s) /\ s[k + 1] = d
        BY <2>4
    <2>7. Find(s, d, i) = k + 1
        BY <2>5, <2>6, FindIs
    <2> QED
        BY <2>6, <2>7
<1> QED
    BY <1>1, <1>2

LEMMA FlattenOne == ASSUME NEW T, NEW s \in Seq(T) PROVE FlattenSeq(<<s>>) = s
<1>1. <<s>> \in Seq(Seq(T)) /\ <<s>> # <<>> /\ Len(<<s>>) = 1 /\ <<s>>[1] = s
    OBVIOUS
<1>2. PICK f \in [1 .. 1 -> Seq(T)] : Flattens(<<s>>, f)
    BY <1>1, FlattenLoop DEF FlattensInto
<1> QED
    BY <1>1, <1>2 DEF Flattens

LEMMA TextOfOne ==
    /\ TextOf(<<>>) = <<>>
    /\ \A t : Text(t) \in Seq(Byte) => TextOf(<<t>>) = Text(t)
<1>1. TextOf(<<>>) = <<>>
    BY FlattenEmpty DEF TextOf
<1>2. ASSUME NEW t, Text(t) \in Seq(Byte) PROVE TextOf(<<t>>) = Text(t)
    <2>1. [i \in DOMAIN <<t>> |-> Text(<<t>>[i])] = <<Text(t)>>
        OBVIOUS
    <2> QED
        BY <1>2, <2>1, FlattenOne DEF TextOf
<1> QED
    BY <1>1, <1>2

(* A string without '%' is left as it is.                                  *)
LEMMA DecodePlain ==
    ASSUME NEW s \in Seq(Byte), NoneIs(s, Percent, 1, Len(s))
    PROVE  Decode(s) = s
<1> DEFINE n == Len(s)
<1>1. n \in Nat
    OBVIOUS
<1>2. PICK from \in [1 .. n + 3 -> Seq(Byte)] :
          /\ Decode(s) = from[1]
          /\ \A i \in 1 .. n + 3 : from[i] = DecodeFrom(s, from, i)
    BY DecodeLoop
<1> DEFINE Right(k) == from[k + 1] = SubSeq(s, k + 1, n)
           T == {m \in Nat : \A k \in 0 .. n : k + m = n => Right(k)}
<1>3. 0 \in T
    <2> SUFFICES Right(n)
        <3>1. \A k \in 0 .. n : k + 0 = n => k = n
            BY <1>1
        <3> HIDE DEF Right
        <3> QED
            BY <3>1
    <2>1. n + 1 \in 1 .. n + 3 /\ n + 1 > Len(s)
        BY <1>1
    <2>2. DecodeFrom(s, from, n + 1) = <<>>
        BY <2>1 DEF DecodeFrom
    <2>3. SubSeq(s, n + 1, n) = <<>>
        BY <1>1
    <2> QED
        BY <1>2, <2>1, <2>2, <2>3
<1>4. ASSUME NEW m \in Nat, m \in T PROVE m + 1 \in T
    <2> SUFFICES ASSUME NEW k \in 0 .. n, k + (m + 1) = n PROVE Right(k)
        OBVIOUS
    <2>1. k \in Nat /\ k + 1 <= n /\ k + 1 \in 0 .. n /\ (k + 1) + m = n
        BY <1>1
    <2>2. Right(k + 1)
        BY <1>4, <2>1
    <2>3. k + 1 \in 1 .. n /\ k + 1 \in 1 .. n + 3 /\ s[k + 1] # Percent
        BY <1>1, <2>1 DEF NoneIs
    <2>4. DecodeFrom(s, from, k + 1) = <<s[k + 1]>> \o from[(k + 1) + 1]
        BY <1>1, <2>3 DEF DecodeFrom
    <2>5. <<s[k + 1]>> \o SubSeq(s, (k + 1) + 1, n) = SubSeq(s, k + 1, n)
        <3>1. (k + 1) + 1 = k + 2
            BY <2>1
        <3> QED
            BY <2>1, <3>1, SubSeqFirst
    <2> QED
        BY <1>2, <2>2, <2>3, <2>4, <2>5
<1>5. n \in T
    <2> HIDE DEF T
    <2> QED
        BY <1>1, <1>3, <1>4, Induction
<1>6. from[1] = SubSeq(s, 1, n)
    <2>1. Right(0)
        BY <1>1, <1>5
    <2> QED
        BY <2>1
<1> QED
    BY <1>2, <1>6

(* The page that is set before the parse.                                  *)
LEMMA AtoiOne == Atoi(<<Zero + 1>>) = 1
<1> DEFINE s == <<Zero + 1>>
           first == IF s # <<>> /\ s[1] \in {43, 45} THEN 2 ELSE 1
           stop == SelectInSubSeq(s, first, Len(s), LAMBDA c : c \notin 48 .. 57)
           digits == SubSeq(s, first, IF stop = 0 THEN Len(s) ELSE stop - 1)
           Turn(f, i) == IF i = 0 THEN 0 ELSE 10 * f[i - 1] + (digits[i] - Zero)
           number[i \in 0 .. Len(digits)] == Turn(number, i)
<1>1. s = <<49>> /\ s # <<>> /\ Len(s) = 1 /\ s[1] = 49
    BY DEF Zero
<1>2. first = 1
    BY <1>1
<1>3. stop = 0
    <2>1. {i \in 1 .. 1 : s[i] \notin 48 .. 57} = {}
        BY <1>1
    <2> QED
        BY <1>1, <1>2, <2>1 DEF SelectInSubSeq
<1>4. digits = <<49>>
    <2>1. digits = SubSeq(s, 1, 1)
        BY <1>1, <1>2, <1>3
    <2>2. SubSeq(<<49>>, 1, 1) = <<49>>
        <3>1. <<49>> \in Seq(Nat) /\ Len(<<49>>) = 1
            OBVIOUS
        <3> QED
            BY <3>1, SubSeqFull
    <2> QED
        BY <1>1, <2>1, <2>2
<1>5. Atoi(s) = number[Len(digits)]
    <2>1. Atoi(s) = IF s # <<>> /\ s[1] = 45 THEN -number[Len(digits)] ELSE number[Len(digits)]
        BY DEF Atoi
    <2> HIDE DEF number, digits, s
    <2> QED
        BY <1>1, <2>1
<1> HIDE DEF digits
<1>6. Len(digits) = 1 /\ digits[1] = 49
    BY <1>4
<1>7. number = [i \in 0 .. 1 |-> Turn(number, i)]
    <2> DEFINE f == [i \in 0 .. 1 |-> i]
    <2>1. f[0] = 0 /\ f[1] = 1 /\ Turn(f, 0) = 0 /\ Turn(f, 1) = 1
        BY <1>6 DEF Zero
    <2>2. \A i \in 0 .. 1 : i = 0 \/ i = 1
        OBVIOUS
    <2>3. f = [i \in 0 .. 1 |-> Turn(f, i)]
        BY <2>1, <2>2
    <2>4. \E g : g = [i \in 0 .. 1 |-> Turn(g, i)]
        BY <2>3
    <2> QED
        BY <1>6, <2>4
<1> HIDE DEF number
<1>8. number[0] = Turn(number, 0) /\ number[1] = Turn(number, 1)
    BY <1>7
<1>9. number[1] = 1
    BY <1>6, <1>8 DEF Zero
<1> QED
    BY <1>5, <1>6, <1>9

-----------------------------------------------------------------------------
Blank == " "

LEMMA BlankIs == Blank \in Separators /\ Blank \notin {"CR", "LF", "?", "&", "=", ":", "q", "p"}
    BY Zenon DEF Blank, Separators

(* The tokens of a request: target between a method and a version, then    *)
(* the headers.                                                            *)
IsRequest(buf, method, target, version, rest) ==
    /\ Len(buf) = Len(target) + 6 + Len(rest)
    /\ buf[1] = method /\ buf[2] = Blank
    /\ \A i \in 1 .. Len(target) : buf[i + 2] = target[i]
    /\ buf[Len(target) + 3] = Blank /\ buf[Len(target) + 4] = version
    /\ buf[Len(target) + 5] = "CR" /\ buf[Len(target) + 6] = "LF"
    /\ \A i \in 1 .. Len(rest) : buf[Len(target) + 6 + i] = rest[i]

ParamsOf(params, parts) == IF Len(parts) > 1 THEN Params(params, parts[2]) ELSE params

LEMMA DescParsed ==
    ASSUME NEW S, NEW buf \in Seq(S), NEW target \in Seq(S), NEW rest \in Seq(S), NEW request,
           NEW method \in Upper, NEW version, version # "CR", version # Blank, target # <<>>,
           NoneIs(target, Blank, 1, Len(target)), NoneIs(target, "CR", 1, Len(target)),
           IsRequest(buf, method, target, version, rest)
    PROVE  /\ ParseDesc(buf, request).end = Len(target) + 7
           /\ ParseDesc(buf, request).request.url = Split(target, "?")[1]
           /\ ParseDesc(buf, request).request.params = ParamsOf(request.params, Split(target, "?"))
<1> DEFINE cr     == Find(buf, "CR", 1)
           line   == SubSeq(buf, 1, cr - 1)
           s1     == Find(line, Blank, 1)
           s2     == Find(line, Blank, s1 + 1)
           verb   == SubSeq(line, 1, s1 - 1)
           goal   == SubSeq(line, s1 + 1, s2 - 1)
           parts  == Split(goal, "?")
           url    == IF s2 < cr THEN parts[1] ELSE goal
           blank  == SelectSeq(SubSeq(line, s2 + 1, cr - 1), LAMBDA t : t # Blank)
           count  == IF s1 < cr THEN Len(blank) ELSE Len(verb)
           from   == IF s1 < cr THEN Len(verb) + Len(url) + 2 ELSE 2
           to     == IF from + count > Len(buf) THEN Len(buf) ELSE from + count
           vers   == IF count = 0 THEN <<"HTTP/1.1">> ELSE SubSeq(buf, from + 1, to)
           params == IF s2 < cr /\ Len(parts) > 1
                     THEN Params(request.params, parts[2]) ELSE request.params
           n == Len(target)
<1>1. ParseDesc(buf, request) =
        IF \/ \E i \in DOMAIN verb : verb[i] \notin Upper
           \/ s1 > Len(buf)
        THEN [end |-> 0, request |-> request]
        ELSE IF s1 < cr /\ goal = <<>> /\ s2 <= Len(buf)
        THEN [end |-> 0, request |-> [request EXCEPT !.method = verb]]
        ELSE [end |-> IF cr <= Len(buf) THEN cr + 2 ELSE Len(buf) + 2,
              request |-> [method  |-> IF s1 < cr THEN verb ELSE <<>>,
                           url     |-> IF s1 < cr THEN url ELSE <<>>,
                           version |-> vers, params |-> params]]
    BY Zenon DEF ParseDesc, Blank
<1> HIDE DEF blank, count, from, to, vers, params, url, parts
<1>2. /\ n \in Nat /\ n # 0 /\ Len(rest) \in Nat /\ Len(buf) \in Nat /\ Len(buf) = n + 6 + Len(rest)
      /\ method # Blank /\ method # "CR"
    <2>1. method \notin Separators
        BY ParserAssumption
    <2>2. "CR" \in Separators
        BY Zenon DEF Separators
    <2> QED
        BY <2>1, <2>2, BlankIs DEF IsRequest
<1>3. cr = n + 5
    <2>1. NoneIs(buf, "CR", 1, (n + 5) - 1)
        <3> SUFFICES ASSUME NEW i \in 1 .. n + 4 PROVE buf[i] # "CR"
            BY <1>2 DEF NoneIs
        <3>1. CASE i = 1 \/ i = 2 \/ i = n + 3 \/ i = n + 4
            BY <1>2, <3>1, BlankIs DEF IsRequest
        <3>2. CASE i \in 3 .. n + 2
            <4>1. i - 2 \in 1 .. n /\ (i - 2) + 2 = i
                BY <1>2, <3>2
            <4>2. buf[(i - 2) + 2] = target[i - 2]
                BY <4>1 DEF IsRequest
            <4>3. target[i - 2] # "CR"
                BY <4>1 DEF NoneIs
            <4> QED
                BY <4>1, <4>2, <4>3
        <3> QED
            BY <1>2, <3>1, <3>2
    <2>2. buf[n + 5] = "CR" /\ n + 5 \in 1 .. Len(buf)
        BY <1>2 DEF IsRequest
    <2> DEFINE k == n + 5
    <2>3. /\ k \in 1 .. Len(buf) /\ buf[k] = "CR" /\ NoneIs(buf, "CR", 1, k - 1)
          /\ 1 \in Nat \ {0} /\ Len(buf) \in Nat
        BY <1>2, <2>1, <2>2
    <2> HIDE DEF k
    <2>4. Find(buf, "CR", 1) = k
        BY <2>3, FindIs
    <2> QED
        BY <2>4 DEF k
<1>4. line \in Seq(S) /\ Len(line) = n + 4 /\ \A i \in 1 .. n + 4 : line[i] = buf[i]
    BY <1>2, <1>3
<1> HIDE DEF cr, line
<1>5. s1 = 2
    <2>1. line[1] = method /\ line[2] = Blank
        BY <1>2, <1>4 DEF IsRequest
    <2>2. NoneIs(line, Blank, 1, 2 - 1)
        BY <1>2, <2>1 DEF NoneIs
    <2> QED
        BY <1>2, <1>4, <2>1, <2>2, FindIs
<1>6. s2 = n + 3
    <2>1. line[n + 3] = Blank /\ n + 3 \in 3 .. Len(line)
        BY <1>2, <1>4 DEF IsRequest
    <2>2. NoneIs(line, Blank, 3, (n + 3) - 1)
        <3> SUFFICES ASSUME NEW i \in 3 .. n + 2 PROVE line[i] # Blank
            BY <1>2 DEF NoneIs
        <3>1. i - 2 \in 1 .. n /\ (i - 2) + 2 = i
            BY <1>2
        <3>2. buf[(i - 2) + 2] = target[i - 2] /\ target[i - 2] # Blank
            BY <3>1 DEF IsRequest, NoneIs
        <3> QED
            BY <1>2, <1>4, <3>1, <3>2
    <2>3. Find(line, Blank, 3) = n + 3
        BY <1>2, <1>4, <2>1, <2>2, FindIs
    <2> QED
        BY <1>5, <2>3
<1> HIDE DEF s1, s2
<1>7. verb \in Seq(S) /\ Len(verb) = 1 /\ verb[1] = method
    BY <1>2, <1>4, <1>5 DEF IsRequest
<1>8. goal = target
    <2>1. goal = SubSeq(line, 3, n + 2)
        BY <1>2, <1>5, <1>6
    <2>2. SubSeq(line, 3, n + 2) \in Seq(S) /\ Len(SubSeq(line, 3, n + 2)) = n
          /\ \A i \in 1 .. n : SubSeq(line, 3, n + 2)[i] = line[i + 2]
        BY <1>2, <1>4
    <2>3. \A i \in 1 .. n : line[i + 2] = target[i]
        BY <1>2, <1>4 DEF IsRequest
    <2> QED
        BY <1>2, <2>1, <2>2, <2>3, SeqEqual
<1> HIDE DEF verb, goal
<1>9. /\ s1 < cr /\ s2 < cr /\ cr <= Len(buf) /\ ~(s1 > Len(buf)) /\ cr + 2 = n + 7
      /\ ~ \E i \in DOMAIN verb : verb[i] \notin Upper
    BY <1>2, <1>3, <1>5, <1>6, <1>7
<1>10. url = Split(target, "?")[1] /\ params = ParamsOf(request.params, Split(target, "?"))
    BY <1>8, <1>9 DEF ParamsOf, url, params, parts
<1>11. ParseDesc(buf, request) =
          [end |-> n + 7,
           request |-> [method |-> verb, url |-> url, version |-> vers, params |-> params]]
    BY <1>1, <1>8, <1>9
<1> QED
    BY <1>10, <1>11

-----------------------------------------------------------------------------
(* One turn of the loop of _parse_headers.                                 *)
HeaderFrom(buf, g, i) ==
    LET colon == Find(buf, ":", i)
        cr    == Find(buf, "CR", colon + 1)
    IN  \/ i < Len(buf) /\ buf[i] = "CR" /\ buf[i + 1] = "LF"
        \/ cr <= Len(buf) /\ g[cr + AfterCR]

LEMMA HeadersLoop ==
    ASSUME NEW S, NEW buf \in Seq(S), NEW start \in 1 .. Len(buf)
    PROVE  \E end : /\ HeadersEnd(buf, start) = end[start]
                    /\ \A i \in start .. Len(buf) + 2 : end[i] = HeaderFrom(buf, end, i)
<1> DEFINE Dom == start .. Len(buf) + 2
           bound == Len(buf) + 2
           measure == [i \in Dom |-> Len(buf) + 2 - i]
           Step == [i \in Dom |-> [g \in [Dom -> BOOLEAN] |-> HeaderFrom(buf, g, i)]]
           end[i \in Dom] == HeaderFrom(buf, end, i)
<1>1. HeadersEnd(buf, start) = end[start]
    BY DEF HeadersEnd, HeaderFrom
<1>2. Len(buf) \in Nat /\ start \in Nat \ {0}
    OBVIOUS
<1>3. Solvable(Dom, BOOLEAN, Step)
    <2>1. measure \in [Dom -> 0 .. bound]
        BY <1>2
    <2>2. Step \in [Dom -> [[Dom -> BOOLEAN] -> BOOLEAN]]
        <3>1. \A i \in Dom : \A g \in [Dom -> BOOLEAN] : HeaderFrom(buf, g, i) \in BOOLEAN
            BY DEF HeaderFrom
        <3> QED
            BY <3>1
    <2>3. Descends(Dom, BOOLEAN, measure, Step)
        <3> SUFFICES ASSUME NEW x \in Dom, NEW g \in [Dom -> BOOLEAN], NEW h \in [Dom -> BOOLEAN],
                            \A y \in Dom : measure[y] < measure[x] => g[y] = h[y]
                     PROVE  HeaderFrom(buf, g, x) = HeaderFrom(buf, h, x)
            BY DEF Descends
        <3> DEFINE colon == Find(buf, ":", x)
                   cr == Find(buf, "CR", colon + 1)
        <3>1. x \in Nat \ {0}
            BY <1>2
        <3>2. colon \in Nat /\ (colon \in x .. Len(buf) \/ colon = Len(buf) + 1)
            BY <1>2, <3>1, FindBounds
        <3> HIDE DEF colon
        <3>3. cr \in Nat /\ (cr \in colon + 1 .. Len(buf) \/ cr = Len(buf) + 1)
            BY <1>2, <3>2, FindBounds
        <3> HIDE DEF cr
        <3>4. cr <= Len(buf) => cr + 2 \in Dom /\ measure[cr + 2] < measure[x]
            BY <1>2, <3>1, <3>2, <3>3
        <3>5. cr <= Len(buf) => g[cr + AfterCR] = h[cr + AfterCR]
            BY <3>4 DEF AfterCR
        <3> QED
            BY <3>5 DEF HeaderFrom, cr, colon
    <2>4. bound \in Nat
        BY <1>2
    <2> HIDE DEF Dom, measure, Step, bound
    <2> QED
        BY <2>1, <2>2, <2>3, <2>4, Recursion
<1>4. PICK f \in [Dom -> BOOLEAN] : \A i \in Dom : f[i] = Step[i][f]
    BY <1>3 DEF Solvable
<1>5. f = [i \in Dom |-> HeaderFrom(buf, f, i)]
    BY <1>4
<1>6. end = [i \in Dom |-> HeaderFrom(buf, end, i)]
    BY <1>5
<1> HIDE DEF end
<1> QED
    BY <1>1, <1>6

(* A header and the empty line behind it: the headers end in the data.     *)
LEMMA HeadersEndIn ==
    ASSUME NEW S, NEW buf \in Seq(S), NEW start \in Nat \ {0}, Len(buf) = start + 9,
           buf[start] # "CR", buf[start] # ":", buf[start + 1] = ":",
           \A k \in start + 2 .. start + 5 : buf[k] # "CR",
           buf[start + 6] = "CR", buf[start + 8] = "CR", buf[start + 9] = "LF"
    PROVE  HeadersEnd(buf, start)
<1>1. PICK end : /\ HeadersEnd(buf, start) = end[start]
                 /\ \A i \in start .. Len(buf) + 2 : end[i] = HeaderFrom(buf, end, i)
    <2>1. start \in 1 .. Len(buf)
        OBVIOUS
    <2> QED
        BY <2>1, HeadersLoop
<1>2. end[start + 8]
    <2>1. start + 8 \in start .. Len(buf) + 2 /\ (start + 8) + 1 = start + 9
        OBVIOUS
    <2>2. HeaderFrom(buf, end, start + 8)
        BY <2>1 DEF HeaderFrom
    <2> QED
        BY <1>1, <2>1, <2>2
<1>3. Find(buf, ":", start) = start + 1
    <2>1. NoneIs(buf, ":", start, (start + 1) - 1)
        BY DEF NoneIs
    <2>2. start + 1 \in start .. Len(buf) /\ Len(buf) \in Nat
        OBVIOUS
    <2> QED
        BY <2>1, <2>2, FindIs
<1>4. Find(buf, "CR", (start + 1) + 1) = start + 6
    <2>1. NoneIs(buf, "CR", (start + 1) + 1, (start + 6) - 1)
        BY DEF NoneIs
    <2>2. start + 6 \in (start + 1) + 1 .. Len(buf) /\ Len(buf) \in Nat /\ (start + 1) + 1 \in Nat \ {0}
        OBVIOUS
    <2> QED
        BY <2>1, <2>2, FindIs
<1>5. HeaderFrom(buf, end, start)
    <2>1. (start + 6) + AfterCR = start + 8
        BY DEF AfterCR
    <2>2. start + 6 <= Len(buf)
        OBVIOUS
    <2> QED
        BY <1>2, <1>3, <1>4, <2>1, <2>2 DEF HeaderFrom
<1>6. start \in start .. Len(buf) + 2
    OBVIOUS
<1> QED
    BY <1>1, <1>5, <1>6

-----------------------------------------------------------------------------
(* The loop over the parameters.                                           *)
Adds(before, parts, params) ==
    /\ params[0] = before
    /\ \A i, j \in 0 .. Len(parts) : i = j + 1 => params[i] = AddParam(params[j], parts[i])

LEMMA ParamsLoop ==
    ASSUME NEW before, NEW query, Len(Split(query, "&")) \in Nat
    PROVE  \E params : /\ Params(before, query) = params[Len(Split(query, "&"))]
                       /\ Adds(before, Split(query, "&"), params)
<1> DEFINE parts == Split(query, "&")
           n == Len(parts)
           Turn(f, i) == IF i = 0 THEN before ELSE AddParam(f[i - 1], parts[i])
           Upto(f, k) == f = [i \in 0 .. k |-> Turn(f, i)]
           T == {k \in Nat : \E f : Upto(f, k)}
           params[i \in 0 .. n] == Turn(params, i)
<1>0. Params(before, query) = params[n]
    BY DEF Params
<1> HIDE DEF parts
<1>1. 0 \in T
    <2> DEFINE f == [i \in 0 .. 0 |-> before]
    <2>1. f = [i \in 0 .. 0 |-> Turn(f, i)]
        OBVIOUS
    <2> QED
        BY <2>1
<1>2. ASSUME NEW k \in Nat, k \in T PROVE k + 1 \in T
    <2>1. PICK f : Upto(f, k)
        BY <1>2
    <2> DEFINE g == [i \in 0 .. k + 1 |-> IF i \in 0 .. k THEN f[i] ELSE AddParam(f[k], parts[i])]
    <2>2. \A i \in 0 .. k : g[i] = f[i]
        OBVIOUS
    <2>3. g[k + 1] = AddParam(f[k], parts[k + 1])
        OBVIOUS
    <2>4. DOMAIN g = 0 .. k + 1 /\ g = [i \in 0 .. k + 1 |-> g[i]]
        OBVIOUS
    <2> HIDE DEF g
    <2>5. ASSUME NEW i \in 0 .. k + 1 PROVE g[i] = Turn(g, i)
        <3>1. CASE i = 0
            BY <2>1, <2>2, <3>1
        <3>2. CASE i # 0 /\ i \in 0 .. k
            <4>1. i - 1 \in 0 .. k
                BY <3>2
            <4>2. g[i] = f[i] /\ g[i - 1] = f[i - 1]
                BY <2>2, <3>2, <4>1
            <4>3. f[i] = Turn(f, i)
                BY <2>1, <3>2
            <4> QED
                BY <3>2, <4>2, <4>3
        <3>3. CASE i = k + 1
            <4>1. i # 0 /\ i - 1 = k /\ g[k] = f[k]
                BY <2>2, <3>3
            <4> QED
                BY <2>3, <3>3, <4>1
        <3> QED
            BY <3>1, <3>2, <3>3
    <2>6. Upto(g, k + 1)
        BY <2>4, <2>5
    <2> QED
        BY <2>6
<1>3. n \in T
    <2>1. n \in Nat
        BY DEF parts
    <2> HIDE DEF T
    <2> QED
        BY <1>1, <1>2, <2>1, Induction
<1>4. params = [i \in 0 .. n |-> Turn(params, i)]
    BY <1>3
<1> HIDE DEF params
<1>5. ASSUME NEW i \in 0 .. n, NEW j \in 0 .. n, i = j + 1
      PROVE  params[i] = AddParam(params[j], parts[i])
    <2>1. i # 0 /\ i - 1 = j
        BY <1>5
    <2>2. params[i] = Turn(params, i)
        BY <1>4
    <2> QED
        BY <2>1, <2>2
<1>6. params[0] = before
    <2>1. n \in Nat
        BY DEF parts
    <2> QED
        BY <1>4, <2>1
<1>7. Adds(before, parts, params)
    BY <1>5, <1>6 DEF Adds
<1> QED
    BY <1>0, <1>7 DEF parts

LEMMA ParamsOne ==
    ASSUME NEW before, NEW query, NEW p, Split(query, "&") = <<p>>
    PROVE  Params(before, query) = AddParam(before, p)
<1>1. Len(<<p>>) = 1 /\ <<p>>[1] = p
    OBVIOUS
<1>2. PICK params : Params(before, query) = params[1] /\ Adds(before, <<p>>, params)
    BY <1>1, ParamsLoop
<1>3. 0 \in 0 .. 1 /\ 1 \in 0 .. 1 /\ 1 = 0 + 1
    OBVIOUS
<1> QED
    BY <1>1, <1>2, <1>3 DEF Adds

LEMMA ParamsTwo ==
    ASSUME NEW before, NEW query, NEW p, NEW r, Split(query, "&") = <<p, r>>
    PROVE  Params(before, query) = AddParam(AddParam(before, p), r)
<1>1. Len(<<p, r>>) = 2 /\ <<p, r>>[1] = p /\ <<p, r>>[2] = r
    OBVIOUS
<1>2. PICK params : Params(before, query) = params[2] /\ Adds(before, <<p, r>>, params)
    BY <1>1, ParamsLoop
<1>3. params[0] = before
    BY <1>2 DEF Adds
<1>4. params[1] = AddParam(before, p)
    BY <1>1, <1>2, <1>3 DEF Adds
<1>5. params[2] = AddParam(params[1], r)
    BY <1>1, <1>2 DEF Adds
<1> QED
    BY <1>2, <1>4, <1>5

(* Where one separator stands.                                             *)
LEMMA SplitNone ==
    ASSUME NEW T, NEW s \in Seq(T), s # <<>>, NEW d, NoneIs(s, d, 1, Len(s))
    PROVE  Split(s, d) = <<s>>
<1>1. Split(s, d) = <<SubSeq(s, 1, Len(s))>>
    BY SplitParts DEF PartsOf
<1> QED
    BY <1>1, SubSeqFull

SplitsIn(s, d, a, b) == Split(s, d) = <<a, b>>

LEMMA SplitOne ==
    ASSUME NEW T, NEW s \in Seq(T), NEW d, NEW c \in 1 .. Len(s), s[c] = d,
           NoneIs(s, d, 1, c - 1), NoneIs(s, d, c + 1, Len(s)),
           NEW a, a = SubSeq(s, 1, c - 1), NEW b, b = SubSeq(s, c + 1, Len(s))
    PROVE  SplitsIn(s, d, a, b)
<1>1. s # <<>>
    OBVIOUS
<1>2. PartsOf(s, d, T, Len(s), Split(s, d))
    BY <1>1, SplitParts
<1> QED
    BY <1>2 DEF PartsOf, SplitsIn

(* A parameter: a name, a sign, and a value of one word or none.           *)
IsValue(v) == v = <<>> \/ (Len(v) = 1 /\ v[1] \notin Separators)

LEMMA ParamAdded ==
    ASSUME NEW T, NEW part \in Seq(T), NEW v \in Seq(T), IsValue(v), NEW name, name # "=",
           Len(part) = 2 + Len(v), part[1] = name, part[2] = "=", Len(v) = 1 => part[3] = v[1],
           NEW params
    PROVE  AddParam(params, part) = Put(params, <<name>>, Decode(TextOf(v)))
<1>1. Len(v) \in {0, 1} /\ Len(part) \in {2, 3}
    <2>1. Len(v) \in {0, 1}
        BY DEF IsValue
    <2>2. \A m \in {0, 1} : 2 + m \in {2, 3}
        OBVIOUS
    <2> QED
        BY <2>1, <2>2, Zenon
<1> DEFINE c == 2
<1>2. NoneIs(part, "=", 1, c - 1)
    BY DEF NoneIs
<1>3. NoneIs(part, "=", c + 1, Len(part))
    <2>1. "=" \in Separators
        BY Zenon DEF Separators
    <2>2. Len(part) = 2 \/ (Len(part) = 3 /\ Len(v) = 1)
        BY <1>1
    <2>3. 3 .. 2 = {} /\ 3 .. 3 = {3}
        OBVIOUS
    <2>4. Len(v) = 1 => v[1] \notin Separators
        BY DEF IsValue
    <2> QED
        BY <1>1, <2>1, <2>2, <2>3, <2>4 DEF NoneIs
<1>4. <<name>> = SubSeq(part, 1, c - 1)
    <2>1. SubSeq(part, 1, 1) \in Seq(T) /\ Len(SubSeq(part, 1, 1)) = 1 /\ SubSeq(part, 1, 1)[1] = name
        BY <1>1
    <2>2. name \in T /\ <<name>> \in Seq(T) /\ Len(<<name>>) = 1 /\ <<name>>[1] = name
        BY <1>1
    <2>3. \A i \in 1 .. 1 : SubSeq(part, 1, 1)[i] = <<name>>[i]
        BY <2>1, <2>2
    <2> QED
        BY <2>1, <2>2, <2>3, SeqEqual
<1>5. v = SubSeq(part, c + 1, Len(part))
    <2>1. /\ SubSeq(part, 3, Len(part)) \in Seq(T) /\ Len(SubSeq(part, 3, Len(part))) = Len(v)
          /\ \A i \in 1 .. Len(v) : SubSeq(part, 3, Len(part))[i] = part[i + 2]
        BY <1>1
    <2>2. \A i \in 1 .. Len(v) : part[i + 2] = v[i]
        BY <1>1
    <2> QED
        BY <2>1, <2>2, SeqEqual
<1>6. SplitsIn(part, "=", <<name>>, v)
    <2>1. c \in 1 .. Len(part) /\ part[c] = "="
        BY <1>1
    <2> DEFINE a == <<name>>
    <2>2. a = SubSeq(part, 1, c - 1)
        BY <1>4
    <2> HIDE DEF c, a
    <2>3. SplitsIn(part, "=", a, v)
        BY <1>2, <1>3, <1>5, <2>1, <2>2, SplitOne
    <2> QED
        BY <2>3 DEF a
<1> QED
    BY <1>6 DEF AddParam, SplitsIn

(* The parameters of a request: a query, and a page behind it or not.      *)
QueryOnly(before, q) == Put(before, <<"q">>, Decode(TextOf(q)))

LEMMA QueryParsed ==
    ASSUME NEW T, NEW q \in Seq(T), IsValue(q), NEW s \in Seq(T), Len(s) = 2 + Len(q),
           s[1] = "q", s[2] = "=", Len(q) = 1 => s[3] = q[1], NEW before
    PROVE  Params(before, s) = QueryOnly(before, q)
<1>1. Len(q) \in {0, 1} /\ Len(s) \in {2, 3} /\ s # <<>>
    BY DEF IsValue
<1>2. NoneIs(s, "&", 1, Len(s))
    <2>1. "&" \in Separators
        BY Zenon DEF Separators
    <2>2. Len(q) = 1 => s[3] \notin Separators
        BY DEF IsValue
    <2> QED
        BY <1>1, <2>1, <2>2 DEF NoneIs
<1>3. Params(before, s) = AddParam(before, s)
    BY <1>1, <1>2, SplitNone, ParamsOne
<1>4. AddParam(before, s) = Put(before, <<"q">>, Decode(TextOf(q)))
    BY ParamAdded
<1> QED
    BY <1>3, <1>4 DEF QueryOnly

LEMMA QueryAndPageParsed ==
    ASSUME NEW T, NEW q \in Seq(T), IsValue(q), NEW page \in T \ Separators,
           NEW s \in Seq(T), Len(s) = 6 + Len(q),
           s[1] = "q", s[2] = "=", Len(q) = 1 => s[3] = q[1],
           s[Len(q) + 3] = "&", s[Len(q) + 4] = "p", s[Len(q) + 5] = "=", s[Len(q) + 6] = page,
           NEW before
    PROVE  Params(before, s) =
             Put(QueryOnly(before, q), <<"p">>, Decode(TextOf(<<page>>)))
<1> DEFINE c == Len(q) + 3
           first == SubSeq(s, 1, c - 1)
           second == SubSeq(s, c + 1, Len(s))
<1>1. Len(q) \in {0, 1} /\ Len(s) \in {6, 7}
    <2>1. Len(q) \in {0, 1}
        BY DEF IsValue
    <2>2. \A m \in {0, 1} : 6 + m \in {6, 7}
        OBVIOUS
    <2> QED
        BY <2>1, <2>2, Zenon
<1>2. "&" \in Separators
    BY Zenon DEF Separators
<1>3. Len(q) = 1 => s[3] \notin Separators
    BY DEF IsValue
<1>4. NoneIs(s, "&", 1, c - 1)
    BY <1>1, <1>2, <1>3 DEF NoneIs
<1>5. NoneIs(s, "&", c + 1, Len(s))
    BY <1>1, <1>2 DEF NoneIs
<1>6. SplitsIn(s, "&", first, second)
    <2>1. c \in 1 .. Len(s) /\ s[c] = "&"
        BY <1>1
    <2> HIDE DEF first, second, c
    <2>2. first = SubSeq(s, 1, c - 1) /\ second = SubSeq(s, c + 1, Len(s))
        BY DEF first, second
    <2> QED
        BY <1>4, <1>5, <2>1, <2>2, SplitOne
<1>7. /\ first \in Seq(T) /\ Len(first) = 2 + Len(q)
      /\ first[1] = "q" /\ first[2] = "=" /\ (Len(q) = 1 => first[3] = q[1])
    BY <1>1
<1>8. /\ second \in Seq(T) /\ Len(second) = 3
      /\ second[1] = "p" /\ second[2] = "=" /\ second[3] = page
    BY <1>1
<1> HIDE DEF first, second
<1>9. AddParam(before, first) = QueryOnly(before, q)
    BY <1>7, ParamAdded DEF QueryOnly
<1>10. AddParam(QueryOnly(before, q), second) =
            Put(QueryOnly(before, q), <<"p">>, Decode(TextOf(<<page>>)))
    <2> DEFINE v == <<page>>
               name == "p"
    <2>1. v \in Seq(T) /\ IsValue(v) /\ Len(v) = 1 /\ v[1] = page /\ name # "="
        BY DEF IsValue
    <2> HIDE DEF v, name
    <2>2. Len(second) = 2 + Len(v) /\ second[1] = name /\ (Len(v) = 1 => second[3] = v[1])
        BY <1>8, <2>1 DEF name
    <2>3. AddParam(QueryOnly(before, q), second) = Put(QueryOnly(before, q), <<name>>, Decode(TextOf(v)))
        BY <1>8, <2>1, <2>2, ParamAdded
    <2> QED
        BY <2>3 DEF v, name
<1> QED
    BY <1>6, <1>9, <1>10, ParamsTwo DEF SplitsIn
=============================================================================
