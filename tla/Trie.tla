-------------------------------- MODULE Trie --------------------------------
(***************************************************************************)
(* Trie<int> (alias/dat/trie.h), the dictionary of suggestions: a tree     *)
(* whose edges are words of split_ch_words.  A trie is a function from its *)
(* nodes, each given by the words on the path to it, to their fields.      *)
(***************************************************************************)
EXTENDS StringUtil

(* Trie::Trie.  The constructor of trie_node sets nothing: garbage is what *)
(* the root's _status happens to be (every other node's is set to 0).      *)
NewTrie(garbage) == [p \in {<<>>} |-> [status |-> garbage, tval |-> 0]]

(* The node at the end of a title.                                         *)
End_Keep(trie, path, val) ==    \* mutant: a title that is there keeps its value
    IF path \in DOMAIN trie /\ trie[path].status = 1 THEN trie[path]
    ELSE [status |-> 1, tval |-> val]
End(trie, path, val) == [status |-> 1, tval |-> val]

(* insert, the nodes on the path, then the value at its end.               *)
Insert(trie, path, val) ==
    LET node(p) == IF p = path THEN End(trie, path, val)
                   ELSE IF p \in DOMAIN trie THEN trie[p]
                   ELSE [status |-> 0, tval |-> 0]
    IN  IF path = <<>> THEN trie
        ELSE [p \in DOMAIN trie \cup Prefixes(path) |-> node(p)]

(* build, for the lines of a file: a number and a title each.  built[i] is *)
(* what the first i lines make.                                            *)
Build(garbage, lines) ==
    LET built[i \in 0 .. Len(lines)] ==
            IF i = 0 THEN NewTrie(garbage)
            ELSE Insert(built[i - 1], SplitChWords(lines[i].title), lines[i].id)
    IN  built[Len(lines)]

(* The order in which dfs_search meets nodes: a node before those below    *)
(* it, siblings in the order of std::map's keys.                           *)
Before(p, q) ==
    LET a == FlattenSeq(p)
        b == FlattenSeq(q)
        differ == {i \in DOMAIN a \cap DOMAIN b : a[i] # b[i]}
    IN  \/ differ = {} /\ Len(a) < Len(b)
        \/ \E i \in differ : a[i] < b[i] /\ \A j \in differ : i <= j

(* Of some nodes, the one that has i - 1 of them before it.                *)
Nth(nodes, i) == CHOOSE p \in nodes : Cardinality({q \in nodes : Before(q, p)}) = i - 1

(* extract_search and dfs_search: the titles below the node of str, with   *)
(* str itself, spaces and all, in place of the path to that node.          *)
Search(trie, str) ==
    LET at    == SplitChWords(str)
        found == {p \in DOMAIN trie : IsPrefix(at, p) /\ trie[p].status = 1}
        Result(p) == [title |-> str \o FlattenSeq(SubSeq(p, Len(at) + 1, Len(p))),
                      id |-> trie[p].tval]
    IN  IF at \notin DOMAIN trie THEN <<>>
        ELSE [i \in 1 .. Cardinality(found) |-> Result(Nth(found, i))]
=============================================================================
