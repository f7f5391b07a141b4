---------------------------- MODULE StrategyConf ----------------------------
(***************************************************************************)
(* SubStrategyConfig (config/strategy_conf.cpp), which reads strategy.conf *)
(* line by line, and SubStrategyMgr::_init_strategies, which produces the  *)
(* strategies of every uri (plugin/strategy_mgr.cpp).  main looks at the   *)
(* result of neither.                                                      *)
(*                                                                         *)
(* A line is a section, [uri], or a strategy, name:level; the level is     *)
(* passed on and used nowhere.                                             *)
(***************************************************************************)
EXTENDS StringUtil

CONSTANT Uris       \* the uris, in the order of std::map's keys

ASSUME UrisAssumption ==
    /\ Uris \in Seq(STRING)
    /\ \A i, j \in DOMAIN Uris : Uris[i] = Uris[j] => i = j

Section(uri)   == [kind |-> "section", name |-> uri]
Strategy(name) == [kind |-> "strategy", name |-> name]

ConfLine == [kind : {"section", "strategy"}, name : STRING]

Known == {"TextStrategy", "RewriteStrategy", "SearchStrategy", "SuggestStrategy"}

(* The list of strategies when a section begins.                           *)
Cleared_Not(conf) == conf.vec   \* mutant
Cleared(conf) == <<>>

(* _read_conf_file: a section is stored when the next one begins, by       *)
(* insert, which keeps what an earlier section of that uri has stored; the *)
(* last one is stored by an assignment.  Empty sections are not stored.    *)
ReadLine(conf, line) ==
    IF line.kind = "strategy"
    THEN [conf EXCEPT !.vec = Append(@, line.name)]
    ELSE [dict |-> IF \/ conf.vec = <<>>
                      \/ conf.uri \in DOMAIN conf.dict
                   THEN conf.dict ELSE Put(conf.dict, conf.uri, conf.vec),
          uri  |-> line.name,
          vec  |-> Cleared(conf)]

ReadConfFile(lines) ==
    LET conf[i \in 0 .. Len(lines)] ==
            IF i = 0 THEN [dict |-> <<>>, uri |-> "", vec |-> <<>>]
            ELSE ReadLine(conf[i - 1], lines[i])
        last == conf[Len(lines)]
    IN  IF last.vec = <<>> THEN last.dict ELSE Put(last.dict, last.uri, last.vec)

(* _init_strategies: in the order of the uris, up to the first that names  *)
(* a strategy _produce does not know.                                      *)
InitStrategies(dict) ==
    LET IsKnown(u) == u \in DOMAIN dict => Range(dict[u]) \subseteq Known
        served == {i \in DOMAIN Uris : \A j \in 1 .. i : IsKnown(Uris[j])}
    IN  [u \in {Uris[i] : i \in served} \cap DOMAIN dict |-> dict[u]]

-----------------------------------------------------------------------------
IsSection(line) == line.kind = "section"

(* A file that begins with a section and has none twice.                   *)
NoRepeatedSection(lines) ==
    /\ lines # <<>> => IsSection(lines[1])
    /\ \A i, j \in DOMAIN lines : IsSection(lines[i]) /\ lines[i] = lines[j] => i = j

(* What such a file says: the strategies of a uri are the lines between    *)
(* its section and the next.                                               *)
IsSectionEnd(lines, i, j) ==
    /\ \A k \in i + 1 .. j : ~IsSection(lines[k])
    /\ j < Len(lines) => IsSection(lines[j + 1])

SectionEnd(lines, i) == CHOOSE j \in i .. Len(lines) : IsSectionEnd(lines, i, j)

NamesIn(lines, i, j) == [k \in 1 .. j - i |-> lines[i + k].name]

WrittenFor(lines, uri) ==
    LET i == CHOOSE i \in DOMAIN lines : lines[i] = Section(uri)
    IN  IF Section(uri) \in Range(lines) THEN NamesIn(lines, i, SectionEnd(lines, i)) ELSE <<>>

(* No section lists a strategy of this name twice.                         *)
ListedOnce(lines, name) ==
    \A i, j \in DOMAIN lines :
        /\ i < j /\ lines[i] = Strategy(name) /\ lines[j] = Strategy(name)
        => \E k \in i .. j : IsSection(lines[k])
=============================================================================
