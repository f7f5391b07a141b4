----------------------------- MODULE MCRequests -----------------------------
(* Requests for TLC: the configuration files of the repository and of its  *)
(* README, and some others; queries of one- and three-byte characters.     *)
EXTENDS Requests

a == 97
b == 98
Han == <<228, 184, 173>>
Guo == <<229, 155, 189>>

MCUpper == {"GET"}
MCWord ==
    {"GET", "/", "/search", "/suggest", "q", "p", "2", "9", "HTTP/1.1", "Host", "svr", "9000",
     "ba", "ahan", "a%E4%B8%AD", "b%20%E4%B8%AD%E5%9B%BD",
     "index_file", "doc_length_file", "suggest_file", "thread_cnt", "C", "1",
     "old.dict", "index.dict", "doc_length.dict", "suggest.dict"}
MCText(t) ==
    CASE t = "1" -> <<49>>
      [] t = "2" -> <<50>>
      [] t = "9" -> <<57>>
      [] t = "ba" -> <<b, a>>
      [] t = "ahan" -> <<a>> \o Han
      [] t = "a%E4%B8%AD" -> <<a, 37, 69, 52, 37, 66, 56, 37, 65, 68>>
      [] t = "b%20%E4%B8%AD%E5%9B%BD" ->
            <<b, 37, 50, 48, 37, 69, 52, 37, 66, 56, 37, 65, 68,
              37, 69, 53, 37, 57, 66, 37, 66, 68>>
      [] OTHER -> <<a, a>>

MCQueries == {<<b, a>>, <<a>> \o Han, <<b, Space>> \o Han \o Guo}
MCPages == {NoPage, "2"}

MCUris == <<"/", "/search", "/suggest">>

(* conf/strategy.conf *)
RepositoryConf ==
    <<Section("/suggest"), Strategy("SuggestStrategy"),
      Section("/"), Strategy("TextStrategy"), Strategy("RewriteStrategy"),
      Section("/search"), Strategy("TextStrategy"), Strategy("RewriteStrategy"),
      Strategy("SearchStrategy")>>
(* An empty section, a search in front of the text.                        *)
SearchFirst ==
    <<Section("/suggest"), Section("/"), Strategy("SearchStrategy"), Strategy("TextStrategy")>>
(* An unknown strategy.                                                    *)
UnknownStrategy ==
    <<Section("/suggest"), Strategy("SuggestStrategy"),
      Section("/search"), Strategy("TextStrategy"), Strategy("CacheStrategy"),
      Section("/"), Strategy("RewriteStrategy"), Strategy("SuggestStrategy")>>
(* A section that comes twice.                                             *)
Repeated ==
    <<Section("/"), Strategy("TextStrategy"), Section("/search"), Strategy("RewriteStrategy"),
      Section("/"), Strategy("RewriteStrategy")>>

(* conf/sub.conf, with so many threads, and one that has no line for them, *)
(* two for the index, and a suggestion file with a colon in its path.      *)
SubLine(key, val) == <<key, ":", val>>
RepositorySub(threads) ==
    <<SubLine("index_file", "index.dict"), SubLine("doc_length_file", "doc_length.dict"),
      SubLine("suggest_file", "suggest.dict"), SubLine("thread_cnt", threads)>>
OddSub ==
    <<SubLine("index_file", "old.dict"), SubLine("doc_length_file", "doc_length.dict"),
      <<"suggest_file", ":", "C", ":", "suggest.dict">>, <<>>, <<"thread_cnt">>,
      SubLine("index_file", "index.dict"), <<"index_file", ":", "old.dict", ":", "C">>>>

MCConfs ==
    {[strategy |-> RepositoryConf, sub |-> RepositorySub("2")],
     [strategy |-> RepositoryConf, sub |-> RepositorySub("1")],
     [strategy |-> SearchFirst, sub |-> RepositorySub("2")],
     [strategy |-> UnknownStrategy, sub |-> OddSub],
     [strategy |-> Repeated, sub |-> OddSub]}

Title(id, t) == [id |-> id, title |-> t]
MCSuggestFiles ==
    {<<Title(1, <<b, a>>), Title(2, <<b>>), Title(3, <<b, Space, a>>),
       Title(4, <<b, b>>), Title(5, <<b>> \o Han \o Guo \o <<a>>)>>}

(* 'a' alone never ends a segment.                                         *)
MCEnds(ws, i) == ws[i] # <<a>>

(* Twenty documents on the second query, twenty-one more on the third, one *)
(* of them twice, one on the first; lines without or with too many tabs.   *)
Document(id, text) == <<48 + (id \div 10), 48 + (id % 10), Tab>> \o text
MCDocuments ==
    [i \in 1 .. 20 |-> Document(i, <<a>> \o Han)]
        \o [i \in 1 .. 21 |-> Document(30 + i, IF i < 12 THEN Han ELSE <<b>> \o Guo)]
        \o [i \in 1 .. 20 |-> Document(60 + i, Guo \o <<a, b>>)]
        \o <<Document(51, Han \o Guo), Document(90, <<b>>),
             <<55>>, Document(91, <<>>), Document(92, Guo \o <<Tab, b>>)>>

(* The theorems about Requests speak of this instance.                     *)
ASSUME SupposedByTheorems ==
    TextOnce /\ DictionariesNamed /\ SuggestionsNamed /\ QueriesWhole /\ PagesFromOne
=============================================================================
