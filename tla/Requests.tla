------------------------------ MODULE Requests ------------------------------
(***************************************************************************)
(* From the bytes of a request to its reply: the part of ReqTask::_run     *)
(* (task/req_task.cpp) that EpollServer leaves out.  A worker parses the   *)
(* request, and SubStrategyMgr::_run_uri runs the strategies of its uri,   *)
(* in order, on one Json object: TextStrategy puts the segments of the     *)
(* query there, SearchStrategy looks for them, SuggestStrategy asks the    *)
(* trie.  The uris, the index and the trie are read-only once the workers  *)
(* run; the tagger (WordSeg) and the lengths of the documents, which       *)
(* SearchStrategy reads with operator[], are shared.                       *)
(***************************************************************************)
EXTENDS SearchIndex, StrategyConf, SubConf, SearchPage, Trie

CONSTANTS
    Confs,          \* strategy.conf and sub.conf: two sequences of lines
    SuggestFiles,   \* suggestion files: sequences of titles with their ids
    MaxSuggestCnt,  \* MAX_SUGGEST_CNT
    RootStatus,     \* what the _status of the trie's root happens to be
    Queries,        \* what clients send: the text of q,
    Pages           \*   the number p as a token, or NoPage
NoPage == "no page"

(* A worker is the number of its thread.  What clients send is text in     *)
(* bytes, and the token of a page has no '%'.                              *)
ASSUME RequestsAssumption ==
    /\ Workers \subseteq Nat \ {0}
    /\ Confs \subseteq [strategy : Seq(ConfLine), sub : Seq(Seq(STRING))]
    /\ SuggestFiles \subseteq Seq([id : Int, title : Seq(0 .. 255)])
    /\ MaxSuggestCnt \in Nat
    /\ "GET" \in Upper /\ Range(Uris) \subseteq Word
    /\ \A t \in Word : Text(t) \in Seq(0 .. 255)
    /\ Queries \subseteq Seq(0 .. 255)
    /\ \A p \in Pages \ {NoPage} : p \in Word /\ Percent \notin Range(Text(p))

VARIABLES
    confs, suggest_file,        \* the files read at start-up
    conf_dict,      \* _conf_dict of SubConfig
    uri_map,        \* _uri_strategies_map
    index_dict,     \* _index_dict, term -> documents
    doc_length,     \* uri -> the documents in the _doc_length_dict of its
                    \*   SearchStrategy, an object all workers use
    trie,           \* _suggest_dict
    pc,             \* worker -> "idle", "run", or "text" in TextStrategy
    sent,           \* worker -> what the client of its request meant
    request,        \* worker -> what the parser made of it
    next,           \* worker -> the loop index of _run_uri
    root            \* worker -> the Json object, a function on its members

startUpVars == <<confs, suggest_file, conf_dict, uri_map, index_dict, trie>>
vars == <<startUpVars, doc_length, pc, sent, request, next, root, segVars>>

Uri == Range(Uris)
Null == <<>>        \* an empty Json value

(* The dictionaries on the disk.                                           *)
Files ==
    [path \in {<<"index.dict">>, <<"doc_length.dict">>, <<"suggest.dict">>} |->
        CASE path = <<"index.dict">>      -> IndexDict
          [] path = <<"doc_length.dict">> -> DocLengthDict
          [] path = <<"suggest.dict">>    -> suggest_file]

(* The dictionary in the file that sub.conf names under this key.          *)
Configured(key) == LoadDict(Files, GetConfVal(conf_dict, key))

(* main: the configuration, the dictionaries and the strategies, before    *)
(* any worker runs.  Every SearchStrategy copies the dictionaries.         *)
(* TextStrategy's constructor makes the tagger.                            *)
Init ==
    /\ confs \in Confs
    /\ suggest_file \in SuggestFiles
    /\ conf_dict = ReadSubConf(confs.sub)
    /\ uri_map = InitStrategies(ReadConfFile(confs.strategy))
    /\ index_dict = Configured("index_file")
    /\ doc_length = [u \in {u \in DOMAIN uri_map : "SearchStrategy" \in Range(uri_map[u])}
                        |-> Configured("doc_length_file")]
    /\ trie = Build(RootStatus, Configured("suggest_file"))
    /\ pc = [w \in Workers |-> "idle"]
    /\ sent = [w \in Workers |-> Null]
    /\ request = [w \in Workers |-> Null]
    /\ next = [w \in Workers |-> 0]
    /\ root = [w \in Workers |-> Null]
    /\ SegInit

-----------------------------------------------------------------------------
(* A client's request: the text of q, as it is, if it has no '%', or       *)
(* encoded, and a page.                                                    *)
Meant == [uri : Uri, q : Queries, page : Pages]

Line(tokens) == tokens \o <<"CR", "LF">>

Format(meant, q) ==
    LET page == IF meant.page = NoPage THEN <<>> ELSE <<"&", "p", "=", meant.page>>
    IN  Line(<<"GET", " ", meant.uri, "?", "q", "=">> \o q \o page \o <<" ", "HTTP/1.1">>)
          \o Line(<<"Host", ":", " ", "svr", ":", "9000">>) \o Line(<<>>)

Spells(t, q) == Text(t) = Encode(q) \/ (Text(t) = q /\ Percent \notin Range(q))

Spelling(q) == IF q = <<>> THEN {<<>>} ELSE {<<t>> : t \in {u \in Word : Spells(u, q)}}

(* All that may arrive, and what the parser makes of it.                   *)
Arriving ==
    UNION {{[meant |-> m, parsed |-> Parse(Format(m, q))] : q \in Spelling(m.q)} : m \in Meant}

(* ReqTask::_run up to the loop of _run_uri, in one of the threads that    *)
(* SubThreadPool::_start has created.                                      *)
TakeRequest(w) ==
    /\ w <= GetThreadCnt(conf_dict)
    /\ pc[w] = "idle"
    /\ \E r \in Arriving :
        /\ sent' = [sent EXCEPT ![w] = r.meant]
        /\ request' = [request EXCEPT ![w] = r.parsed]
    /\ pc' = [pc EXCEPT ![w] = "run"]
    /\ next' = [next EXCEPT ![w] = 1]
    /\ UNCHANGED <<startUpVars, doc_length, root, segVars>>

(* _run_uri returns SUB_FAIL, which nobody looks at, for an unknown uri.   *)
Strategies(w) ==
    LET url == request[w].request.url
    IN  IF url \in {<<u>> : u \in DOMAIN uri_map} THEN uri_map[url[1]] ELSE <<>>

(* The loop of _run_uri has come to this strategy.                         *)
Runs(w, name) ==
    /\ pc[w] = "run"
    /\ next[w] <= Len(Strategies(w))
    /\ Strategies(w)[next[w]] = name

Advance(w, object) ==
    /\ root' = [root EXCEPT ![w] = object]
    /\ next' = [next EXCEPT ![w] = @ + 1]

(* TextStrategy::_process up to the call of segment.                       *)
TextBegin(w) ==
    /\ Runs(w, "TextStrategy")
    /\ root' = [root EXCEPT ![w] = Put(@, "text", "yes")]
    /\ Segment(w, SplitChWords(GetQuery(request[w].request)))
    /\ pc' = [pc EXCEPT ![w] = "text"]
    /\ UNCHANGED <<startUpVars, doc_length, sent, request, next>>

TextSegment(w) ==
    /\ pc[w] = "text"
    /\ SegStep(w)
    /\ UNCHANGED <<startUpVars, doc_length, pc, sent, request, next, root>>

Seg(w) == IF "seg" \in DOMAIN root[w] THEN root[w]["seg"] ELSE Null

(* The segments are appended to root["seg"], which only they create.       *)
TextEnd(w) ==
    /\ pc[w] = "text"
    /\ seg_pc[w] = "done"
    /\ Advance(w, IF seg_results[w] = <<>> THEN root[w]
                  ELSE Put(root[w], "seg", Seg(w) \o seg_results[w]))
    /\ SegReturn(w)
    /\ pc' = [pc EXCEPT ![w] = "run"]
    /\ UNCHANGED <<startUpVars, doc_length, sent, request>>

Rewrite(w) ==
    /\ Runs(w, "RewriteStrategy")
    /\ Advance(w, Put(root[w], "rewrite", "yes"))
    /\ UNCHANGED <<startUpVars, doc_length, pc, sent, request, segVars>>

(* The documents SearchStrategy::_process finds for the segments.          *)
Found(seg) == UNION {index_dict[t] : t \in Range(seg) \cap DOMAIN index_dict}

(* SearchStrategy::_process: the documents, best first, are cut into pages. *)
SearchReply(seg, asked) ==
    LET tot_cnt == Cardinality(Found(seg))
        page == Paging(tot_cnt, asked)
    IN  IF seg = Null THEN [msg |-> "seg_error"]
        ELSE IF page.begin = page.end THEN [msg |-> "none"]
        ELSE [msg |-> "ok", tot_cnt |-> tot_cnt, tot_page |-> PageCnt(tot_cnt),
              begin |-> page.begin, end |-> page.end,
              bef_page |-> page.bef_page, nxt_page |-> page.nxt_page]

(* operator[] of a map of numbers: keys that are not there are inserted.   *)
LookedUp(dict, keys) ==
    [k \in DOMAIN dict \cup keys |-> IF k \in DOMAIN dict THEN dict[k] ELSE 0]

(* root["seg"] is there afterwards in any case.  Looking up a length may   *)
(* insert it (line 63).                                                    *)
SearchRun(w) ==
    /\ Runs(w, "SearchStrategy")
    /\ doc_length' = [doc_length EXCEPT ![request[w].request.url[1]] =
                        LookedUp(@, Found(Seg(w)))]
    /\ Advance(w, Put(Put(root[w], "seg", Seg(w)),
                      "search", SearchReply(Seg(w), GetPage(request[w].request))))
    /\ UNCHANGED <<startUpVars, pc, sent, request, segVars>>

(* SuggestStrategy::_process.                                              *)
Suggest(w) ==
    LET ret == Search(trie, GetQuery(request[w].request))
    IN  /\ Runs(w, "SuggestStrategy")
        /\ Advance(w, Put(root[w], "suggest",
                SubSeq(ret, 1, IF Len(ret) < MaxSuggestCnt THEN Len(ret) ELSE MaxSuggestCnt)))
        /\ UNCHANGED <<startUpVars, doc_length, pc, sent, request, segVars>>

(* The end of _run_uri: the Json object is the body of the response.       *)
Replying(w) == pc[w] = "run" /\ next[w] > Len(Strategies(w))

Reply(w) ==
    /\ Replying(w)
    /\ pc' = [pc EXCEPT ![w] = "idle"]
    /\ sent' = [sent EXCEPT ![w] = Null]
    /\ request' = [request EXCEPT ![w] = Null]
    /\ next' = [next EXCEPT ![w] = 0]
    /\ root' = [root EXCEPT ![w] = Null]
    /\ UNCHANGED <<startUpVars, doc_length, segVars>>

Serve(w) ==
    \/ TextBegin(w) \/ TextSegment(w) \/ TextEnd(w)
    \/ Rewrite(w) \/ SearchRun(w) \/ Suggest(w)
    \/ Reply(w)

Next == \E w \in Workers : TakeRequest(w) \/ Serve(w)

(* A worker that has a request goes on; whether there is one is up to the  *)
(* clients.                                                                *)
Fairness == \A w \in Workers : WF_vars(Serve(w))

Spec == Init /\ [][Next]_vars /\ Fairness

-----------------------------------------------------------------------------
(* What some of the properties below need of the files and the clients.    *)

(* No section lists TextStrategy twice: its second run would append the    *)
(* segments to those of the first.                                         *)
TextOnce == \A c \in Confs : ListedOnce(c.strategy, "TextStrategy")

(* sub.conf gives the lengths of the documents as such, and no other       *)
(* dictionary as the index.                                                *)
DictionariesNamed ==
    \A c \in Confs :
        /\ SubWrittenFor(c.sub, "doc_length_file") = <<"doc_length.dict">>
        /\ SubWrittenFor(c.sub, "index_file") \notin {<<"doc_length.dict">>, <<"suggest.dict">>}

(* sub.conf gives no dictionary of the search as that of the suggestions.  *)
SuggestionsNamed ==
    \A c \in Confs :
        SubWrittenFor(c.sub, "suggest_file") \notin {<<"index.dict">>, <<"doc_length.dict">>}

(* No query breaks off inside a character of three bytes: the titles that  *)
(* are appended to it would be read differently.                           *)
QueriesWhole ==
    \A q \in Queries : \A i \in {Len(q) - 1, Len(q)} \cap DOMAIN q : q[i] \notin 224 .. 239

(* Pages are counted from 1; SearchStrategy does not reject others.        *)
PagesFromOne == \A p \in Pages \ {NoPage} : Atoi(Text(p)) \in Nat \ {0}

-----------------------------------------------------------------------------
(* Properties *)

(* The page a client asks for.                                             *)
Asked(meant) == IF meant.page = NoPage THEN 1 ELSE Atoi(Text(meant.page))

TypeOK ==
    /\ confs \in Confs /\ suggest_file \in SuggestFiles
    /\ DOMAIN doc_length \subseteq DOMAIN uri_map /\ DOMAIN uri_map \subseteq Uri
    /\ pc \in [Workers -> {"idle", "run", "text"}]
    /\ \A w \in Workers :
        /\ pc[w] # "idle" => sent[w] \in Meant /\ ~request[w].beyond
        /\ DOMAIN root[w] \subseteq {"text", "seg", "rewrite", "search", "suggest"}
        /\ pc[w] # "text" <=> seg_pc[w] = "idle"
    /\ SegTypeOK

(* main ignores what _init_strategies returns, so this is all that holds:  *)
(* a uri runs the strategies its section lists, in their order, unless it, *)
(* or a uri before it, lists an unknown one (strategy_conf.cpp 26-43,      *)
(* strategy_mgr.cpp 36-66).  The index and the trie are made from the file *)
(* that the last line with their key names, and as many threads serve as   *)
(* sub.conf says (config.cpp 16-53, dict_mgr.h 79-159).                    *)
ConfAsWritten ==
    LET Rejected(i) == ~(Range(WrittenFor(confs.strategy, Uris[i])) \subseteq Known)
        Says(key) == SubWrittenFor(confs.sub, key)
    IN  /\ NoRepeatedSection(confs.strategy) =>
            \A i \in DOMAIN Uris :
                (IF Uris[i] \in DOMAIN uri_map THEN uri_map[Uris[i]] ELSE <<>>)
                    = IF \E j \in 1 .. i : Rejected(j) THEN <<>>
                      ELSE WrittenFor(confs.strategy, Uris[i])
        /\ index_dict = LoadDict(Files, Says("index_file"))
        /\ trie = Build(RootStatus, LoadDict(Files, Says("suggest_file")))
        /\ \A w \in Workers : pc[w] # "idle" =>
            w <= IF Says("thread_cnt") = <<>> THEN 5 ELSE Atoi(TextOf(Says("thread_cnt")))

(* What the reply to w's request may rely on: the strategies of its uri.   *)
Run(w) == IF sent[w].uri \in DOMAIN uri_map THEN uri_map[sent[w].uri] ELSE <<>>

(* However the workers share the tagger, and however the query is spelled, *)
(* a reply has the members of the strategies of its uri, and the segments  *)
(* are those of its own query (req_task.cpp 53-59, wordseg.cpp 63-87).     *)
ReplyIsOfItsRequest ==
    \A w \in Workers : Replying(w) =>
        LET has == DOMAIN root[w] IN
        /\ "text" \in has <=> "TextStrategy" \in Range(Run(w))
        /\ "rewrite" \in has <=> "RewriteStrategy" \in Range(Run(w))
        /\ "search" \in has <=> "SearchStrategy" \in Range(Run(w))
        /\ "suggest" \in has <=> "SuggestStrategy" \in Range(Run(w))
        /\ Seg(w) # Null =>
            "text" \in has /\ Seg(w) = SegmentsOf(sent[w].q)

(* From the documents to the reply: a search that had segments shows, of   *)
(* the documents that share a segment with the query, those of the page    *)
(* that was asked for, or of the last page, and says which page is next    *)
(* (build_index.cpp 33-93, dict_mgr.h 131-157, search_strategy.cpp 45-102). *)
PageAsAsked ==
    \A w \in Workers : Replying(w) /\ "search" \in DOMAIN root[w] =>
        LET reply   == root[w]["search"]
            results == IF index_dict = <<>> THEN {} ELSE Sharing(sent[w].q)
            ranks   == 1 .. Cardinality(results)
            asked   == Asked(sent[w])
            OnPage(p) == {n \in ranks : (p - 1) * 20 < n /\ n <= p * 20}
            shown   == {n \in ranks : reply.begin < n /\ n <= reply.end}
        IN  /\ reply.msg = "none" => results = {}
            /\ reply.msg = "ok" =>
                /\ shown # {}
                /\ shown = IF OnPage(asked) # {} THEN OnPage(asked)
                           ELSE OnPage(reply.tot_page)
                /\ OnPage(reply.tot_page + 1) = {}
                /\ OnPage(asked + 1) # {} => reply.nxt_page = asked + 1

(* The suggestions for a query that is not empty: the titles of the file   *)
(* that begin with it (spaces apart), each with the number of its last     *)
(* line, in the order of their bytes (trie.h 40-96, suggest_strategy.cpp). *)
SuggestionsMatch ==
    \A w \in Workers : Replying(w) /\ "suggest" \in DOMAIN root[w] =>
        LET ws(s)   == SplitChWords(s)
            at      == ws(sent[w].q)
            loaded  == IF Cardinality(DOMAIN trie) > 1 THEN DOMAIN suggest_file ELSE {}
            IsLast(i) == \A j \in loaded :
                            ws(suggest_file[j].title) = ws(suggest_file[i].title) => j <= i
            fitting == {i \in loaded :
                            IsLast(i) /\ IsPrefix(at, ws(suggest_file[i].title))}
            reply   == root[w]["suggest"]
        IN  at # <<>> =>
                /\ Len(reply) <= MaxSuggestCnt
                /\ Len(reply) = MaxSuggestCnt \/ Len(reply) = Cardinality(fitting)
                /\ \A k \in DOMAIN reply : \E i \in fitting :
                    /\ reply[k].id = suggest_file[i].id
                    /\ ws(reply[k].title) = ws(suggest_file[i].title)
                /\ \A k \in 1 .. Len(reply) - 1 :
                    Before(ws(reply[k].title), ws(reply[k + 1].title))

(* The workers share the dictionaries without a lock, so no search may     *)
(* change them; what the builder files for a term always has a length      *)
(* (search_strategy.cpp 63, build_index.cpp 40, 66-70).                    *)
DictionariesReadOnly == [][doc_length' = doc_length]_doc_length

(* No worker keeps the tagger, also when it fails to parse                 *)
(* (wordseg.cpp 70-74, 87).                                                *)
TaggerIsReleased == \A w \in Workers : seg_mutex = w ~> seg_mutex # w
=============================================================================
