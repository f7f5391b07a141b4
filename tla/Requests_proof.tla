--------------------------- MODULE Requests_proof ---------------------------
(***************************************************************************)
(* From a request to its reply, for any number of workers, any model of    *)
(* the tagger, any documents and any queries.                              *)
(***************************************************************************)
EXTENDS Requests, HttpParser_proof, FiniteSetTheorems

-----------------------------------------------------------------------------
(* What the parser makes of a request.                                     *)

(* The tokens a client writes.                                             *)
Token == Word \cup Separators \cup {"q", "p", "HTTP/1.1", "Host", "svr", "9000"}

LEMMA TokensAre ==
    /\ {"q", "p", "HTTP/1.1", "Host", "svr", "9000", "CR", "LF", "?", "&", "=", ":", Blank} \subseteq Token
    /\ "GET" \in Token \ Separators
    /\ {"CR", "LF", "?", "&", "=", ":", Blank} \subseteq Separators
    /\ Word \subseteq Token /\ Word \cap Separators = {}
<1>1. {"CR", "LF", "?", "&", "=", ":", Blank} \subseteq Separators
    BY Zenon DEF Separators, Blank
<1>2. {"q", "p", "HTTP/1.1", "Host", "svr", "9000"} \subseteq Token /\ Word \subseteq Token
    BY Zenon DEF Token
<1>3. Separators \subseteq Token
    BY Zenon DEF Token
<1>4. "GET" \in Word /\ Word \cap Separators = {}
    BY RequestsAssumption, ParserAssumption
<1> QED
    BY <1>1, <1>2, <1>3, <1>4

PageTokens(page) == IF page = NoPage THEN <<>> ELSE <<"&", "p", "=", page>>
QueryTokens(page, q) == <<"q", "=">> \o q \o PageTokens(page)
Target(meant, q) == <<meant.uri, "?">> \o QueryTokens(meant.page, q)
Headers == <<"Host", ":", Blank, "svr", ":", "9000", "CR", "LF", "CR", "LF">>

LEMMA FormatIs ==
    ASSUME NEW meant, NEW q
    PROVE  Format(meant, q) =
             ((<<"GET", Blank, meant.uri, "?", "q", "=">> \o q \o PageTokens(meant.page)
                 \o <<Blank, "HTTP/1.1">>) \o <<"CR", "LF">>)
               \o (<<"Host", ":", Blank, "svr", ":", "9000">> \o <<"CR", "LF">>)
               \o (<<>> \o <<"CR", "LF">>)
    BY Zenon DEF Format, Line, PageTokens, Blank

LEMMA PageTokensAre ==
    ASSUME NEW page \in Pages
    PROVE  /\ PageTokens(page) \in Seq(Token)
           /\ \A i \in 1 .. Len(PageTokens(page)) :
                PageTokens(page)[i] \notin {Blank, "CR", "LF", "?"}
           /\ page = NoPage => Len(PageTokens(page)) = 0
           /\ page # NoPage =>
                /\ Len(PageTokens(page)) = 4 /\ PageTokens(page)[1] = "&"
                /\ PageTokens(page)[2] = "p" /\ PageTokens(page)[3] = "="
                /\ PageTokens(page)[4] = page
                /\ page \in Token \ Separators
<1>1. CASE page = NoPage
    BY <1>1 DEF PageTokens
<1>2. CASE page # NoPage
    <2>1. page \in Word
        BY <1>2, RequestsAssumption
    <2>2. page \in Token \ Separators
        BY <2>1, TokensAre
    <2>3. PageTokens(page) = <<"&", "p", "=", page>>
        BY <1>2 DEF PageTokens
    <2>4. page \notin {Blank, "CR", "LF", "?"}
        BY <2>2, TokensAre
    <2>5. {"&", "p", "="} \cap {Blank, "CR", "LF", "?"} = {}
        BY BlankIs
    <2>6. <<"&", "p", "=", page>> \in Seq(Token)
        BY <2>2, TokensAre
    <2> DEFINE tokens == <<"&", "p", "=", page>>
    <2>7. /\ Len(tokens) = 4 /\ tokens[1] = "&" /\ tokens[2] = "p" /\ tokens[3] = "="
          /\ tokens[4] = page
        OBVIOUS
    <2> HIDE DEF tokens
    <2>8. \A i \in 1 .. Len(tokens) : tokens[i] \notin {Blank, "CR", "LF", "?"}
        <3>1. \A i \in 1 .. 4 : i = 1 \/ i = 2 \/ i = 3 \/ i = 4
            OBVIOUS
        <3> QED
            BY <2>4, <2>5, <2>7, <3>1
    <2> QED
        BY <1>2, <2>2, <2>3, <2>6, <2>7, <2>8 DEF tokens
<1> QED
    BY <1>1, <1>2

(* How a query is written: as a value that is decoded to it.               *)
LEMMA SpellingIs ==
    ASSUME NEW text \in Seq(Byte), NEW q \in Spelling(text)
    PROVE  q \in Seq(Token) /\ IsValue(q) /\ Decode(TextOf(q)) = text
<1>1. CASE text = <<>>
    <2>1. q = <<>>
        BY <1>1 DEF Spelling
    <2>2. NoneIs(text, Percent, 1, Len(text))
        BY <1>1 DEF NoneIs
    <2>3. Decode(text) = text
        BY <2>2, DecodePlain
    <2> QED
        BY <1>1, <2>1, <2>3, TextOfOne DEF IsValue
<1>2. CASE text # <<>>
    <2>1. PICK t \in Word : q = <<t>> /\ Spells(t, text)
        BY <1>2 DEF Spelling
    <2>2. Text(t) \in Seq(Byte)
        BY <2>1, RequestsAssumption DEF Byte
    <2>3. TextOf(q) = Text(t)
        BY <2>1, <2>2, TextOfOne
    <2>4. Decode(Text(t)) = text
        <3>1. CASE Text(t) = Encode(text)
            BY <3>1, DecodeEncode
        <3>2. CASE Text(t) = text /\ Percent \notin Range(text)
            <4>1. NoneIs(text, Percent, 1, Len(text))
                BY <3>2 DEF NoneIs, Range
            <4> QED
                BY <3>2, <4>1, DecodePlain
        <3> QED
            BY <2>1, <3>1, <3>2 DEF Spells
    <2>5. t \in Token /\ t \notin Separators
        BY TokensAre
    <2>6. q \in Seq(Token) /\ IsValue(q)
        BY <2>1, <2>5 DEF IsValue
    <2> QED
        BY <2>3, <2>4, <2>6
<1> QED
    BY <1>1, <1>2

(* Where the elements of a concatenation come from.                        *)
Joins(T, a, b, c) ==
    /\ c \in Seq(T) /\ Len(a) \in Nat /\ Len(b) \in Nat /\ Len(c) = Len(a) + Len(b)
    /\ \A i \in 1 .. Len(a) : c[i] = a[i]
    /\ \A i \in 1 .. Len(b) : \A j \in Nat : j = Len(a) + i => c[j] = b[i]

LEMMA Joined ==
    ASSUME NEW T, NEW a \in Seq(T), NEW b \in Seq(T), NEW c, c = a \o b
    PROVE  Joins(T, a, b, c)
<1>1. /\ Len(a) \in Nat /\ Len(b) \in Nat /\ c \in Seq(T) /\ Len(c) = Len(a) + Len(b)
      /\ \A i \in 1 .. Len(a) : c[i] = a[i]
    BY ConcatProperties
<1>2. ASSUME NEW i \in 1 .. Len(b), NEW j \in Nat, j = Len(a) + i PROVE c[j] = b[i]
    BY <1>1, <1>2
<1> QED
    BY <1>1, <1>2 DEF Joins

LEMMA RequestIs ==
    ASSUME NEW meant \in Meant, NEW q \in Seq(Token), IsValue(q)
    PROVE  /\ Format(meant, q) \in Seq(Token) /\ Target(meant, q) \in Seq(Token)
           /\ Headers \in Seq(Token) /\ Len(Headers) = 10
           /\ IsRequest(Format(meant, q), "GET", Target(meant, q), "HTTP/1.1", Headers)
<1> DEFINE page == PageTokens(meant.page)
           first == <<"GET", Blank, meant.uri, "?", "q", "=">>
           version == <<Blank, "HTTP/1.1">>
           end == <<"CR", "LF">>
           header == <<"Host", ":", Blank, "svr", ":", "9000">>
           t0 == <<"q", "=">>
           t1 == t0 \o q
           t2 == t1 \o page
           t3 == <<meant.uri, "?">>
           target == t3 \o t2
           s1 == first \o q
           s2 == s1 \o page
           s3 == s2 \o version
           s4 == s3 \o end
           h1 == header \o end
           h2 == <<>> \o end
           s5 == s4 \o h1
           buf == s5 \o h2
           n == Len(target)
<1>1. page \in Seq(Token) /\ meant.uri \in Token
    BY PageTokensAre, TokensAre, RequestsAssumption DEF Meant, Uri
<1>2. /\ first \in Seq(Token) /\ Len(first) = 6
      /\ first[1] = "GET" /\ first[2] = Blank /\ first[3] = meant.uri /\ first[4] = "?"
      /\ first[5] = "q" /\ first[6] = "="
    BY <1>1, TokensAre
<1>3. /\ version \in Seq(Token) /\ Len(version) = 2 /\ version[1] = Blank /\ version[2] = "HTTP/1.1"
      /\ end \in Seq(Token) /\ Len(end) = 2 /\ end[1] = "CR" /\ end[2] = "LF"
      /\ <<>> \in Seq(Token) /\ Len(<<>>) = 0
    BY TokensAre
<1>4. /\ header \in Seq(Token) /\ Len(header) = 6 /\ \A i \in 1 .. 6 : header[i] = Headers[i]
      /\ Headers \in Seq(Token) /\ Len(Headers) = 10
      /\ Headers[7] = "CR" /\ Headers[8] = "LF" /\ Headers[9] = "CR" /\ Headers[10] = "LF"
    BY TokensAre DEF Headers
<1>5. /\ t0 \in Seq(Token) /\ Len(t0) = 2 /\ t0[1] = "q" /\ t0[2] = "="
      /\ t3 \in Seq(Token) /\ Len(t3) = 2 /\ t3[1] = meant.uri /\ t3[2] = "?"
    BY <1>1, TokensAre
<1>6. Format(meant, q) = buf /\ Target(meant, q) = target
    BY FormatIs DEF Target, QueryTokens
<1> HIDE DEF page, first, version, end, header, t0, t1, t2, t3, target, s1, s2, s3, s4, s5, h1, h2, buf
<1>7. /\ Len(q) \in Nat /\ Len(page) \in Nat
      /\ t1 \in Seq(Token) /\ Len(t1) = 2 + Len(q)
      /\ \A i \in 1 .. 2 : t1[i] = t0[i]
      /\ \A i \in 1 .. Len(q) : \A j \in Nat : j = 2 + i => t1[j] = q[i]
    <2>1. t1 = t0 \o q
        BY DEF t1
    <2>2. Joins(Token, t0, q, t1)
        BY <1>1, <1>5, <2>1, Joined
    <2> QED
        BY <1>1, <1>5, <2>2 DEF Joins
<1>8. /\ t2 \in Seq(Token) /\ Len(t2) = 2 + Len(q) + Len(page)
      /\ \A i \in 1 .. 2 + Len(q) : t2[i] = t1[i]
      /\ \A i \in 1 .. Len(page) : \A j \in Nat : j = 2 + Len(q) + i => t2[j] = page[i]
    <2>1. t2 = t1 \o page
        BY DEF t2
    <2>2. Joins(Token, t1, page, t2)
        BY <1>1, <1>7, <2>1, Joined
    <2> QED
        BY <1>1, <1>7, <2>2 DEF Joins
<1>9. /\ target \in Seq(Token) /\ n = 4 + Len(q) + Len(page) /\ n \in Nat
      /\ \A i \in 1 .. 2 : target[i] = t3[i]
      /\ \A i \in 1 .. 2 + Len(q) + Len(page) : \A j \in Nat : j = 2 + i => target[j] = t2[i]
    <2>1. target = t3 \o t2
        BY DEF target
    <2>2. Joins(Token, t3, t2, target)
        BY <1>5, <1>7, <1>8, <2>1, Joined
    <2> QED
        BY <1>5, <1>7, <1>8, <2>2 DEF Joins
<1>10. /\ s1 \in Seq(Token) /\ Len(s1) = 6 + Len(q)
       /\ \A i \in 1 .. 6 : s1[i] = first[i]
       /\ \A i \in 1 .. Len(q) : \A j \in Nat : j = 6 + i => s1[j] = q[i]
    <2>1. s1 = first \o q
        BY DEF s1
    <2>2. Joins(Token, first, q, s1)
        BY <1>2, <2>1, Joined
    <2> QED
        BY <1>2, <2>2 DEF Joins
<1>11. /\ s2 \in Seq(Token) /\ Len(s2) = n + 2
       /\ \A i \in 1 .. 6 + Len(q) : s2[i] = s1[i]
       /\ \A i \in 1 .. Len(page) : \A j \in Nat : j = 6 + Len(q) + i => s2[j] = page[i]
    <2>1. s2 = s1 \o page
        BY DEF s2
    <2>2. Joins(Token, s1, page, s2)
        BY <1>1, <1>7, <1>9, <1>10, <2>1, Joined
    <2> QED
        BY <1>1, <1>7, <1>9, <1>10, <2>2 DEF Joins
<1>12. /\ s3 \in Seq(Token) /\ Len(s3) = n + 4 /\ \A i \in 1 .. n + 2 : s3[i] = s2[i]
       /\ s3[n + 3] = Blank /\ s3[n + 4] = "HTTP/1.1"
    <2>1. s3 = s2 \o version
        BY DEF s3
    <2>2. Joins(Token, s2, version, s3)
        BY <1>3, <1>9, <1>11, <2>1, Joined
    <2> QED
        BY <1>3, <1>9, <1>11, <2>2 DEF Joins
<1>13. /\ s4 \in Seq(Token) /\ Len(s4) = n + 6 /\ \A i \in 1 .. n + 4 : s4[i] = s3[i]
       /\ s4[n + 5] = "CR" /\ s4[n + 6] = "LF"
    <2>1. s4 = s3 \o end
        BY DEF s4
    <2>2. Joins(Token, s3, end, s4)
        BY <1>3, <1>9, <1>12, <2>1, Joined
    <2> QED
        BY <1>3, <1>9, <1>12, <2>2 DEF Joins
<1>14. /\ h1 \in Seq(Token) /\ Len(h1) = 8 /\ \A i \in 1 .. 8 : h1[i] = Headers[i]
    <2>1. /\ h1 \in Seq(Token) /\ Len(h1) = 8 /\ \A i \in 1 .. 6 : h1[i] = header[i]
          /\ h1[7] = "CR" /\ h1[8] = "LF"
        <3>1. h1 = header \o end
            BY DEF h1
        <3>2. Joins(Token, header, end, h1)
            BY <1>3, <1>4, <3>1, Joined
        <3> QED
            BY <1>3, <1>4, <3>2 DEF Joins
    <2>2. \A i \in 1 .. 8 : i \in 1 .. 6 \/ i = 7 \/ i = 8
        OBVIOUS
    <2> QED
        BY <1>4, <2>1, <2>2
<1>15. h2 \in Seq(Token) /\ Len(h2) = 2 /\ h2[1] = "CR" /\ h2[2] = "LF"
    BY <1>3, Joined DEF h2
<1>16. /\ s5 \in Seq(Token) /\ Len(s5) = n + 14 /\ \A i \in 1 .. n + 6 : s5[i] = s4[i]
       /\ \A i \in 1 .. 8 : \A j \in Nat : j = n + 6 + i => s5[j] = Headers[i]
    <2>1. s5 = s4 \o h1
        BY DEF s5
    <2>2. Joins(Token, s4, h1, s5)
        BY <1>9, <1>13, <1>14, <2>1, Joined
    <2>3. ASSUME NEW i \in 1 .. 8, NEW j \in Nat, j = n + 6 + i PROVE s5[j] = Headers[i]
        <3>1. i \in 1 .. Len(h1) /\ j = Len(s4) + i
            BY <1>9, <1>13, <1>14, <2>3
        <3>2. s5[j] = h1[i]
            BY <2>2, <3>1 DEF Joins
        <3> QED
            BY <1>14, <3>2
    <2> QED
        BY <1>9, <1>13, <1>14, <2>2, <2>3 DEF Joins
<1>17. /\ buf \in Seq(Token) /\ Len(buf) = n + 16 /\ \A i \in 1 .. n + 14 : buf[i] = s5[i]
       /\ buf[n + 15] = "CR" /\ buf[n + 16] = "LF"
    <2>1. buf = s5 \o h2
        BY DEF buf
    <2>2. Joins(Token, s5, h2, buf)
        BY <1>9, <1>15, <1>16, <2>1, Joined
    <2> QED
        BY <1>9, <1>15, <1>16, <2>2 DEF Joins
<1>18. \A i \in 1 .. n + 2 : buf[i] = s2[i]
    BY <1>9, <1>12, <1>13, <1>16, <1>17
<1>19. buf[1] = "GET" /\ buf[2] = Blank
    BY <1>2, <1>7, <1>9, <1>10, <1>11, <1>18
<1>20. ASSUME NEW i \in 1 .. n PROVE buf[i + 2] = target[i]
    <2>1. i + 2 \in 1 .. n + 2 /\ buf[i + 2] = s2[i + 2]
        BY <1>9, <1>18
    <2>2. CASE i = 1 \/ i = 2
        <3>1. /\ target[1] = meant.uri /\ target[2] = "?"
              /\ s2[3] = meant.uri /\ s2[4] = "?"
            <4>1. target[1] = meant.uri /\ target[2] = "?"
                BY <1>5, <1>9
            <4>2. \A k \in 1 .. 6 : s2[k] = first[k]
                BY <1>7, <1>10, <1>11, SMTT(30)
            <4> QED
                BY <1>2, <4>1, <4>2
        <3> QED
            BY <2>1, <2>2, <3>1
    <2>3. CASE i = 3 \/ i = 4
        <3>1. /\ target[3] = "q" /\ target[4] = "="
              /\ s2[5] = "q" /\ s2[6] = "="
            BY <1>2, <1>5, <1>7, <1>8, <1>9, <1>10, <1>11, SMTT(30)
        <3> QED
            BY <2>1, <2>3, <3>1
    <2>4. CASE i \in 5 .. 4 + Len(q)
        <3>1. PICK k \in 1 .. Len(q) : i = k + 4
            <4>1. i - 4 \in 1 .. Len(q) /\ i = (i - 4) + 4
                BY <1>7, <2>4
            <4> QED
                BY <4>1
        <3>2. t1[k + 2] = q[k] /\ t2[k + 2] = t1[k + 2] /\ target[i] = t2[k + 2]
            BY <1>7, <1>8, <1>9, <3>1
        <3>3. s2[i + 2] = s1[i + 2] /\ s1[i + 2] = q[k]
            <4> DEFINE j == i + 2
            <4>1. j \in Nat /\ j = 6 + k /\ j \in 1 .. 6 + Len(q)
                BY <1>7, <3>1
            <4> HIDE DEF j
            <4>2. s2[j] = s1[j] /\ s1[j] = q[k]
                BY <1>10, <1>11, <4>1
            <4> QED
                BY <4>2 DEF j
        <3> QED
            BY <2>1, <3>2, <3>3
    <2>5. CASE i \in 5 + Len(q) .. n
        <3>1. PICK k \in 1 .. Len(page) : i = k + 4 + Len(q)
            <4>1. i - (4 + Len(q)) \in 1 .. Len(page) /\ i = (i - (4 + Len(q))) + 4 + Len(q)
                BY <1>7, <1>9, <2>5
            <4> QED
                BY <4>1
        <3>2. t2[k + 2 + Len(q)] = page[k] /\ target[i] = t2[k + 2 + Len(q)]
            BY <1>7, <1>8, <1>9, <3>1
        <3>3. s2[i + 2] = page[k]
            BY <1>7, <1>11, <3>1
        <3> QED
            BY <2>1, <3>2, <3>3
    <2> QED
        BY <1>7, <1>9, <2>2, <2>3, <2>4, <2>5
<1>21. /\ buf[n + 3] = Blank /\ buf[n + 4] = "HTTP/1.1"
       /\ buf[n + 5] = "CR" /\ buf[n + 6] = "LF"
    <2>1. \A i \in 1 .. n + 6 : buf[i] = s4[i]
        BY <1>9, <1>16, <1>17
    <2>2. n + 3 \in 1 .. n + 4 /\ n + 4 \in 1 .. n + 4
        BY <1>9
    <2>3. /\ n + 3 \in 1 .. n + 6 /\ n + 4 \in 1 .. n + 6
          /\ n + 5 \in 1 .. n + 6 /\ n + 6 \in 1 .. n + 6
        BY <1>9
    <2>4. s4[n + 3] = s3[n + 3] /\ s4[n + 4] = s3[n + 4]
        BY <1>13, <2>2
    <2> QED
        BY <1>12, <1>13, <2>1, <2>3, <2>4
<1>22. ASSUME NEW i \in 1 .. 10 PROVE buf[n + 6 + i] = Headers[i]
    <2>1. CASE i \in 1 .. 8
        <3>1. n + 6 + i \in 1 .. n + 14 /\ n + 6 + i \in Nat
            BY <1>9, <2>1
        <3>2. s5[n + 6 + i] = Headers[i]
            BY <1>16, <2>1, <3>1
        <3> QED
            BY <1>17, <3>1, <3>2
    <2>2. CASE i = 9 \/ i = 10
        BY <1>4, <1>9, <1>17, <2>2
    <2> QED
        BY <2>1, <2>2
<1>23. IsRequest(buf, "GET", target, "HTTP/1.1", Headers)
    BY <1>4, <1>9, <1>17, <1>19, <1>20, <1>21, <1>22 DEF IsRequest
<1> QED
    BY <1>4, <1>6, <1>9, <1>17, <1>23

(* The parser does not leave the data of a request that arrives, and finds *)
(* in it what its client meant, however the query is spelled               *)
(* (http_parse.cpp 24-213, http_parse.h 139-160).                          *)
ReadsAsMeant(parsed, meant) ==
    /\ ~parsed.beyond
    /\ parsed.request.url = <<meant.uri>>
    /\ GetQuery(parsed.request) = meant.q
    /\ GetPage(parsed.request) = Asked(meant)

THEOREM RequestReadAsMeant ==
    ASSUME NEW r \in Arriving
    PROVE  ReadsAsMeant(r.parsed, r.meant)
<1>0. PICK meant \in Meant :
        \E q \in Spelling(meant.q) : r = [meant |-> meant, parsed |-> Parse(Format(meant, q))]
    BY Zenon DEF Arriving
<1>1. PICK q \in Spelling(meant.q) : r = [meant |-> meant, parsed |-> Parse(Format(meant, q))]
    BY <1>0
<1> DEFINE buf == Format(meant, q)
           target == Target(meant, q)
           tokens == QueryTokens(meant.page, q)
           page == PageTokens(meant.page)
           n == Len(target)
           desc == ParseDesc(buf, NewRequest)
           before == NewRequest.params
<1>2. q \in Seq(Token) /\ IsValue(q) /\ Decode(TextOf(q)) = meant.q
    <2>1. meant.q \in Seq(Byte)
        BY RequestsAssumption DEF Meant, Byte
    <2> QED
        BY <2>1, SpellingIs
<1>3. /\ buf \in Seq(Token) /\ target \in Seq(Token) /\ Headers \in Seq(Token) /\ Len(Headers) = 10
      /\ IsRequest(buf, "GET", target, "HTTP/1.1", Headers)
    BY <1>2, RequestIs
<1>4. /\ page \in Seq(Token)
      /\ \A i \in 1 .. Len(page) : page[i] \notin {Blank, "CR", "LF", "?"}
      /\ meant.page = NoPage => Len(page) = 0
      /\ meant.page # NoPage =>
            /\ Len(page) = 4 /\ page[1] = "&" /\ page[2] = "p" /\ page[3] = "="
            /\ page[4] = meant.page /\ meant.page \in Token \ Separators
    BY PageTokensAre DEF Meant
<1>5. meant.uri \in Word /\ meant.uri \in Token \ Separators
    BY RequestsAssumption, TokensAre DEF Meant, Uri
<1>6. /\ tokens \in Seq(Token) /\ Len(tokens) = 2 + Len(q) + Len(page) /\ Len(q) \in Nat /\ Len(page) \in Nat
      /\ tokens[1] = "q" /\ tokens[2] = "="
      /\ \A i \in 1 .. Len(q) : \A j \in Nat : j = 2 + i => tokens[j] = q[i]
      /\ \A i \in 1 .. Len(page) : \A j \in Nat : j = 2 + Len(q) + i => tokens[j] = page[i]
    <2> DEFINE t0 == <<"q", "=">>
               t1 == t0 \o q
    <2>1. t0 \in Seq(Token) /\ Len(t0) = 2 /\ t0[1] = "q" /\ t0[2] = "="
        BY TokensAre
    <2>2. tokens = t1 \o page
        BY DEF QueryTokens
    <2> HIDE DEF t0, page
    <2>3. Joins(Token, t0, q, t1)
        BY <1>2, <2>1, Joined
    <2> HIDE DEF t1, tokens
    <2>4. Joins(Token, t1, page, tokens)
        BY <1>4, <2>2, <2>3, Joined, SMTT(30) DEF Joins
    <2>5. Len(t1) = 2 + Len(q) /\ Len(q) \in Nat /\ t1[1] = "q" /\ t1[2] = "="
        BY <2>1, <2>3 DEF Joins
    <2>6. \A i \in 1 .. Len(q) : \A j \in Nat : j = 2 + i => t1[j] = q[i]
        BY <2>1, <2>3 DEF Joins
    <2>7. \A i \in 1 .. 2 + Len(q) : tokens[i] = t1[i]
        BY <2>4, <2>5 DEF Joins
    <2>8. tokens[1] = "q" /\ tokens[2] = "="
        BY <2>5, <2>7
    <2>9. \A i \in 1 .. Len(q) : \A j \in Nat : j = 2 + i => tokens[j] = q[i]
        BY <2>5, <2>6, <2>7
    <2> QED
        BY <2>4, <2>5, <2>8, <2>9 DEF Joins
<1>7. /\ n = 2 + Len(tokens) /\ target[1] = meant.uri /\ target[2] = "?"
      /\ \A i \in 1 .. Len(tokens) : \A j \in Nat : j = 2 + i => target[j] = tokens[i]
    <2> DEFINE t3 == <<meant.uri, "?">>
    <2>1. t3 \in Seq(Token) /\ Len(t3) = 2 /\ t3[1] = meant.uri /\ t3[2] = "?"
        BY <1>5, TokensAre
    <2>2. target = t3 \o tokens
        BY DEF Target
    <2> HIDE DEF t3, tokens, target
    <2>3. Joins(Token, t3, tokens, target)
        BY <1>6, <2>1, <2>2, Joined
    <2> QED
        BY <2>1, <2>3 DEF Joins
<1> HIDE DEF buf, target, tokens, page, desc
<1>8. \A i \in 1 .. Len(tokens) : tokens[i] \notin {Blank, "CR", "?"}
    <2> SUFFICES ASSUME NEW i \in 1 .. Len(tokens) PROVE tokens[i] \notin {Blank, "CR", "?"}
        OBVIOUS
    <2>1. CASE i = 1 \/ i = 2
        BY <1>6, <2>1, BlankIs
    <2>2. CASE i \in 3 .. 2 + Len(q)
        <3>1. i - 2 \in 1 .. Len(q) /\ i = 2 + (i - 2)
            BY <1>6, <2>2
        <3>2. tokens[i] = q[i - 2]
            BY <1>6, <3>1
        <3>3. Len(q) = 1 /\ q[1] \notin Separators
            <4>1. Len(q) # 0 /\ Len(<<>>) = 0
                BY <1>6, <2>2
            <4> QED
                BY <1>2, <4>1, Zenon DEF IsValue
        <3>4. i - 2 = 1
            BY <3>1, <3>3
        <3> QED
            BY <3>2, <3>3, <3>4, TokensAre
    <2>3. CASE i \in 3 + Len(q) .. Len(tokens)
        <3>1. PICK k \in 1 .. Len(page) : i = 2 + Len(q) + k
            <4>1. i - (2 + Len(q)) \in 1 .. Len(page) /\ i = 2 + Len(q) + (i - (2 + Len(q)))
                BY <1>6, <2>3
            <4> QED
                BY <4>1
        <3>2. tokens[i] = page[k]
            BY <1>6, <3>1
        <3> QED
            BY <1>4, <3>2
    <2> QED
        BY <1>6, <2>1, <2>2, <2>3
<1>9. /\ target # <<>> /\ n \in Nat
      /\ NoneIs(target, Blank, 1, n) /\ NoneIs(target, "CR", 1, n) /\ NoneIs(target, "?", 3, n)
    <2>1. n >= 4 /\ n \in Nat
        BY <1>6, <1>7
    <2>2. ASSUME NEW i \in 3 .. n PROVE target[i] \notin {Blank, "CR", "?"}
        <3>1. i - 2 \in 1 .. Len(tokens) /\ i = 2 + (i - 2)
            BY <1>6, <1>7
        <3>2. target[i] = tokens[i - 2]
            BY <1>7, <3>1
        <3> QED
            BY <1>8, <3>1, <3>2
    <2>3. target[1] \notin {Blank, "CR"} /\ target[2] \notin {Blank, "CR"}
        BY <1>5, <1>7, TokensAre, BlankIs
    <2>4. \A i \in 1 .. n : i = 1 \/ i = 2 \/ i \in 3 .. n
        BY <2>1
    <2>5. target # <<>>
        BY <2>1
    <2> QED
        BY <2>1, <2>2, <2>3, <2>4, <2>5 DEF NoneIs
<1>10. Split(target, "?") = << <<meant.uri>>, tokens>>
    <2> DEFINE a == <<meant.uri>>
               c == 2
    <2>1. c \in 1 .. n /\ target[c] = "?"
        BY <1>6, <1>7, <1>9
    <2>2. NoneIs(target, "?", 1, c - 1)
        BY <1>5, <1>7, TokensAre DEF NoneIs
    <2>3. a = SubSeq(target, 1, c - 1)
        <3>1. /\ SubSeq(target, 1, 1) \in Seq(Token) /\ Len(SubSeq(target, 1, 1)) = 1
              /\ SubSeq(target, 1, 1)[1] = meant.uri
            BY <1>3, <1>7, <2>1
        <3>2. a \in Seq(Token) /\ Len(a) = 1 /\ a[1] = meant.uri
            BY <1>5
        <3>3. \A i \in 1 .. 1 : SubSeq(target, 1, 1)[i] = a[i]
            BY <3>1, <3>2
        <3> QED
            BY <3>1, <3>2, <3>3, SeqEqual
    <2>4. tokens = SubSeq(target, c + 1, n)
        <3>1. /\ SubSeq(target, 3, n) \in Seq(Token) /\ Len(SubSeq(target, 3, n)) = Len(tokens)
              /\ \A i \in 1 .. Len(tokens) : SubSeq(target, 3, n)[i] = target[i + 2]
            BY <1>3, <1>6, <1>7, <1>9
        <3>2. \A i \in 1 .. Len(tokens) : target[i + 2] = tokens[i]
            BY <1>6, <1>7
        <3> QED
            BY <1>6, <3>1, <3>2, SeqEqual
    <2>5. NoneIs(target, "?", c + 1, n)
        BY <1>9
    <2> HIDE DEF a, c
    <2>6. SplitsIn(target, "?", a, tokens)
        BY <1>3, <2>1, <2>2, <2>3, <2>4, <2>5, SplitOne
    <2> QED
        BY <2>6 DEF SplitsIn, a
<1>11. /\ desc.end = n + 7 /\ desc.request.url = <<meant.uri>>
       /\ desc.request.params = Params(before, tokens)
    <2>1. "GET" \in Upper
        BY RequestsAssumption
    <2>2. "HTTP/1.1" # "CR" /\ "HTTP/1.1" # Blank
        BY Zenon DEF Blank
    <2> HIDE DEF before
    <2>3. /\ desc.end = n + 7
          /\ desc.request.url = Split(target, "?")[1]
          /\ desc.request.params = ParamsOf(NewRequest.params, Split(target, "?"))
        BY <1>3, <1>9, <2>1, <2>2, DescParsed DEF desc
    <2> QED
        BY <1>10, <2>3 DEF ParamsOf, before
<1>12. HeadersEnd(buf, n + 7)
    <2> DEFINE start == n + 7
    <2>0. Len(buf) = n + 6 + Len(Headers)
        BY <1>3, Zenon DEF IsRequest
    <2>1. start \in Nat \ {0} /\ Len(buf) = start + 9
        BY <1>3, <1>9, <2>0
    <2>2. \A i \in 1 .. 10 : buf[n + 6 + i] = Headers[i]
        BY <1>3 DEF IsRequest
    <2>3. /\ buf[start] = "Host" /\ buf[start + 1] = ":"
          /\ buf[start + 2] = Blank /\ buf[start + 3] = "svr" /\ buf[start + 4] = ":"
          /\ buf[start + 5] = "9000" /\ buf[start + 6] = "CR" /\ buf[start + 7] = "LF"
          /\ buf[start + 8] = "CR" /\ buf[start + 9] = "LF"
        <3>1. /\ n + 6 + 1 = start /\ n + 6 + 2 = start + 1 /\ n + 6 + 3 = start + 2
              /\ n + 6 + 4 = start + 3 /\ n + 6 + 5 = start + 4 /\ n + 6 + 6 = start + 5
              /\ n + 6 + 7 = start + 6 /\ n + 6 + 8 = start + 7 /\ n + 6 + 9 = start + 8
              /\ n + 6 + 10 = start + 9
            BY <1>9
        <3>2. /\ Headers[1] = "Host" /\ Headers[2] = ":" /\ Headers[3] = Blank
              /\ Headers[4] = "svr" /\ Headers[5] = ":" /\ Headers[6] = "9000"
              /\ Headers[7] = "CR" /\ Headers[8] = "LF" /\ Headers[9] = "CR" /\ Headers[10] = "LF"
            BY DEF Headers
        <3> HIDE DEF start
        <3> QED
            BY <2>2, <3>1, <3>2
    <2>4. \A k \in start + 2 .. start + 5 :
            k = start + 2 \/ k = start + 3 \/ k = start + 4 \/ k = start + 5
        BY <2>1
    <2> HIDE DEF start
    <2>5. HeadersEnd(buf, start)
        BY <1>3, <2>1, <2>3, <2>4, BlankIs, HeadersEndIn
    <2> QED
        BY <2>5 DEF start
<1>13. r.meant = meant /\ r.parsed.request = desc.request /\ ~r.parsed.beyond
    BY <1>1, <1>11, <1>12 DEF Parse, desc, buf
<1>14. before[<<"p">>] = <<Zero + 1>> /\ DOMAIN before = {<<"q">>, <<"p">>} /\ <<"q">> # <<"p">>
    BY DEF NewRequest
<1> HIDE DEF before
<1>15. /\ Params(before, tokens)[<<"q">>] = meant.q
       /\ Atoi(Params(before, tokens)[<<"p">>]) = Asked(meant)
    <2>1. \A i \in {1} : Len(q) = 1 => tokens[3] = q[1]
        BY <1>6
    <2>2. CASE meant.page = NoPage
        <3>1. Params(before, tokens) = QueryOnly(before, q)
            BY <1>2, <1>4, <1>6, <2>1, <2>2, QueryParsed
        <3>2. /\ QueryOnly(before, q)[<<"q">>] = meant.q
              /\ QueryOnly(before, q)[<<"p">>] = <<Zero + 1>>
            BY <1>2, <1>14 DEF QueryOnly, Put
        <3> QED
            BY <2>2, <3>1, <3>2, AtoiOne DEF Asked
    <2>3. CASE meant.page # NoPage
        <3>1. /\ Len(tokens) = 6 + Len(q)
              /\ tokens[Len(q) + 3] = "&" /\ tokens[Len(q) + 4] = "p"
              /\ tokens[Len(q) + 5] = "=" /\ tokens[Len(q) + 6] = meant.page
            BY <1>4, <1>6, <2>3, SMTT(30)
        <3> DEFINE token == meant.page
                   value == Decode(TextOf(<<token>>))
        <3>2. Params(before, tokens) = Put(QueryOnly(before, q), <<"p">>, value)
            <4>1. token \in Token \ Separators
                BY <1>4, <2>3
            <4>2. tokens[Len(q) + 6] = token
                BY <3>1
            <4> HIDE DEF token
            <4> QED
                BY <1>2, <1>6, <2>1, <3>1, <4>1, <4>2, QueryAndPageParsed
        <3>3. value = Text(token)
            <4>1. token \in Word /\ Percent \notin Range(Text(token)) /\ Text(token) \in Seq(Byte)
                BY <2>3, RequestsAssumption DEF Meant, Byte
            <4>2. NoneIs(Text(token), Percent, 1, Len(Text(token)))
                BY <4>1 DEF NoneIs, Range
            <4> HIDE DEF token
            <4> QED
                BY <4>1, <4>2, TextOfOne, DecodePlain
        <3> HIDE DEF value
        <3>4. /\ Put(QueryOnly(before, q), <<"p">>, value)[<<"q">>] = meant.q
              /\ Put(QueryOnly(before, q), <<"p">>, value)[<<"p">>] = value
            BY <1>2, <1>14 DEF QueryOnly, Put
        <3> QED
            BY <2>3, <3>2, <3>3, <3>4 DEF Asked
    <2> QED
        BY <2>2, <2>3
<1> QED
    BY <1>11, <1>13, <1>15 DEF ReadsAsMeant, GetQuery, GetPage

-----------------------------------------------------------------------------
(* sub.conf: what a line says.                                             *)
LEMMA LineSays ==
    ASSUME NEW line \in Seq(STRING), NEW key, key # ":"
    PROVE  LET parts == Split(line, ":")
           IN  /\ SaysOf(line, key) =>
                    IsPair(parts) /\ parts[1] = <<key>> /\ parts[2] = SubSeq(line, 3, Len(line))
               /\ IsPair(parts) /\ parts[1] = <<key>> => SaysOf(line, key)
<1> DEFINE parts == Split(line, ":")
           n == Len(line)
<1>1. CASE line = <<>>
    BY <1>1 DEF Split, IsPair, SaysOf
<1>2. CASE line # <<>>
    <2>1. PartsOf(line, ":", STRING, n, parts) /\ n \in Nat
        BY <1>2, SplitParts
    <2> HIDE DEF parts
    <2>2. ASSUME SaysOf(line, key)
          PROVE  IsPair(parts) /\ parts[1] = <<key>> /\ parts[2] = SubSeq(line, 3, Len(line))
        <3> DEFINE c == 2
        <3>1. /\ c \in 1 .. n /\ line[c] = ":"
              /\ NoneIs(line, ":", 1, c - 1) /\ NoneIs(line, ":", c + 1, n)
            BY <2>1, <2>2 DEF SaysOf, NoneIs
        <3>2. parts = <<SubSeq(line, 1, c - 1), SubSeq(line, c + 1, n)>>
            <4> HIDE DEF c
            <4> QED
                BY <2>1, <3>1 DEF PartsOf
        <3>3. SubSeq(line, 1, 1) = <<key>>
            <4>1. /\ SubSeq(line, 1, 1) \in Seq(STRING) /\ Len(SubSeq(line, 1, 1)) = 1
                  /\ SubSeq(line, 1, 1)[1] = key
                BY <2>1, <2>2 DEF SaysOf
            <4>2. <<key>> \in Seq(STRING) /\ Len(<<key>>) = 1 /\ <<key>>[1] = key
                <5>1. key = line[1] /\ line[1] \in STRING
                    BY <2>1, <2>2 DEF SaysOf
                <5> QED
                    BY <5>1
            <4>3. \A i \in 1 .. 1 : SubSeq(line, 1, 1)[i] = <<key>>[i]
                BY <4>1, <4>2
            <4> QED
                BY <4>1, <4>2, <4>3, SeqEqual
        <3> QED
            BY <3>2, <3>3 DEF IsPair
    <2>3. ASSUME IsPair(parts), parts[1] = <<key>> PROVE SaysOf(line, key)
        <3>0. Len(parts) = 2
            BY <2>3 DEF IsPair
        <3>1. \E c \in 1 .. n : line[c] = ":"
            <4>1. ~ NoneIs(line, ":", 1, n)
                <5>1. Len(<<SubSeq(line, 1, n)>>) = 1
                    OBVIOUS
                <5>2. NoneIs(line, ":", 1, n) => parts = <<SubSeq(line, 1, n)>>
                    BY <2>1, Zenon DEF PartsOf
                <5>3. NoneIs(line, ":", 1, n) => Len(parts) = 1
                    BY <5>1, <5>2, Zenon
                <5> QED
                    BY <3>0, <5>3
            <4> QED
                BY <4>1 DEF NoneIs
        <3>2. PICK c \in 1 .. n : line[c] = ":"
            BY <3>1
        <3>3. \A e \in 1 .. n : line[e] = ":" => e = c
            <4> SUFFICES ASSUME NEW e \in 1 .. n, line[e] = ":", e # c PROVE FALSE
                OBVIOUS
            <4>1. c < e \/ e < c
                BY <2>1
            <4>2. Len(parts) >= 3
                BY <2>1, <3>2, <4>1 DEF PartsOf
            <4> QED
                BY <3>0, <4>2
        <3>4. NoneIs(line, ":", 1, c - 1) /\ NoneIs(line, ":", c + 1, n)
            BY <2>1, <3>3 DEF NoneIs
        <3>5. parts = <<SubSeq(line, 1, c - 1), SubSeq(line, c + 1, n)>>
            BY <2>1, <3>2, <3>4 DEF PartsOf
        <3>6. SubSeq(line, 1, c - 1) = <<key>>
            BY <2>3, <3>5
        <3>7. c = 2 /\ line[1] = key
            <4>1. Len(SubSeq(line, 1, c - 1)) = c - 1
                BY <2>1, <3>2
            <4>2. Len(<<key>>) = 1 /\ <<key>>[1] = key
                OBVIOUS
            <4>3. c = 2
                <5>1. Len(SubSeq(line, 1, c - 1)) = 1
                    BY <3>6, <4>2, Zenon
                <5> QED
                    BY <4>1, <5>1
            <4>4. SubSeq(line, 1, 1)[1] = line[1]
                BY <2>1, <4>3
            <4>5. SubSeq(line, 1, c - 1) = SubSeq(line, 1, 1)
                BY <4>3
            <4> QED
                BY <3>6, <4>2, <4>3, <4>4, <4>5, Zenon
        <3> QED
            BY <2>1, <3>2, <3>3, <3>7 DEF SaysOf
    <2> QED
        BY <2>2, <2>3 DEF parts
<1> QED
    BY <1>1, <1>2

(* What has been read of a key when i lines have been read.                *)
Dictionaries == UNION {[D -> Seq(STRING)] : D \in SUBSET Seq(STRING)}

ReadOf(dict, lines, key, i) ==
    \/ /\ <<key>> \notin DOMAIN dict
       /\ \A j \in 1 .. i : ~SaysOf(lines[j], key)
    \/ \E j \in 1 .. i :
        /\ SaysOf(lines[j], key) /\ \A k \in j + 1 .. i : ~SaysOf(lines[k], key)
        /\ <<key>> \in DOMAIN dict /\ dict[<<key>>] = SubSeq(lines[j], 3, Len(lines[j]))

LEMMA ReadLineOf ==
    ASSUME NEW lines \in Seq(Seq(STRING)), NEW key, key # ":",
           NEW i \in Nat, NEW upto \in 1 .. Len(lines), upto = i + 1,
           NEW dict, ReadOf(dict, lines, key, i)
    PROVE  ReadOf(ReadSubLine(dict, lines[upto]), lines, key, upto)
<1> DEFINE line == lines[upto]
           parts == Split(line, ":")
           read == ReadSubLine(dict, line)
<1>1. line \in Seq(STRING)
    OBVIOUS
<1>2. /\ SaysOf(line, key) =>
            IsPair(parts) /\ parts[1] = <<key>> /\ parts[2] = SubSeq(line, 3, Len(line))
      /\ IsPair(parts) /\ parts[1] = <<key>> => SaysOf(line, key)
    BY <1>1, LineSays
<1>3. read = IF IsPair(parts) THEN Put(dict, parts[1], parts[2]) ELSE dict
    BY DEF ReadSubLine
<1> HIDE DEF parts, read
<1>4. CASE SaysOf(line, key)
    <2>1. <<key>> \in DOMAIN read /\ read[<<key>>] = SubSeq(line, 3, Len(line))
        BY <1>2, <1>3, <1>4 DEF Put
    <2>2. \A k \in upto + 1 .. upto : ~SaysOf(lines[k], key)
        OBVIOUS
    <2>3. upto \in 1 .. upto
        OBVIOUS
    <2> QED
        BY <1>4, <2>1, <2>2, <2>3 DEF ReadOf, read
<1>5. CASE ~SaysOf(line, key)
    <2>1. /\ <<key>> \in DOMAIN read <=> <<key>> \in DOMAIN dict
          /\ <<key>> \in DOMAIN dict => read[<<key>>] = dict[<<key>>]
        BY <1>2, <1>3, <1>5 DEF Put
    <2>2. CASE <<key>> \notin DOMAIN dict /\ \A j \in 1 .. i : ~SaysOf(lines[j], key)
        <3>1. \A j \in 1 .. upto : ~SaysOf(lines[j], key)
            BY <1>5, <2>2
        <3> QED
            BY <2>1, <2>2, <3>1 DEF ReadOf, read
    <2>3. ASSUME NEW j \in 1 .. i, SaysOf(lines[j], key),
                 \A k \in j + 1 .. i : ~SaysOf(lines[k], key),
                 <<key>> \in DOMAIN dict, dict[<<key>>] = SubSeq(lines[j], 3, Len(lines[j]))
          PROVE  ReadOf(ReadSubLine(dict, lines[upto]), lines, key, upto)
        <3>1. j \in 1 .. upto /\ \A k \in j + 1 .. upto : ~SaysOf(lines[k], key)
            BY <1>5, <2>3
        <3> QED
            BY <2>1, <2>3, <3>1 DEF ReadOf, read
    <2> QED
        BY <2>2, <2>3 DEF ReadOf
<1> QED
    BY <1>4, <1>5

LEMMA ReadSubLineType ==
    ASSUME NEW dict \in Dictionaries, NEW line \in Seq(STRING)
    PROVE  ReadSubLine(dict, line) \in Dictionaries
<1> DEFINE parts == Split(line, ":")
<1>1. PICK D \in SUBSET Seq(STRING) : dict \in [D -> Seq(STRING)]
    BY DEF Dictionaries
<1>2. CASE ~IsPair(parts)
    BY <1>2 DEF ReadSubLine
<1>3. CASE IsPair(parts)
    <2>1. parts \in Seq(Seq(STRING))
        <3>1. CASE line = <<>>
            BY <3>1 DEF Split
        <3>2. CASE line # <<>>
            BY <3>2, SplitParts DEF PartsOf
        <3> QED
            BY <3>1, <3>2
    <2>2. Len(parts) = 2
        BY <1>3 DEF IsPair
    <2> HIDE DEF parts
    <2>3. parts[1] \in Seq(STRING) /\ parts[2] \in Seq(STRING)
        <3> DEFINE U == Seq(STRING)
        <3>1. parts \in Seq(U)
            BY <2>1
        <3> HIDE DEF U
        <3>2. parts[1] \in U /\ parts[2] \in U
            <4>1. 1 \in 1 .. Len(parts) /\ 2 \in 1 .. Len(parts)
                BY <2>2
            <4> QED
                BY <3>1, <4>1, ElementOfSeq
        <3> QED
            BY <3>2 DEF U
    <2> DEFINE put == Put(dict, parts[1], parts[2])
    <2>4. put \in [D \cup {parts[1]} -> Seq(STRING)]
        BY <1>1, <2>3 DEF Put
    <2>5. D \cup {parts[1]} \in SUBSET Seq(STRING)
        BY <2>3
    <2>6. put \in Dictionaries
        <3> HIDE DEF put
        <3> QED
            BY <2>4, <2>5 DEF Dictionaries
    <2> QED
        BY <1>3, <2>6 DEF ReadSubLine, parts
<1> QED
    BY <1>2, <1>3

LEMMA SubConfLoop ==
    ASSUME NEW lines \in Seq(Seq(STRING))
    PROVE  \E f : /\ ReadSubConf(lines) = f[Len(lines)] /\ f[0] = <<>>
                  /\ \A i, j \in 0 .. Len(lines) : j = i + 1 => f[j] = ReadSubLine(f[i], lines[j])
<1> DEFINE n == Len(lines)
           step == [i \in 1 .. n |-> [d \in Dictionaries |-> ReadSubLine(d, lines[i])]]
           Turn(f, i) == IF i = 0 THEN <<>> ELSE ReadSubLine(f[i - 1], lines[i])
           conf[i \in 0 .. n] == Turn(conf, i)
<1>1. n \in Nat
    OBVIOUS
<1>2. step \in [1 .. n -> [Dictionaries -> Dictionaries]]
    BY ReadSubLineType
<1>3. <<>> \in Dictionaries
    <2>1. <<>> \in [{} -> Seq(STRING)]
        OBVIOUS
    <2> QED
        BY <2>1 DEF Dictionaries
<1>4. PICK f \in [0 .. n -> Dictionaries] : Loops(f, n, <<>>, step)
    <2> HIDE DEF step, n
    <2> QED
        BY <1>1, <1>2, <1>3, Loop
<1>5. f = [i \in 0 .. n |-> Turn(f, i)]
    <2>1. f = [i \in 0 .. n |-> IF i = 0 THEN <<>> ELSE step[i][f[i - 1]]]
        BY <1>4 DEF Loops
    <2>2. ASSUME NEW i \in 0 .. n, i # 0 PROVE step[i][f[i - 1]] = ReadSubLine(f[i - 1], lines[i])
        <3>1. i \in 1 .. n /\ i - 1 \in 0 .. n
            BY <1>1, <2>2
        <3>2. f[i - 1] \in Dictionaries
            BY <3>1
        <3> QED
            BY <3>1, <3>2
    <2> HIDE DEF step
    <2> QED
        BY <2>1, <2>2
<1>6. conf = [i \in 0 .. n |-> Turn(conf, i)]
    BY <1>5
<1>7. ReadSubConf(lines) = conf[n]
    BY DEF ReadSubConf
<1> HIDE DEF conf
<1>8. conf[0] = <<>>
    BY <1>1, <1>6
<1>9. ASSUME NEW i \in 0 .. n, NEW j \in 0 .. n, j = i + 1 PROVE conf[j] = ReadSubLine(conf[i], lines[j])
    <2>1. j # 0 /\ j - 1 = i
        BY <1>9
    <2>2. conf[j] = Turn(conf, j)
        BY <1>6
    <2> QED
        BY <2>1, <2>2
<1> QED
    BY <1>7, <1>8, <1>9

(* The configuration has what the file says of a key.                      *)
LEMMA SubConfAsWritten ==
    ASSUME NEW lines \in Seq(Seq(STRING)), NEW key, key # ":"
    PROVE  GetConfVal(ReadSubConf(lines), key) = SubWrittenFor(lines, key)
<1> DEFINE n == Len(lines)
<1>1. n \in Nat
    OBVIOUS
<1>2. PICK f : /\ ReadSubConf(lines) = f[n] /\ f[0] = <<>>
               /\ \A i, j \in 0 .. n : j = i + 1 => f[j] = ReadSubLine(f[i], lines[j])
    BY SubConfLoop
<1> DEFINE T == {k \in Nat : k <= n => ReadOf(f[k], lines, key, k)}
<1>3. 0 \in T
    BY <1>2 DEF ReadOf
<1>4. ASSUME NEW k \in Nat, k \in T PROVE k + 1 \in T
    <2> SUFFICES ASSUME NEW upto \in 1 .. n, upto = k + 1 PROVE ReadOf(f[upto], lines, key, upto)
        BY <1>1
    <2>1. ReadOf(f[k], lines, key, k) /\ k \in 0 .. n /\ upto \in 0 .. n
        BY <1>4
    <2>2. f[upto] = ReadSubLine(f[k], lines[upto])
        BY <1>2, <2>1
    <2> QED
        BY <2>1, <2>2, ReadLineOf
<1>5. ReadOf(f[n], lines, key, n)
    <2>1. n \in T
        <3> HIDE DEF T
        <3> QED
            BY <1>1, <1>3, <1>4, Induction
    <2> QED
        BY <1>1, <2>1
<1> DEFINE dict == f[n]
           fitting == {i \in DOMAIN lines : SaysOf(lines[i], key)}
<1>6. DOMAIN lines = 1 .. n
    OBVIOUS
<1>7. CASE <<key>> \notin DOMAIN dict /\ \A j \in 1 .. n : ~SaysOf(lines[j], key)
    <2>1. fitting = {}
        BY <1>6, <1>7
    <2>2. SubWrittenFor(lines, key) = <<>>
        BY <2>1 DEF SubWrittenFor
    <2> QED
        BY <1>2, <1>7, <2>2 DEF GetConfVal
<1>8. ASSUME NEW j \in 1 .. n, SaysOf(lines[j], key), \A k \in j + 1 .. n : ~SaysOf(lines[k], key),
             <<key>> \in DOMAIN dict, dict[<<key>>] = SubSeq(lines[j], 3, Len(lines[j]))
      PROVE  GetConfVal(ReadSubConf(lines), key) = SubWrittenFor(lines, key)
    <2>1. j \in fitting /\ \A i \in fitting : i <= j
        <3> SUFFICES ASSUME NEW i \in fitting, ~(i <= j) PROVE FALSE
            BY <1>6, <1>8
        <3>1. i \in j + 1 .. n /\ SaysOf(lines[i], key)
            BY <1>1, <1>6
        <3> QED
            BY <1>8, <3>1
    <2>2. \A i \in fitting : (\A k \in fitting : k <= i) => i = j
        BY <1>6, <2>1
    <2>3. (CHOOSE i \in fitting : \A k \in fitting : k <= i) = j
        <3> HIDE DEF fitting
        <3> QED
            BY <2>1, <2>2
    <2>4. SubWrittenFor(lines, key) = SubSeq(lines[j], 3, Len(lines[j]))
        BY <2>1, <2>3 DEF SubWrittenFor
    <2> QED
        BY <1>2, <1>8, <2>4 DEF GetConfVal
<1> QED
    BY <1>5, <1>7, <1>8 DEF ReadOf

-----------------------------------------------------------------------------
(* strategy.conf.                                                          *)

(* No section between the lines h and e: what follows h up to e are names. *)
Listed(lines, h, e) == \A k \in h + 1 .. e : ~IsSection(lines[k])

(* The lines of a section that has ended, and what is stored of them.      *)
Ended(lines, h, e, i) == e < i /\ Listed(lines, h, e) /\ IsSection(lines[e + 1])

Latest(lines, i, conf) ==
    \E h \in 0 .. i : /\ Listed(lines, h, i) /\ conf.vec = NamesIn(lines, h, i)
                      /\ h # 0 => lines[h] = Section(conf.uri)

Stored(lines, i, dict) ==
    \A u \in DOMAIN dict : \E h \in 0 .. i : \E e \in h .. i :
        /\ Ended(lines, h, e, i) /\ h # e /\ dict[u] = NamesIn(lines, h, e)
        /\ h # 0 => lines[h] = Section(u)

AllStored(lines, i, dict) ==
    \A h \in 1 .. i : IsSection(lines[h]) =>
        \/ Listed(lines, h, i)
        \/ \E e \in h .. i : Ended(lines, h, e, i) /\ (h # e => lines[h].name \in DOMAIN dict)

ReadUpTo(lines, i, conf) ==
    /\ Latest(lines, i, conf)
    /\ Stored(lines, i, conf.dict)
    /\ AllStored(lines, i, conf.dict)

LEMMA LineIs ==
    ASSUME NEW line \in ConfLine
    PROVE  /\ IsSection(line) => line = Section(line.name)
           /\ ~IsSection(line) => line = Strategy(line.name) /\ line.kind = "strategy"
           /\ IsSection(line) <=> line.kind # "strategy"
           /\ line.name \in STRING
    BY DEF ConfLine, IsSection, Section, Strategy

LEMMA NamesAre ==
    ASSUME NEW lines \in Seq(ConfLine), NEW h \in Nat, NEW e \in Nat, h <= e, e <= Len(lines)
    PROVE  /\ NamesIn(lines, h, e) \in Seq(STRING) /\ Len(NamesIn(lines, h, e)) = e - h
           /\ \A k \in 1 .. e - h : NamesIn(lines, h, e)[k] = lines[h + k].name
           /\ NamesIn(lines, h, e) = <<>> <=> h = e
<1> DEFINE n == e - h
           names == NamesIn(lines, h, e)
<1>1. names = [k \in 1 .. n |-> lines[h + k].name] /\ n \in Nat
    BY DEF NamesIn
<1>2. ASSUME NEW k \in 1 .. n PROVE lines[h + k].name \in STRING
    <2>1. h + k \in 1 .. Len(lines)
        OBVIOUS
    <2>2. lines[h + k] \in ConfLine
        BY <2>1
    <2> QED
        BY <2>2, LineIs
<1> HIDE DEF names
<1>3. names \in Seq(STRING) /\ Len(names) = n
    BY <1>1, <1>2
<1>4. names = <<>> <=> h = e
    BY <1>3
<1> QED
    BY <1>1, <1>3, <1>4 DEF names

LEMMA NamesNext ==
    ASSUME NEW lines \in Seq(ConfLine), NEW h \in Nat, NEW i \in Nat, h <= i,
           NEW upto \in 1 .. Len(lines), upto = i + 1
    PROVE  Append(NamesIn(lines, h, i), lines[upto].name) = NamesIn(lines, h, upto)
<1> DEFINE names == NamesIn(lines, h, i)
           more == NamesIn(lines, h, upto)
           name == lines[upto].name
<1>0. /\ h <= i /\ i <= Len(lines) /\ h <= upto /\ upto <= Len(lines) /\ upto \in Nat
    OBVIOUS
<1>1. /\ names \in Seq(STRING) /\ Len(names) = i - h
      /\ \A k \in 1 .. i - h : names[k] = lines[h + k].name
    BY <1>0, NamesAre, ZenonT(60)
<1>2. /\ more \in Seq(STRING) /\ Len(more) = upto - h
      /\ \A k \in 1 .. upto - h : more[k] = lines[h + k].name
    BY <1>0, NamesAre, ZenonT(60)
<1>3. name \in STRING
    <2>1. lines[upto] \in ConfLine
        OBVIOUS
    <2> QED
        BY <2>1, LineIs
<1>4. upto - h = (i - h) + 1 /\ h + (upto - h) = upto /\ i - h \in Nat
    OBVIOUS
<1> HIDE DEF names, more
<1>5. more[upto - h] = name
    BY <1>2, <1>4, SMTT(30)
<1> HIDE DEF name
<1>6. /\ Append(names, name) \in Seq(STRING) /\ Len(Append(names, name)) = upto - h
      /\ \A k \in 1 .. i - h : Append(names, name)[k] = names[k]
      /\ Append(names, name)[upto - h] = name
    BY <1>1, <1>3, <1>4, AppendProperties
<1>7. ASSUME NEW k \in 1 .. upto - h PROVE Append(names, name)[k] = more[k]
    BY <1>1, <1>2, <1>4, <1>5, <1>6
<1>8. Append(names, name) = more
    BY <1>2, <1>6, <1>7, SeqEqual
<1> QED
    BY <1>8 DEF names, more, name

LEMMA ListedMore ==
    ASSUME NEW lines, NEW h \in Nat, NEW i \in Nat, NEW upto \in Nat, upto = i + 1
    PROVE  /\ Listed(lines, h, i) /\ ~IsSection(lines[upto]) => Listed(lines, h, upto)
           /\ Listed(lines, upto, upto)
           /\ \A e \in Nat : Ended(lines, h, e, i) => Ended(lines, h, e, upto)
           /\ Listed(lines, h, i) /\ IsSection(lines[upto]) => Ended(lines, h, i, upto)
    BY DEF Listed, Ended

LEMMA ReadNext ==
    ASSUME NEW lines \in Seq(ConfLine), NEW i \in Nat, NEW upto \in 1 .. Len(lines), upto = i + 1,
           NEW conf, conf = [dict |-> conf.dict, uri |-> conf.uri, vec |-> conf.vec],
           ReadUpTo(lines, i, conf)
    PROVE  ReadUpTo(lines, upto, ReadLine(conf, lines[upto]))
<1> DEFINE line == lines[upto]
           read == ReadLine(conf, line)
<1>1. line \in ConfLine /\ upto \in Nat /\ Len(lines) \in Nat
    OBVIOUS
<1>2. PICK h \in 0 .. i : /\ Listed(lines, h, i) /\ conf.vec = NamesIn(lines, h, i)
                          /\ h # 0 => lines[h] = Section(conf.uri)
    BY DEF ReadUpTo, Latest
<1>3. CASE ~IsSection(line)
    <2>1. read = [conf EXCEPT !.vec = Append(conf.vec, line.name)]
        BY <1>1, <1>3, LineIs DEF ReadLine
    <2>2. read.dict = conf.dict /\ read.uri = conf.uri /\ read.vec = Append(conf.vec, line.name)
        BY <2>1
    <2> HIDE DEF read
    <2>3. Latest(lines, upto, read)
        <3>1. read.vec = NamesIn(lines, h, upto)
            BY <1>1, <1>2, <2>2, NamesNext
        <3>2. Listed(lines, h, upto)
            BY <1>1, <1>2, <1>3, ListedMore
        <3>3. h \in 0 .. upto
            OBVIOUS
        <3> QED
            BY <1>2, <2>2, <3>1, <3>2, <3>3 DEF Latest
    <2>4. Stored(lines, upto, read.dict)
        <3> SUFFICES ASSUME NEW u \in DOMAIN conf.dict
                     PROVE  \E g \in 0 .. upto : \E e \in g .. upto :
                                /\ Ended(lines, g, e, upto) /\ g # e
                                /\ conf.dict[u] = NamesIn(lines, g, e)
                                /\ g # 0 => lines[g] = Section(u)
            BY <2>2 DEF Stored
        <3>1. PICK g \in 0 .. i, e \in 0 .. i :
                    /\ e \in g .. i /\ Ended(lines, g, e, i) /\ g # e
                    /\ conf.dict[u] = NamesIn(lines, g, e) /\ (g # 0 => lines[g] = Section(u))
            <4>1. PICK g \in 0 .. i : \E e \in g .. i :
                        /\ Ended(lines, g, e, i) /\ g # e /\ conf.dict[u] = NamesIn(lines, g, e)
                        /\ g # 0 => lines[g] = Section(u)
                BY DEF ReadUpTo, Stored
            <4> QED
                BY <4>1
        <3>2. g \in 0 .. upto /\ e \in g .. upto /\ Ended(lines, g, e, upto)
            BY <1>1, <3>1, ListedMore
        <3> QED
            BY <3>1, <3>2
    <2>5. AllStored(lines, upto, read.dict)
        <3> SUFFICES ASSUME NEW g \in 1 .. upto, IsSection(lines[g])
                     PROVE  \/ Listed(lines, g, upto)
                            \/ \E e \in g .. upto :
                                Ended(lines, g, e, upto) /\ (g # e => lines[g].name \in DOMAIN conf.dict)
            BY <2>2 DEF AllStored
        <3>1. g \in 1 .. i
            BY <1>3
        <3>2. CASE Listed(lines, g, i)
            BY <1>1, <1>3, <3>1, <3>2, ListedMore
        <3>3. ASSUME NEW e \in g .. i, Ended(lines, g, e, i), g # e => lines[g].name \in DOMAIN conf.dict
              PROVE  \E x \in g .. upto :
                        Ended(lines, g, x, upto) /\ (g # x => lines[g].name \in DOMAIN conf.dict)
            <4>1. e \in g .. upto /\ Ended(lines, g, e, upto)
                BY <1>1, <3>1, <3>3, ListedMore
            <4> QED
                BY <3>3, <4>1
        <3> QED
            BY <3>1, <3>2, <3>3 DEF ReadUpTo, AllStored
    <2> QED
        BY <2>3, <2>4, <2>5 DEF ReadUpTo, read
<1>4. CASE IsSection(line)
    <2> DEFINE skip == conf.vec = <<>> \/ conf.uri \in DOMAIN conf.dict
    <2>1. /\ read.dict = IF skip THEN conf.dict ELSE Put(conf.dict, conf.uri, conf.vec)
          /\ read.uri = line.name /\ read.vec = <<>>
        BY <1>1, <1>4, LineIs DEF ReadLine, Cleared
    <2> HIDE DEF read
    <2>2. Latest(lines, upto, read)
        <3>1. NamesIn(lines, upto, upto) = <<>>
            BY <1>1, NamesAre
        <3>2. Listed(lines, upto, upto)
            BY DEF Listed
        <3>3. line = Section(line.name)
            BY <1>1, <1>4, LineIs
        <3>4. upto \in 0 .. upto
            OBVIOUS
        <3> QED
            BY <2>1, <3>1, <3>2, <3>3, <3>4 DEF Latest
    <2>3. Ended(lines, h, i, upto) /\ i \in h .. upto /\ h \in 0 .. upto
        BY <1>1, <1>2, <1>4, ListedMore
    <2>4. conf.vec = <<>> <=> h = i
        BY <1>1, <1>2, NamesAre
    <2>5. Stored(lines, upto, read.dict)
        <3> SUFFICES ASSUME NEW u \in DOMAIN read.dict
                     PROVE  \E g \in 0 .. upto : \E e \in g .. upto :
                                /\ Ended(lines, g, e, upto) /\ g # e
                                /\ read.dict[u] = NamesIn(lines, g, e)
                                /\ g # 0 => lines[g] = Section(u)
            BY DEF Stored
        <3>1. CASE u \in DOMAIN conf.dict /\ read.dict[u] = conf.dict[u]
            <4>1. PICK g \in 0 .. i : \E e \in g .. i :
                        /\ Ended(lines, g, e, i) /\ g # e /\ conf.dict[u] = NamesIn(lines, g, e)
                        /\ g # 0 => lines[g] = Section(u)
                BY <3>1 DEF ReadUpTo, Stored
            <4>2. PICK e \in g .. i :
                        /\ Ended(lines, g, e, i) /\ g # e /\ conf.dict[u] = NamesIn(lines, g, e)
                        /\ g # 0 => lines[g] = Section(u)
                BY <4>1
            <4>3. g \in 0 .. upto /\ e \in g .. upto /\ Ended(lines, g, e, upto)
                BY <1>1, <4>2, ListedMore
            <4> QED
                BY <3>1, <4>2, <4>3
        <3>2. CASE ~skip /\ u = conf.uri
            <4>1. read.dict[u] = conf.vec
                BY <2>1, <3>2 DEF Put
            <4> QED
                BY <1>2, <2>3, <2>4, <3>2, <4>1
        <3>3. (u \in DOMAIN conf.dict /\ read.dict[u] = conf.dict[u]) \/ (~skip /\ u = conf.uri)
            BY <2>1 DEF Put
        <3> QED
            BY <3>1, <3>2, <3>3
    <2>6. AllStored(lines, upto, read.dict)
        <3> SUFFICES ASSUME NEW g \in 1 .. upto, IsSection(lines[g])
                     PROVE  \/ Listed(lines, g, upto)
                            \/ \E e \in g .. upto :
                                Ended(lines, g, e, upto) /\ (g # e => lines[g].name \in DOMAIN read.dict)
            BY DEF AllStored
        <3>0. DOMAIN conf.dict \subseteq DOMAIN read.dict /\ (skip \/ conf.uri \in DOMAIN read.dict)
            BY <2>1 DEF Put
        <3>1. CASE g = upto
            BY <1>1, <3>1, ListedMore
        <3>2. CASE g \in 1 .. i /\ Listed(lines, g, i)
            <4>1. g = h
                <5>1. h <= g
                    <6> SUFFICES ASSUME g < h PROVE FALSE
                        BY <3>2
                    <6>1. h \in g + 1 .. i /\ h # 0
                        BY <3>2
                    <6>2. ~IsSection(lines[h])
                        BY <3>2, <6>1 DEF Listed
                    <6> QED
                        BY <1>2, <6>1, <6>2 DEF Section, IsSection
                <5>2. g <= h
                    <6> SUFFICES ASSUME h < g PROVE FALSE
                        BY <3>2
                    <6>1. g \in h + 1 .. i
                        BY <3>2
                    <6> QED
                        BY <1>2, <6>1 DEF Listed
                <5> QED
                    BY <5>1, <5>2
            <4>2. lines[g].name = conf.uri
                BY <1>2, <4>1 DEF Section
            <4>3. g # i => lines[g].name \in DOMAIN read.dict
                BY <2>4, <3>0, <4>1, <4>2
            <4>4. i \in g .. upto /\ Ended(lines, g, i, upto)
                BY <2>3, <4>1
            <4> QED
                BY <4>3, <4>4
        <3>3. ASSUME NEW e \in g .. i, g \in 1 .. i, Ended(lines, g, e, i),
                     g # e => lines[g].name \in DOMAIN conf.dict
              PROVE  \E x \in g .. upto :
                        Ended(lines, g, x, upto) /\ (g # x => lines[g].name \in DOMAIN read.dict)
            <4>1. e \in g .. upto /\ Ended(lines, g, e, upto)
                BY <1>1, <3>3, ListedMore
            <4> QED
                BY <3>0, <3>3, <4>1
        <3>4. g = upto \/ g \in 1 .. i
            OBVIOUS
        <3> QED
            BY <3>1, <3>2, <3>3, <3>4 DEF ReadUpTo, AllStored
    <2> QED
        BY <2>2, <2>5, <2>6 DEF ReadUpTo, read
<1> QED
    BY <1>3, <1>4

(* What has been read: the sections, by name, and the current one.         *)
NoName == ""
Name == STRING \cup {NoName}
SectionLists == UNION {[D -> Seq(STRING)] : D \in SUBSET Name}
ConfRead == [dict : SectionLists, uri : Name, vec : Seq(STRING)]

NoLineRead == [dict |-> <<>>, uri |-> NoName, vec |-> <<>>]

LEMMA NoLineReadIs ==
    NoLineRead \in ConfRead /\ NoLineRead.dict = <<>> /\ NoLineRead.vec = <<>>
<1> DEFINE nothing(name) == [dict |-> <<>>, uri |-> name, vec |-> <<>>]
<1>1. NoName \in Name
    BY DEF Name
<1>2. <<>> \in SectionLists
    <2>1. <<>> \in [{} -> Seq(STRING)]
        OBVIOUS
    <2> QED
        BY <2>1 DEF SectionLists
<1>3. \A name \in Name :
        nothing(name) \in ConfRead /\ nothing(name).dict = <<>> /\ nothing(name).vec = <<>>
    BY <1>2 DEF ConfRead
<1>4. NoLineRead = nothing(NoName)
    BY Zenon DEF NoLineRead
<1> QED
    BY <1>1, <1>3, <1>4, Zenon

LEMMA PutType ==
    ASSUME NEW dict \in SectionLists, NEW name \in Name, NEW vec \in Seq(STRING)
    PROVE  Put(dict, name, vec) \in SectionLists
<1>1. PICK D \in SUBSET Name : dict \in [D -> Seq(STRING)]
    BY DEF SectionLists
<1>2. Put(dict, name, vec) \in [D \cup {name} -> Seq(STRING)]
    BY <1>1 DEF Put
<1>3. D \cup {name} \in SUBSET Name
    OBVIOUS
<1> QED
    BY <1>2, <1>3 DEF SectionLists

LEMMA ReadLineType ==
    ASSUME NEW conf \in ConfRead, NEW line \in ConfLine
    PROVE  ReadLine(conf, line) \in ConfRead
<1>1. conf.dict \in SectionLists /\ conf.uri \in Name /\ conf.vec \in Seq(STRING)
    BY DEF ConfRead
<1>2. line.name \in STRING /\ line.name \in Name
    BY LineIs DEF Name
<1>3. CASE line.kind = "strategy"
    <2>1. Append(conf.vec, line.name) \in Seq(STRING)
        BY <1>1, <1>2
    <2> QED
        BY <1>1, <1>3, <2>1 DEF ReadLine, ConfRead
<1>4. CASE line.kind # "strategy"
    <2>1. Put(conf.dict, conf.uri, conf.vec) \in SectionLists
        BY <1>1, PutType
    <2>2. <<>> \in Seq(STRING)
        OBVIOUS
    <2> QED
        BY <1>1, <1>2, <1>4, <2>1, <2>2 DEF ReadLine, ConfRead, Cleared
<1> QED
    BY <1>3, <1>4

(* What the end of the file leaves.                                        *)
Closed(conf) == IF conf.vec = <<>> THEN conf.dict ELSE Put(conf.dict, conf.uri, conf.vec)

LEMMA ConfFileRead ==
    ASSUME NEW lines \in Seq(ConfLine)
    PROVE  \E conf \in ConfRead :
              ReadConfFile(lines) = Closed(conf) /\ ReadUpTo(lines, Len(lines), conf)
<1> DEFINE n == Len(lines)
           step == [i \in 1 .. n |-> [c \in ConfRead |-> ReadLine(c, lines[i])]]
           Turn(f, i) == IF i = 0 THEN NoLineRead ELSE ReadLine(f[i - 1], lines[i])
           conf[i \in 0 .. n] == Turn(conf, i)
<1>1. n \in Nat
    OBVIOUS
<1>2. step \in [1 .. n -> [ConfRead -> ConfRead]]
    <2>1. ASSUME NEW i \in 1 .. n, NEW c \in ConfRead PROVE ReadLine(c, lines[i]) \in ConfRead
        <3>1. lines[i] \in ConfLine
            OBVIOUS
        <3> QED
            BY <3>1, ReadLineType
    <2> QED
        BY <2>1
<1>3. PICK f \in [0 .. n -> ConfRead] : Loops(f, n, NoLineRead, step)
    <2> HIDE DEF step, n
    <2> QED
        BY <1>1, <1>2, NoLineReadIs, Loop
<1>4. f = [i \in 0 .. n |-> Turn(f, i)]
    <2>1. f = [i \in 0 .. n |-> IF i = 0 THEN NoLineRead ELSE step[i][f[i - 1]]]
        BY <1>3 DEF Loops
    <2>2. ASSUME NEW i \in 0 .. n, i # 0 PROVE step[i][f[i - 1]] = ReadLine(f[i - 1], lines[i])
        <3>1. i \in 1 .. n /\ i - 1 \in 0 .. n
            BY <1>1, <2>2
        <3>2. f[i - 1] \in ConfRead
            BY <3>1
        <3> QED
            BY <3>1, <3>2
    <2> HIDE DEF step
    <2> QED
        BY <2>1, <2>2
<1>5. conf = [i \in 0 .. n |-> Turn(conf, i)]
    BY <1>4
<1>6. ReadConfFile(lines) = Closed(conf[n])
    BY Zenon DEF ReadConfFile, Closed, NoLineRead, NoName
<1> HIDE DEF conf
<1> DEFINE T == {k \in Nat : k <= n => conf[k] \in ConfRead /\ ReadUpTo(lines, k, conf[k])}
<1>7. 0 \in T
    <2>1. conf[0] = NoLineRead
        BY <1>1, <1>5
    <2>2. Latest(lines, 0, NoLineRead)
        <3>1. NamesIn(lines, 0, 0) = <<>> /\ Listed(lines, 0, 0)
            BY <1>1, NamesAre DEF Listed
        <3>2. 0 \in 0 .. 0
            OBVIOUS
        <3> QED
            BY <3>1, <3>2, NoLineReadIs DEF Latest
    <2>3. Stored(lines, 0, NoLineRead.dict)
        BY NoLineReadIs DEF Stored
    <2>4. AllStored(lines, 0, NoLineRead.dict)
        BY DEF AllStored
    <2> QED
        BY <2>1, <2>2, <2>3, <2>4, NoLineReadIs DEF ReadUpTo
<1>8. ASSUME NEW k \in Nat, k \in T PROVE k + 1 \in T
    <2> SUFFICES ASSUME NEW upto \in 1 .. n, upto = k + 1
                 PROVE  conf[upto] \in ConfRead /\ ReadUpTo(lines, upto, conf[upto])
        BY <1>1
    <2>1. k \in 0 .. n /\ upto \in 0 .. n /\ upto # 0 /\ upto - 1 = k
        OBVIOUS
    <2>2. conf[k] \in ConfRead /\ ReadUpTo(lines, k, conf[k])
        BY <1>8, <2>1
    <2>3. conf[upto] = ReadLine(conf[k], lines[upto])
        <3>1. conf[upto] = Turn(conf, upto)
            BY <1>5, <2>1
        <3> QED
            BY <2>1, <3>1
    <2>4. lines[upto] \in ConfLine
        OBVIOUS
    <2> DEFINE c == conf[k]
    <2>5. c = [dict |-> c.dict, uri |-> c.uri, vec |-> c.vec]
        BY <2>2 DEF ConfRead
    <2> HIDE DEF c
    <2>6. ReadLine(c, lines[upto]) \in ConfRead
        BY <2>2, <2>4, ReadLineType DEF c
    <2>7. ReadUpTo(lines, upto, ReadLine(c, lines[upto]))
        BY <2>2, <2>5, ReadNext DEF c
    <2> QED
        BY <2>3, <2>6, <2>7 DEF c
<1>9. n \in T
    <2> HIDE DEF T
    <2> QED
        BY <1>1, <1>7, <1>8, Induction
<1> QED
    BY <1>1, <1>6, <1>9

(* A list is the names between two lines with no section between them.     *)
LEMMA SectionsRead ==
    ASSUME NEW lines \in Seq(ConfLine)
    PROVE  /\ ReadConfFile(lines) \in SectionLists
           /\ \A u \in DOMAIN ReadConfFile(lines) : \E h, e \in 0 .. Len(lines) :
                /\ h < e /\ Listed(lines, h, e) /\ ReadConfFile(lines)[u] = NamesIn(lines, h, e)
                /\ h # 0 => lines[h] = Section(u)
                /\ e < Len(lines) => IsSection(lines[e + 1])
<1> DEFINE n == Len(lines)
           dict == ReadConfFile(lines)
<1>1. PICK conf \in ConfRead : dict = Closed(conf) /\ ReadUpTo(lines, n, conf)
    BY ConfFileRead
<1>2. n \in Nat /\ conf.dict \in SectionLists /\ conf.uri \in Name /\ conf.vec \in Seq(STRING)
    BY <1>1 DEF ConfRead
<1> HIDE DEF dict
<1>3. dict \in SectionLists
    BY <1>1, <1>2, PutType DEF Closed
<1>4. ASSUME NEW u \in DOMAIN dict
      PROVE  \E h, e \in 0 .. n :
                /\ h < e /\ Listed(lines, h, e) /\ dict[u] = NamesIn(lines, h, e)
                /\ h # 0 => lines[h] = Section(u)
                /\ e < n => IsSection(lines[e + 1])
    <2>1. CASE u \in DOMAIN conf.dict /\ dict[u] = conf.dict[u]
        <3>1. PICK h \in 0 .. n : \E e \in h .. n :
                    /\ Ended(lines, h, e, n) /\ h # e /\ conf.dict[u] = NamesIn(lines, h, e)
                    /\ h # 0 => lines[h] = Section(u)
            BY <1>1, <2>1 DEF ReadUpTo, Stored
        <3>2. PICK e \in h .. n :
                    /\ Ended(lines, h, e, n) /\ h # e /\ conf.dict[u] = NamesIn(lines, h, e)
                    /\ h # 0 => lines[h] = Section(u)
            BY <3>1
        <3>3. h < e /\ e \in 0 .. n
            BY <1>2, <3>2
        <3> QED
            BY <2>1, <3>2, <3>3 DEF Ended
    <2>2. CASE conf.vec # <<>> /\ u = conf.uri
        <3>1. PICK h \in 0 .. n : /\ Listed(lines, h, n) /\ conf.vec = NamesIn(lines, h, n)
                                  /\ h # 0 => lines[h] = Section(conf.uri)
            BY <1>1 DEF ReadUpTo, Latest
        <3>2. h < n
            BY <1>2, <2>2, <3>1, NamesAre
        <3>3. dict[u] = conf.vec
            BY <1>1, <2>2 DEF Closed, Put
        <3> QED
            BY <1>2, <2>2, <3>1, <3>2, <3>3
    <2>3. (u \in DOMAIN conf.dict /\ dict[u] = conf.dict[u]) \/ (conf.vec # <<>> /\ u = conf.uri)
        BY <1>1 DEF Closed, Put
    <2> QED
        BY <2>1, <2>2, <2>3
<1> QED
    BY <1>3, <1>4 DEF dict

(* No list has a name twice that no section lists twice.                   *)
LEMMA ListsOnce ==
    ASSUME NEW lines \in Seq(ConfLine), NEW name, ListedOnce(lines, name),
           NEW u \in DOMAIN ReadConfFile(lines),
           NEW i \in DOMAIN ReadConfFile(lines)[u], NEW j \in DOMAIN ReadConfFile(lines)[u],
           ReadConfFile(lines)[u][i] = name, ReadConfFile(lines)[u][j] = name
    PROVE  i = j
<1> DEFINE list == ReadConfFile(lines)[u]
           n == Len(lines)
<1>1. PICK h \in 0 .. n, e \in 0 .. n :
            h < e /\ Listed(lines, h, e) /\ list = NamesIn(lines, h, e)
    BY SectionsRead
<1>2. /\ h \in Nat /\ e \in Nat /\ n \in Nat /\ e - h \in Nat
      /\ list \in Seq(STRING) /\ Len(list) = e - h
      /\ \A k \in 1 .. e - h : list[k] = lines[h + k].name
    <2>1. h \in Nat /\ e \in Nat /\ n \in Nat /\ e - h \in Nat /\ h <= e /\ e <= n
        BY <1>1
    <2>2. list = NamesIn(lines, h, e)
        BY <1>1
    <2> HIDE DEF list
    <2> DEFINE names == NamesIn(lines, h, e)
    <2>3. /\ names \in Seq(STRING) /\ Len(names) = e - h
          /\ \A k \in 1 .. e - h : names[k] = lines[h + k].name
        BY <2>1, NamesAre, ZenonT(60)
    <2> HIDE DEF names
    <2> QED
        BY <2>1, <2>2, <2>3 DEF names
<1>3. list[i] = name /\ list[j] = name /\ i \in 1 .. e - h /\ j \in 1 .. e - h
    BY <1>2
<1> HIDE DEF list
<1>4. ASSUME NEW k \in 1 .. e - h, list[k] = name PROVE h + k \in DOMAIN lines /\ lines[h + k] = Strategy(name)
    <2>1. h + k \in h + 1 .. e /\ h + k \in 1 .. n
        BY <1>2
    <2>2. lines[h + k] \in ConfLine /\ ~IsSection(lines[h + k])
        BY <1>1, <2>1 DEF Listed
    <2>3. lines[h + k].name = name
        BY <1>2, <1>4
    <2> QED
        BY <1>2, <2>1, <2>2, <2>3, LineIs
<1>5. ASSUME NEW k \in 1 .. e - h, NEW m \in 1 .. e - h, k < m, list[k] = name, list[m] = name PROVE FALSE
    <2> DEFINE a == h + k
               b == h + m
    <2>1. a \in DOMAIN lines /\ lines[a] = Strategy(name) /\ b \in DOMAIN lines /\ lines[b] = Strategy(name)
        BY <1>4, <1>5
    <2>2. a < b /\ \A x \in a .. b : x \in h + 1 .. e
        BY <1>2, <1>5
    <2> HIDE DEF a, b
    <2>3. \E x \in a .. b : IsSection(lines[x])
        BY <2>1, <2>2 DEF ListedOnce
    <2> QED
        BY <1>1, <2>2, <2>3 DEF Listed
<1> QED
    BY <1>2, <1>3, <1>5

LEMMA SectionEndIs ==
    ASSUME NEW lines, Len(lines) \in Nat, NEW h \in Nat \ {0}, NEW e \in h .. Len(lines),
           Listed(lines, h, e), e < Len(lines) => IsSection(lines[e + 1])
    PROVE  SectionEnd(lines, h) = e
<1>1. IsSectionEnd(lines, h, e)
    BY DEF IsSectionEnd, Listed
<1>2. ASSUME NEW j \in h .. Len(lines), IsSectionEnd(lines, h, j) PROVE j = e
    <2>1. CASE j < e
        <3>1. j + 1 \in h + 1 .. e /\ j < Len(lines)
            BY <2>1
        <3>2. IsSection(lines[j + 1])
            BY <1>2, <3>1 DEF IsSectionEnd
        <3> QED
            BY <3>1, <3>2 DEF Listed
    <2>2. CASE e < j
        <3>1. e + 1 \in h + 1 .. j /\ e < Len(lines)
            BY <2>2
        <3>2. ~IsSection(lines[e + 1])
            BY <1>2, <3>1 DEF IsSectionEnd
        <3> QED
            BY <3>1, <3>2
    <2> QED
        BY <2>1, <2>2
<1> QED
    BY <1>1, <1>2 DEF SectionEnd

(* A file without repeated sections gives every uri the list it says.      *)
LEMMA ConfFileAsWritten ==
    ASSUME NEW lines \in Seq(ConfLine), NoRepeatedSection(lines), NEW u
    PROVE  (IF u \in DOMAIN ReadConfFile(lines) THEN ReadConfFile(lines)[u] ELSE <<>>)
               = WrittenFor(lines, u)
<1> DEFINE n == Len(lines)
           dict == ReadConfFile(lines)
           At(i) == lines[i] = Section(u)
<1>1. n \in Nat /\ DOMAIN lines = 1 .. n /\ IsSection(Section(u))
    BY DEF IsSection, Section
<1>2. ASSUME NEW h \in 1 .. n, At(h)
      PROVE  WrittenFor(lines, u) = NamesIn(lines, h, SectionEnd(lines, h))
    <2>1. Section(u) \in Range(lines)
        BY <1>1, <1>2 DEF Range
    <2>2. \A i \in DOMAIN lines : At(i) => i = h
        BY <1>1, <1>2 DEF NoRepeatedSection
    <2>3. (CHOOSE i \in DOMAIN lines : At(i)) = h
        <3>1. h \in DOMAIN lines
            BY <1>1
        <3> HIDE DEF At
        <3> QED
            BY <1>2, <2>2, <3>1
    <2> QED
        BY <2>1, <2>3 DEF WrittenFor
<1>3. CASE u \in DOMAIN dict
    <2>1. PICK h \in 0 .. n, e \in 0 .. n :
                /\ h < e /\ Listed(lines, h, e) /\ dict[u] = NamesIn(lines, h, e)
                /\ h # 0 => lines[h] = Section(u)
                /\ e < n => IsSection(lines[e + 1])
        BY <1>3, SectionsRead
    <2>2. h # 0
        <3> SUFFICES ASSUME h = 0 PROVE FALSE
            OBVIOUS
        <3>1. 1 \in h + 1 .. e /\ lines # <<>>
            BY <1>1, <2>1
        <3> QED
            BY <2>1, <3>1 DEF NoRepeatedSection, Listed
    <2>3. SectionEnd(lines, h) = e
        BY <1>1, <2>1, <2>2, SectionEndIs
    <2>4. h \in 1 .. n /\ At(h)
        BY <1>1, <2>1, <2>2
    <2> QED
        BY <1>2, <1>3, <2>1, <2>3, <2>4
<1>4. CASE u \notin DOMAIN dict
    <2>1. CASE Section(u) \notin Range(lines)
        BY <1>4, <2>1 DEF WrittenFor
    <2>2. CASE Section(u) \in Range(lines)
        <3>1. PICK h \in 1 .. n : At(h)
            BY <1>1, <2>2 DEF Range
        <3>2. PICK conf \in ConfRead : dict = Closed(conf) /\ ReadUpTo(lines, n, conf)
            BY ConfFileRead
        <3>3. IsSection(lines[h]) /\ lines[h].name = u
            BY <3>1 DEF IsSection, Section
        <3>4. CASE Listed(lines, h, n)
            <4>1. PICK g \in 0 .. n : /\ Listed(lines, g, n) /\ conf.vec = NamesIn(lines, g, n)
                                      /\ g # 0 => lines[g] = Section(conf.uri)
                BY <3>2 DEF ReadUpTo, Latest
            <4>2. g = h
                <5>1. ~(g < h)
                    <6>1. g < h => h \in g + 1 .. n
                        BY <1>1
                    <6> QED
                        BY <3>3, <4>1, <6>1 DEF Listed
                <5>2. ~(h < g)
                    <6>1. h < g => g \in h + 1 .. n /\ g # 0
                        BY <1>1
                    <6> QED
                        BY <3>4, <4>1, <6>1 DEF Listed, IsSection, Section
                <5> QED
                    BY <5>1, <5>2
            <4>3. conf.uri = u
                BY <3>1, <4>1, <4>2 DEF Section
            <4>4. conf.vec = <<>>
                BY <1>4, <3>2, <4>3 DEF Closed, Put
            <4>5. h = n
                <5>1. NamesIn(lines, h, n) = <<>> /\ h \in Nat /\ h <= n
                    BY <1>1, <4>1, <4>2, <4>4
                <5>2. n <= Len(lines)
                    BY <1>1
                <5> QED
                    BY <1>1, <5>1, <5>2, NamesAre, ZenonT(60)
            <4>6. SectionEnd(lines, h) = n
                BY <1>1, <3>4, SectionEndIs
            <4> QED
                BY <1>2, <1>4, <3>1, <4>1, <4>2, <4>4, <4>6
        <3>5. ASSUME NEW e \in h .. n, Ended(lines, h, e, n), h # e => lines[h].name \in DOMAIN conf.dict
              PROVE  WrittenFor(lines, u) = <<>>
            <4>1. u \notin DOMAIN conf.dict
                BY <1>4, <3>2 DEF Closed, Put
            <4>2. h = e
                BY <3>3, <3>5, <4>1
            <4>3. SectionEnd(lines, h) = e
                BY <1>1, <3>5, SectionEndIs DEF Ended
            <4>4. NamesIn(lines, h, e) = <<>>
                BY <1>1, <4>2, NamesAre
            <4> QED
                BY <1>2, <3>1, <4>3, <4>4
        <3> QED
            BY <1>4, <3>2, <3>3, <3>4, <3>5 DEF ReadUpTo, AllStored
    <2> QED
        BY <2>1, <2>2
<1> QED
    BY <1>3, <1>4

-----------------------------------------------------------------------------
(* The segments of a text, tag by tag.                                     *)
LEMMA EndingsFinite ==
    ASSUME NEW ws, NEW n \in Nat
    PROVE  IsFiniteSet(Endings(ws, n)) /\ Cardinality(Endings(ws, n)) \in 0 .. n
<1>1. IsFiniteSet(1 .. n) /\ Cardinality(1 .. n) = n
  BY FS_Interval
<1>2. Endings(ws, n) \subseteq 1 .. n
  BY DEF Endings
<1>3. IsFiniteSet(Endings(ws, n)) /\ Cardinality(Endings(ws, n)) <= n
  BY <1>1, <1>2, FS_Subset
<1>4. QED
  BY <1>3, FS_CardinalityType

LEMMA EndingsNext ==
    ASSUME NEW ws, NEW n \in Nat
    PROVE  /\ Ends(ws, n + 1) =>
                /\ Endings(ws, n + 1) = Endings(ws, n) \cup {n + 1}
                /\ Cardinality(Endings(ws, n + 1)) = Cardinality(Endings(ws, n)) + 1
           /\ ~Ends(ws, n + 1) => Endings(ws, n + 1) = Endings(ws, n)
<1>1. CASE Ends(ws, n + 1)
  <2>1. Endings(ws, n + 1) = Endings(ws, n) \cup {n + 1}
    BY <1>1 DEF Endings
  <2>2. n + 1 \notin Endings(ws, n)
    BY DEF Endings
  <2>3. QED
    BY <1>1, <2>1, <2>2, EndingsFinite, FS_AddElement
<1>2. CASE ~Ends(ws, n + 1)
  BY <1>2 DEF Endings
<1>3. QED
  BY <1>1, <1>2

IsEnd(ws, k, i) == Cardinality(Endings(ws, i)) = k /\ i \in Endings(ws, i) \cup {0}

LEMMA EndsDiffer ==
    ASSUME NEW ws, NEW i \in Nat, NEW j \in Nat, i < j, j \in Endings(ws, j)
    PROVE  Cardinality(Endings(ws, i)) # Cardinality(Endings(ws, j))
<1>1. Endings(ws, i) \subseteq Endings(ws, j) /\ j \notin Endings(ws, i)
  BY DEF Endings
<1>2. IsFiniteSet(Endings(ws, j))
  BY EndingsFinite
<1>3. QED
  BY <1>1, <1>2, FS_Subset

LEMMA EndOfIs ==
    ASSUME NEW ws \in Seq(Seq(Nat)), NEW k, NEW i \in 0 .. Len(ws), IsEnd(ws, k, i)
    PROVE  EndOf(ws, k) = i
<1> DEFINE e == EndOf(ws, k)
<1>1. e \in 0 .. Len(ws) /\ IsEnd(ws, k, e)
  BY DEF EndOf, IsEnd
<1> HIDE DEF e
<1>2. i \in Nat /\ e \in Nat /\ (i = 0 \/ i \in Endings(ws, i)) /\ (e = 0 \/ e \in Endings(ws, e))
  BY <1>1 DEF IsEnd
<1>3. ~ (i < e) /\ ~ (e < i)
  BY <1>1, <1>2, EndsDiffer DEF IsEnd
<1>4. QED
  BY <1>2, <1>3 DEF e

(* Where the segment begins that is being read behind the n-th word.       *)
Begun(ws, n) == EndOf(ws, Cardinality(Endings(ws, n)))

LEMMA BegunNext ==
    ASSUME NEW ws \in Seq(Seq(Nat)), NEW n \in Nat, n + 1 <= Len(ws)
    PROVE  /\ Ends(ws, n + 1) => Begun(ws, n + 1) = n + 1
           /\ ~Ends(ws, n + 1) => Begun(ws, n + 1) = Begun(ws, n)
<1>1. CASE Ends(ws, n + 1)
  <2>1. IsEnd(ws, Cardinality(Endings(ws, n + 1)), n + 1)
    <3>1. n + 1 \in Endings(ws, n + 1)
      BY <1>1 DEF Endings
    <3>2. QED
      BY <3>1 DEF IsEnd
  <2>2. n + 1 \in 0 .. Len(ws)
    OBVIOUS
  <2>3. EndOf(ws, Cardinality(Endings(ws, n + 1))) = n + 1
    BY <2>1, <2>2, EndOfIs
  <2>4. QED
    BY <1>1, <2>3 DEF Begun
<1>2. CASE ~Ends(ws, n + 1)
  BY <1>2, EndingsNext DEF Begun
<1>3. QED
  BY <1>1, <1>2

LEMMA BegunBefore ==
    ASSUME NEW ws \in Seq(Seq(Nat))
    PROVE  \A n \in 0 .. Len(ws) : Begun(ws, n) \in 0 .. n
<1> DEFINE T == {n \in Nat : n <= Len(ws) => Begun(ws, n) \in 0 .. n}
<1>1. 0 \in T
  <2>1. Endings(ws, 0) = {} /\ Cardinality({}) = 0
    BY FS_EmptySet DEF Endings
  <2>2. IsEnd(ws, 0, 0)
    BY <2>1 DEF IsEnd
  <2>3. Begun(ws, 0) = 0
    <3>1. 0 \in 0 .. Len(ws)
      OBVIOUS
    <3>2. QED
      BY <2>1, <2>2, <3>1, EndOfIs DEF Begun
  <2>4. QED
    BY <2>3
<1>2. ASSUME NEW n \in Nat, n \in T PROVE n + 1 \in T
  <2> SUFFICES ASSUME n + 1 <= Len(ws) PROVE Begun(ws, n + 1) \in 0 .. n + 1
    OBVIOUS
  <2>1. Begun(ws, n + 1) = n + 1 \/ Begun(ws, n + 1) = Begun(ws, n)
    BY BegunNext
  <2>2. Begun(ws, n) \in 0 .. n
    BY <1>2
  <2>3. QED
    BY <2>1, <2>2
<1>3. Nat \subseteq T
  <2> HIDE DEF T
  <2> QED
    BY <1>1, <1>2, Induction
<1>4. QED
  BY <1>3

(* The words read since the last tag that ended a segment, put together.   *)
Reading(ws, n) == FlattenSeq(SubSeq(ws, Begun(ws, n) + 1, n))

LEMMA NothingRead ==
    ASSUME NEW ws \in Seq(Seq(Nat))
    PROVE  SegmentsIn(ws, 0) = <<>> /\ Reading(ws, 0) = <<>>
<1>1. Endings(ws, 0) = {} /\ Cardinality({}) = 0
  BY FS_EmptySet DEF Endings
<1>2. SegmentsIn(ws, 0) = <<>>
  <2>1. SegmentsIn(ws, 0) = [k \in 1 .. 0 |-> SegmentAt(ws, k)]
    BY <1>1 DEF SegmentsIn
  <2>2. [k \in 1 .. 0 |-> SegmentAt(ws, k)] = <<>>
    OBVIOUS
  <2>3. QED
    BY <2>1, <2>2
<1>3. Begun(ws, 0) = 0
  <2>1. 0 \in 0 .. Len(ws)
    OBVIOUS
  <2>2. QED
    BY <2>1, BegunBefore
<1>4. SubSeq(ws, 0 + 1, 0) = <<>>
  BY SubSeqEmpty
<1>5. QED
  BY <1>2, <1>3, <1>4, FlattenEmpty DEF Reading

LEMMA ReadingNext ==
    ASSUME NEW ws \in Seq(Seq(Nat)), NEW n \in Nat, n + 1 <= Len(ws)
    PROVE  /\ Reading(ws, n) \in Seq(Nat)
           /\ FlattenSeq(SubSeq(ws, Begun(ws, n) + 1, n + 1)) = Reading(ws, n) \o ws[n + 1]
           /\ Ends(ws, n + 1) => Reading(ws, n + 1) = <<>>
           /\ ~Ends(ws, n + 1) => Reading(ws, n + 1) = Reading(ws, n) \o ws[n + 1]
<1> DEFINE b == Begun(ws, n)
           rd == SubSeq(ws, b + 1, n)
           more == SubSeq(ws, b + 1, n + 1)
<1>1. b \in 0 .. n /\ n \in 0 .. Len(ws) /\ n + 1 \in 1 .. Len(ws)
  <2>1. n \in 0 .. Len(ws)
    OBVIOUS
  <2>2. QED
    BY <2>1, BegunBefore
<1> HIDE DEF b
<1>2. rd \in Seq(Seq(Nat)) /\ ws[n + 1] \in Seq(Nat)
  <2>1. \A i \in b + 1 .. n : ws[i] \in Seq(Nat)
    BY <1>1
  <2>2. QED
    BY <1>1, <2>1, SubSeqProperties
<1>3. Append(rd, ws[n + 1]) = more
  <2>1. b + 1 \in Nat \ {0} /\ b + 1 <= n + 1
    BY <1>1
  <2>2. QED
    BY <1>1, <2>1, AppendNext
<1> HIDE DEF rd, more
<1>4. FlattenSeq(rd) \in Seq(Nat) /\ FlattenSeq(more) = FlattenSeq(rd) \o ws[n + 1]
  BY <1>2, <1>3, FlattenAppend, FlattenType
<1>5. CASE Ends(ws, n + 1)
  <2>1. Begun(ws, n + 1) = n + 1
    BY <1>5, BegunNext
  <2>2. SubSeq(ws, n + 1 + 1, n + 1) = <<>>
    BY SubSeqEmpty
  <2>3. Reading(ws, n + 1) = <<>>
    BY <2>1, <2>2, FlattenEmpty DEF Reading
  <2>4. QED
    BY <1>4, <1>5, <2>3 DEF Reading, rd, more, b
<1>6. CASE ~Ends(ws, n + 1)
  <2>1. Begun(ws, n + 1) = b
    BY <1>6, BegunNext DEF b
  <2>2. QED
    BY <1>4, <1>6, <2>1 DEF Reading, rd, more, b
<1>7. QED
  BY <1>5, <1>6

LEMMA SegmentsNext ==
    ASSUME NEW ws \in Seq(Seq(Nat)), NEW n \in Nat, n + 1 <= Len(ws)
    PROVE  /\ Ends(ws, n + 1) =>
                SegmentsIn(ws, n + 1) = Append(SegmentsIn(ws, n), Reading(ws, n) \o ws[n + 1])
           /\ ~Ends(ws, n + 1) => SegmentsIn(ws, n + 1) = SegmentsIn(ws, n)
<1> DEFINE c == Cardinality(Endings(ws, n))
<1>1. CASE Ends(ws, n + 1)
  <2>1. Cardinality(Endings(ws, n + 1)) = c + 1 /\ c \in Nat
    BY <1>1, EndingsNext, EndingsFinite
  <2>2. EndOf(ws, c + 1) = n + 1
    BY <1>1, <2>1, BegunNext DEF Begun
  <2>3. SegmentAt(ws, c + 1) = Reading(ws, n) \o ws[n + 1]
    <3>1. (c + 1) - 1 = c
      BY <2>1
    <3>2. EndOf(ws, (c + 1) - 1) = Begun(ws, n)
      BY <3>1 DEF Begun
    <3>3. SegmentAt(ws, c + 1) = FlattenSeq(SubSeq(ws, Begun(ws, n) + 1, n + 1))
      BY <2>2, <3>2 DEF SegmentAt
    <3>4. QED
      BY <3>3, ReadingNext
  <2> HIDE DEF c
  <2>4. SegmentsIn(ws, n) = [k \in 1 .. c |-> SegmentAt(ws, k)]
    BY DEF SegmentsIn, c
  <2>5. SegmentsIn(ws, n + 1) = [k \in 1 .. c + 1 |-> SegmentAt(ws, k)]
    BY <2>1 DEF SegmentsIn
  <2>6. Append([k \in 1 .. c |-> SegmentAt(ws, k)], SegmentAt(ws, c + 1)) = [k \in 1 .. c + 1 |-> SegmentAt(ws, k)]
    BY <2>1
  <2>7. QED
    BY <1>1, <2>3, <2>4, <2>5, <2>6
<1>2. CASE ~Ends(ws, n + 1)
  BY <1>2, EndingsNext DEF SegmentsIn
<1>3. QED
  BY <1>1, <1>2

-----------------------------------------------------------------------------
(* What the induction needs besides TaggerIsOwners: words are sequences    *)
(* and the loop index is inside the loop.                                  *)
SegShape ==
    /\ seg_pc \in [Workers -> {"idle", "lock", "clear", "add", "read", "unlock", "done"}]
    /\ words \in [Workers -> Seq(Seq(Nat))]
    /\ row \in [Workers -> Nat]
    /\ \A w \in Workers :
        seg_pc[w] = "add" => row[w] \in 1 .. Len(words[w]) + 1

SegInv == SegShape /\ TaggerIsOwners

LEMMA SegInitInv == SegInit => SegInv
  BY DEF SegInit, SegInv, SegShape, TaggerIsOwners, Critical

LEMMA SegStepInv == SegInv /\ [SegNext]_segVars => SegInv'
<1> SUFFICES ASSUME SegInv, [SegNext]_segVars PROVE SegInv'
  OBVIOUS
<1> USE WordSegAssumption DEF SegInv, SegShape, TaggerIsOwners, Critical, Goto,
                              MutexFree, OnFail, Rest
<1>1. ASSUME NEW w \in Workers, NEW ws \in Seq(Seq(Nat)), Segment(w, ws)
      PROVE  SegInv'
  BY <1>1 DEF Segment
<1>2. ASSUME NEW w \in Workers, Lock(w) PROVE SegInv'
  BY <1>2 DEF Lock
<1>3. ASSUME NEW w \in Workers, Clear(w) PROVE SegInv'
  <2>1. SubSeq(words[w], 1, 0) = << >>
    BY SubSeqProperties, EmptySeq
  <2>2. QED
    BY <1>3, <2>1 DEF Clear
<1>4. ASSUME NEW w \in Workers, AddWord(w) PROVE SegInv'
  <2>1. /\ row[w] \in 1 .. Len(words[w]) /\ words[w] \in Seq(Seq(Nat))
        /\ Len(words[w]) \in Nat
    BY <1>4, LenProperties DEF AddWord
  <2>2. tagger' = SubSeq(words[w], 1, row[w])
    <3>1. row[w] - 1 \in Nat /\ row[w] = (row[w] - 1) + 1 /\ 1 <= row[w]
      BY <2>1
    <3>2. Append(SubSeq(words[w], 1, row[w] - 1), words[w][row[w]]) = SubSeq(words[w], 1, row[w])
      BY <2>1, <3>1, AppendNext
    <3>3. QED
      BY <1>4, <3>2 DEF AddWord
  <2>3. QED
    BY <1>4, <2>1, <2>2 DEF AddWord
<1>5. ASSUME NEW w \in Workers, ParseWords(w) PROVE SegInv'
  <2>1. /\ words[w] \in Seq(Seq(Nat)) /\ Len(words[w]) \in Nat
        /\ row[w] = Len(words[w]) + 1
    BY <1>5, LenProperties DEF ParseWords
  <2>2. SubSeq(words[w], 1, Len(words[w])) = words[w]
    BY <2>1, SubSeqFull
  <2>3. tagger = words[w]
    <3>1. tagger = SubSeq(words[w], 1, row[w] - 1) /\ row[w] - 1 = Len(words[w])
      BY <1>5, <2>1 DEF ParseWords
    <3>2. QED
      BY <3>1, <2>2
  <2>4. /\ UNCHANGED <<tagger, seg_mutex, words>>
        /\ row' = [row EXCEPT ![w] = 1]
        /\ \E at \in {"read", "unlock"} : seg_pc' = [seg_pc EXCEPT ![w] = at]
    BY <1>5 DEF ParseWords
  <2>5. seg_pc[w] = "add"
    BY <1>5 DEF ParseWords
  <2>6. SegShape'
    BY <2>4
  <2>7. TaggerIsOwners'
    BY <2>3, <2>4, <2>5
  <2>8. QED
    BY <2>6, <2>7
<1>6. ASSUME NEW w \in Workers, ReadRow(w) PROVE SegInv'
  BY <1>6 DEF ReadRow
<1>7. ASSUME NEW w \in Workers, ReadEnd(w) PROVE SegInv'
  BY <1>7 DEF ReadEnd
<1>8. ASSUME NEW w \in Workers, Unlock(w) PROVE SegInv'
  BY <1>8 DEF Unlock
<1>9. ASSUME NEW w \in Workers, SegReturn(w) PROVE SegInv'
  <2>1. << >> \in Seq(Seq(Nat))
    BY EmptySeq
  <2>2. QED
    BY <1>9, <2>1 DEF SegReturn
<1>10. CASE UNCHANGED segVars
  BY <1>10 DEF segVars
<1>11. QED
  BY <1>1, <1>2, <1>3, <1>4, <1>5, <1>6, <1>7, <1>8, <1>9, <1>10 DEF SegNext, SegStep

(* What a call of segment returns: nothing if there is no tagger or the    *)
(* parse fails, else the segments of its words.                            *)
SegResults ==
    \A w \in Workers :
        /\ seg_pc[w] \in {"idle", "lock", "clear", "add"} => seg_results[w] = <<>>
        /\ seg_pc[w] # "read" => seg_str[w] = <<>>
        /\ seg_pc[w] = "read" =>
            /\ row[w] \in 1 .. Len(words[w]) + 1
            /\ seg_results[w] = SegmentsIn(words[w], row[w] - 1)
            /\ seg_str[w] = Reading(words[w], row[w] - 1)
        /\ seg_pc[w] \in {"unlock", "done"} =>
            seg_results[w] \in {<<>>, SegmentsIn(words[w], Len(words[w]))}

SegTypes ==
    /\ tagger = NoTagger \/ tagger \in Seq(Seq(Nat))
    /\ seg_mutex \in Workers \cup {NoWorker}
    /\ seg_str \in [Workers -> Seq(Nat)]
    /\ seg_results \in [Workers -> Seq(Seq(Nat))]

SegAll == SegInv /\ SegTypes /\ SegResults

LEMMA SegInitAll == SegInit => SegAll
<1>1. <<>> \in Seq(Seq(Nat)) /\ <<>> \in Seq(Nat)
  OBVIOUS
<1>2. QED
  BY <1>1, SegInitInv DEF SegInit, SegAll, SegTypes, SegResults

LEMMA SegStepAll == SegAll /\ [SegNext]_segVars => SegAll'
<1> SUFFICES ASSUME SegAll, [SegNext]_segVars PROVE SegAll'
  OBVIOUS
<1>1. SegInv'
  BY SegStepInv DEF SegAll
<1>2. \A w \in Workers : words[w] \in Seq(Seq(Nat)) /\ Len(words[w]) \in Nat /\ row[w] \in Nat
  BY LenProperties DEF SegAll, SegInv, SegShape
<1>3. SUFFICES SegTypes' /\ SegResults'
  BY <1>1 DEF SegAll
<1> USE DEF Goto
<1>4. ASSUME NEW w \in Workers, NEW ws \in Seq(Seq(Nat)), Segment(w, ws)
      PROVE  SegTypes' /\ SegResults'
  <2>1. <<>> \in Seq(Seq(Nat))
    OBVIOUS
  <2>2. SegTypes'
    BY <1>4, <2>1 DEF Segment, SegAll, SegTypes
  <2>3. SegResults'
    BY <1>4 DEF Segment, SegAll, SegInv, SegShape, SegTypes, SegResults
  <2>4. QED
    BY <2>2, <2>3
<1>5. ASSUME NEW w \in Workers, Lock(w) PROVE SegTypes' /\ SegResults'
  BY <1>5 DEF Lock, SegAll, SegInv, SegShape, SegTypes, SegResults
<1>6. ASSUME NEW w \in Workers, Clear(w) PROVE SegTypes' /\ SegResults'
  <2>1. <<>> \in Seq(Seq(Nat))
    OBVIOUS
  <2>2. SegTypes'
    BY <1>6, <2>1 DEF Clear, SegAll, SegTypes
  <2>3. SegResults'
    BY <1>6 DEF Clear, SegAll, SegInv, SegShape, SegTypes, SegResults
  <2>4. QED
    BY <2>2, <2>3
<1>7. ASSUME NEW w \in Workers, AddWord(w) PROVE SegTypes' /\ SegResults'
  <2>1. tagger' \in Seq(Seq(Nat))
    <3>1. seg_pc'[w] = "add"
      BY <1>7 DEF AddWord, SegAll, SegInv, SegShape
    <3>2. tagger' = SubSeq(words'[w], 1, row'[w] - 1)
      BY <1>1, <3>1 DEF SegInv, TaggerIsOwners
    <3>3. row'[w] - 1 \in 1 .. Len(words[w]) /\ words' = words
      BY <1>2, <1>7 DEF AddWord, SegAll, SegInv, SegShape
    <3>4. QED
      BY <1>2, <3>2, <3>3, SubSeqProperties
  <2>2. SegTypes'
    BY <1>7, <2>1 DEF AddWord, SegAll, SegTypes
  <2>3. SegResults'
    BY <1>7 DEF AddWord, SegAll, SegInv, SegShape, SegTypes, SegResults
  <2>4. QED
    BY <2>2, <2>3
<1>8. ASSUME NEW w \in Workers, ParseWords(w) PROVE SegTypes' /\ SegResults'
  <2>1. SegTypes'
    BY <1>8 DEF ParseWords, SegAll, SegTypes
  <2>2. /\ seg_results[w] = <<>> /\ seg_str[w] = <<>>
        /\ SegmentsIn(words[w], 0) = <<>> /\ Reading(words[w], 0) = <<>>
    BY <1>2, <1>8, NothingRead DEF ParseWords, SegAll, SegResults
  <2>3. /\ row' = [row EXCEPT ![w] = 1]
        /\ \E at \in {"read", "unlock"} : seg_pc' = [seg_pc EXCEPT ![w] = at]
        /\ UNCHANGED <<words, seg_str, seg_results>>
    BY <1>8 DEF ParseWords, OnFail
  <2>4. SegResults'
    <3> SUFFICES ASSUME NEW v \in Workers
                 PROVE  /\ seg_pc'[v] \in {"idle", "lock", "clear", "add"} => seg_results'[v] = <<>>
                        /\ seg_pc'[v] # "read" => seg_str'[v] = <<>>
                        /\ seg_pc'[v] = "read" =>
                            /\ row'[v] \in 1 .. Len(words'[v]) + 1
                            /\ seg_results'[v] = SegmentsIn(words'[v], row'[v] - 1)
                            /\ seg_str'[v] = Reading(words'[v], row'[v] - 1)
                        /\ seg_pc'[v] \in {"unlock", "done"} =>
                            seg_results'[v] \in {<<>>, SegmentsIn(words'[v], Len(words'[v]))}
      BY DEF SegResults
    <3>1. CASE v # w
      <4>1. seg_pc'[v] = seg_pc[v] /\ row'[v] = row[v]
        BY <2>3, <3>1 DEF SegAll, SegInv, SegShape
      <4>2. QED
        BY <2>3, <4>1 DEF SegAll, SegResults
    <3>2. CASE v = w
      <4>1. seg_pc'[w] \in {"read", "unlock"} /\ row'[w] = 1
        BY <2>3 DEF SegAll, SegInv, SegShape
      <4>2. Len(words[w]) \in Nat
        BY DEF SegAll, SegInv, SegShape
      <4>3. 1 - 1 = 0
        OBVIOUS
      <4>4. QED
        BY <2>2, <2>3, <3>2, <4>1, <4>2, <4>3
    <3>3. QED
      BY <3>1, <3>2
  <2>5. QED
    BY <2>1, <2>4
<1>9. ASSUME NEW w \in Workers, ReadRow(w) PROVE SegTypes' /\ SegResults'
  <2> DEFINE n == row[w] - 1
             ws == words[w]
             str == seg_str[w] \o ws[n + 1]
  <2>1. /\ tagger = ws /\ ws \in Seq(Seq(Nat)) /\ n \in Nat /\ n + 1 <= Len(ws) /\ row[w] = n + 1
        /\ seg_results[w] = SegmentsIn(ws, n) /\ seg_str[w] = Reading(ws, n)
        /\ seg_pc[w] = "read"
    BY <1>2, <1>9 DEF ReadRow, SegAll, SegInv, TaggerIsOwners, SegResults
  <2>2. str \in Seq(Nat) /\ Append(seg_results[w], str) \in Seq(Seq(Nat))
    <3>1. seg_str[w] \in Seq(Nat) /\ ws[n + 1] \in Seq(Nat) /\ seg_results[w] \in Seq(Seq(Nat))
      BY <2>1 DEF SegAll, SegTypes
    <3>2. str \in Seq(Nat)
      BY <3>1, ConcatProperties
    <3>3. QED
      BY <3>1, <3>2, AppendProperties
  <2>3. /\ row' = [row EXCEPT ![w] = @ + 1]
        /\ UNCHANGED <<tagger, seg_mutex, seg_pc, words>>
        /\ Ends(ws, n + 1) => /\ seg_results' = [seg_results EXCEPT ![w] = Append(@, str)]
                              /\ seg_str' = [seg_str EXCEPT ![w] = <<>>]
        /\ ~Ends(ws, n + 1) => /\ seg_str' = [seg_str EXCEPT ![w] = str]
                               /\ UNCHANGED seg_results
    BY <1>9, <2>1 DEF ReadRow
  <2>4. SegTypes'
    <3>1. <<>> \in Seq(Nat)
      OBVIOUS
    <3>2. QED
      BY <2>2, <2>3, <3>1 DEF SegAll, SegTypes
  <2>5. /\ Ends(ws, n + 1) => /\ SegmentsIn(ws, n + 1) = Append(seg_results[w], str)
                              /\ Reading(ws, n + 1) = <<>>
        /\ ~Ends(ws, n + 1) => /\ SegmentsIn(ws, n + 1) = seg_results[w]
                               /\ Reading(ws, n + 1) = str
    BY <2>1, ReadingNext, SegmentsNext
  <2>6. ASSUME NEW v \in Workers, v # w
        PROVE  /\ seg_pc'[v] = seg_pc[v] /\ seg_results'[v] = seg_results[v]
               /\ seg_str'[v] = seg_str[v] /\ row'[v] = row[v] /\ words'[v] = words[v]
    BY <2>3, <2>6 DEF SegAll, SegInv, SegShape, SegTypes
  <2>7. /\ seg_pc'[w] = "read" /\ words'[w] = ws /\ row'[w] = n + 2 /\ row'[w] - 1 = n + 1
        /\ seg_results'[w] = SegmentsIn(ws, n + 1) /\ seg_str'[w] = Reading(ws, n + 1)
    <3>1. seg_pc'[w] = "read" /\ words'[w] = ws /\ row'[w] = row[w] + 1
      BY <2>1, <2>3 DEF SegAll, SegInv, SegShape
    <3>2. row'[w] = n + 2 /\ row'[w] - 1 = n + 1
      BY <2>1, <3>1
    <3> HIDE DEF str
    <3>3. CASE Ends(ws, n + 1)
      BY <2>3, <2>5, <3>1, <3>2, <3>3 DEF SegAll, SegTypes
    <3>4. CASE ~Ends(ws, n + 1)
      BY <2>3, <2>5, <3>1, <3>2, <3>4 DEF SegAll, SegTypes
    <3>5. QED
      BY <3>3, <3>4
  <2>8. row'[w] \in 1 .. Len(words'[w]) + 1
    BY <1>2, <2>1, <2>7
  <2> HIDE DEF n, ws, str
  <2>9. SegResults'
    <3> SUFFICES ASSUME NEW v \in Workers
                 PROVE  /\ seg_pc'[v] \in {"idle", "lock", "clear", "add"} => seg_results'[v] = <<>>
                        /\ seg_pc'[v] # "read" => seg_str'[v] = <<>>
                        /\ seg_pc'[v] = "read" =>
                            /\ row'[v] \in 1 .. Len(words'[v]) + 1
                            /\ seg_results'[v] = SegmentsIn(words'[v], row'[v] - 1)
                            /\ seg_str'[v] = Reading(words'[v], row'[v] - 1)
                        /\ seg_pc'[v] \in {"unlock", "done"} =>
                            seg_results'[v] \in {<<>>, SegmentsIn(words'[v], Len(words'[v]))}
      BY DEF SegResults
    <3>1. CASE v = w
      BY <2>7, <2>8, <3>1
    <3>2. CASE v # w
      BY <2>6, <3>2 DEF SegAll, SegResults
    <3>3. QED
      BY <3>1, <3>2
  <2>10. QED
    BY <2>4, <2>9
<1>10. ASSUME NEW w \in Workers, ReadEnd(w) PROVE SegTypes' /\ SegResults'
  <2>1. seg_pc[w] = "read" /\ tagger = words[w] /\ row[w] - 1 = Len(words[w])
    BY <1>2, <1>10 DEF ReadEnd, SegAll, SegInv, TaggerIsOwners, SegResults
  <2>2. seg_results[w] = SegmentsIn(words[w], Len(words[w]))
    BY <2>1 DEF SegAll, SegResults
  <2>3. <<>> \in Seq(Nat)
    OBVIOUS
  <2>4. SegTypes'
    BY <1>10, <2>3 DEF ReadEnd, Rest, SegAll, SegTypes
  <2>5. SegResults'
    BY <1>10, <2>2 DEF ReadEnd, Rest, SegAll, SegInv, SegShape, SegTypes, SegResults
  <2>6. QED
    BY <2>4, <2>5
<1>11. ASSUME NEW w \in Workers, Unlock(w) PROVE SegTypes' /\ SegResults'
  BY <1>11 DEF Unlock, SegAll, SegInv, SegShape, SegTypes, SegResults
<1>12. ASSUME NEW w \in Workers, SegReturn(w) PROVE SegTypes' /\ SegResults'
  <2>1. <<>> \in Seq(Seq(Nat))
    OBVIOUS
  <2>2. SegTypes'
    BY <1>12, <2>1 DEF SegReturn, SegAll, SegTypes
  <2>3. SegResults'
    BY <1>12 DEF SegReturn, SegAll, SegInv, SegShape, SegTypes, SegResults
  <2>4. QED
    BY <2>2, <2>3
<1>13. CASE UNCHANGED segVars
  BY <1>13 DEF segVars, SegAll, SegTypes, SegResults
<1>14. QED
  BY <1>4, <1>5, <1>6, <1>7, <1>8, <1>9, <1>10, <1>11, <1>12, <1>13 DEF SegNext, SegStep

(* While a worker is between lock and unlock the tagger holds the words it *)
(* has added, and nobody else's: the segments it reads are those of its    *)
(* own text (wordseg.cpp 63-87).                                           *)
THEOREM TaggerIsOwnersCorrect == SegSpec => []TaggerIsOwners
<1>1. SegInv => TaggerIsOwners
  BY DEF SegInv
<1>2. QED
  BY SegInitInv, SegStepInv, <1>1, PTL DEF SegSpec

-----------------------------------------------------------------------------
(* The loop of _run_uri.  The strategies list[1] .. list[n - 1] have run.  *)
Ran(list, n, name) == \E i \in 1 .. n - 1 : list[i] = name

(* The members of the Json object obj; text: TextStrategy is running.      *)
Members(list, n, text, obj) ==
    /\ DOMAIN obj \subseteq {"text", "seg", "rewrite", "search", "suggest"}
    /\ "text" \in DOMAIN obj <=> text \/ Ran(list, n, "TextStrategy")
    /\ "rewrite" \in DOMAIN obj <=> Ran(list, n, "RewriteStrategy")
    /\ "search" \in DOMAIN obj <=> Ran(list, n, "SearchStrategy")
    /\ "suggest" \in DOMAIN obj <=> Ran(list, n, "SuggestStrategy")

SegOf(obj) == IF "seg" \in DOMAIN obj THEN obj["seg"] ELSE Null

(* The segments are those of q, and only after TextStrategy has run.       *)
SegRight(list, n, q, obj) ==
    SegOf(obj) # Null => Ran(list, n, "TextStrategy") /\ SegOf(obj) = SegmentsOf(q)

LEMMA RanNext ==
    ASSUME NEW list, NEW n \in Nat \ {0}, NEW name
    PROVE  Ran(list, n + 1, name) <=> Ran(list, n, name) \/ list[n] = name
<1>1. 1 .. (n + 1) - 1 = (1 .. n - 1) \cup {n}
  OBVIOUS
<1>2. QED
  BY <1>1 DEF Ran

LEMMA NoneRan == ASSUME NEW list, NEW name PROVE ~Ran(list, 1, name)
  BY DEF Ran

LEMMA PutIs ==
    ASSUME NEW obj, NEW m, NEW val
    PROVE  /\ DOMAIN Put(obj, m, val) = DOMAIN obj \cup {m}
           /\ Put(obj, m, val)[m] = val
           /\ \A k \in DOMAIN obj : k # m => Put(obj, m, val)[k] = obj[k]
  BY DEF Put

(* What a member other than seg changes when a strategy ends, or when      *)
(* TextStrategy begins.                                                    *)
LEMMA PutKeepsSeg ==
    ASSUME NEW obj, NEW m, m # "seg", NEW val
    PROVE  SegOf(Put(obj, m, val)) = SegOf(obj)
  BY DEF Put, SegOf

LEMMA PutSeg ==
    ASSUME NEW obj, NEW val
    PROVE  SegOf(Put(obj, "seg", val)) = val
  BY DEF Put, SegOf

LEMMA SegRightNext ==
    ASSUME NEW list, NEW n \in Nat \ {0}, NEW q, NEW obj, SegRight(list, n, q, obj)
    PROVE  SegRight(list, n + 1, q, obj)
  BY RanNext DEF SegRight

StrategyOf(m) ==
    CASE m = "text"    -> "TextStrategy"
      [] m = "rewrite" -> "RewriteStrategy"
      [] m = "search"  -> "SearchStrategy"
      [] m = "suggest" -> "SuggestStrategy"

LEMMA MembersNext ==
    ASSUME NEW list, NEW n \in Nat \ {0}, NEW obj, Members(list, n, FALSE, obj),
           NEW m \in {"rewrite", "search", "suggest"}, list[n] = StrategyOf(m), NEW val
    PROVE  Members(list, n + 1, FALSE, Put(obj, m, val))
<1>1. DOMAIN Put(obj, m, val) = DOMAIN obj \cup {m}
  BY PutIs
<1>2. QED
  BY <1>1, RanNext DEF Members, StrategyOf

(* Whose request w serves, and how far it is.                              *)
Serves(w) == \E r \in Arriving : sent[w] = r.meant /\ request[w] = r.parsed

Query(w) == GetQuery(request[w].request)

Answers(w) ==
    "search" \in DOMAIN root[w] =>
        \E seg \in {Null, SegmentsOf(Query(w))} :
            root[w]["search"] = SearchReply(seg, GetPage(request[w].request))

InLoop(w) ==
    /\ Serves(w)
    /\ next[w] \in 1 .. Len(Strategies(w)) + 1
    /\ Members(Strategies(w), next[w], pc[w] = "text", root[w])
    /\ SegRight(Strategies(w), next[w], Query(w), root[w])
    /\ Answers(w)

WorkerInv(w) ==
    /\ pc[w] \in {"idle", "run", "text"}
    /\ pc[w] = "text" <=> seg_pc[w] # "idle"
    /\ pc[w] = "idle" => root[w] = Null
    /\ pc[w] # "idle" => InLoop(w)
    /\ pc[w] = "text" =>
        /\ next[w] <= Len(Strategies(w)) /\ Strategies(w)[next[w]] = "TextStrategy"
        /\ words[w] = SplitChWords(Query(w))

StartedUp ==
    /\ confs \in Confs /\ suggest_file \in SuggestFiles
    /\ conf_dict = ReadSubConf(confs.sub)
    /\ uri_map = InitStrategies(ReadConfFile(confs.strategy))
    /\ index_dict = Configured("index_file")
    /\ DOMAIN doc_length = {u \in DOMAIN uri_map : "SearchStrategy" \in Range(uri_map[u])}

ReqInv ==
    /\ SegAll
    /\ StartedUp
    /\ pc = [w \in Workers |-> pc[w]] /\ sent = [w \in Workers |-> sent[w]]
    /\ request = [w \in Workers |-> request[w]] /\ next = [w \in Workers |-> next[w]]
    /\ root = [w \in Workers |-> root[w]]
    /\ \A w \in Workers : WorkerInv(w)

(* What a step of another worker leaves alone.                             *)
LEMMA OthersKept ==
    ASSUME NEW v \in Workers, WorkerInv(v), UNCHANGED startUpVars,
           pc'[v] = pc[v], sent'[v] = sent[v], request'[v] = request[v],
           next'[v] = next[v], root'[v] = root[v], words'[v] = words[v],
           seg_pc'[v] = "idle" <=> seg_pc[v] = "idle"
    PROVE  WorkerInv(v)'
<1>1. Strategies(v)' = Strategies(v) /\ Query(v)' = Query(v)
  BY DEF Strategies, Query, startUpVars
<1>2. \A seg, page : SearchReply(seg, page)' = SearchReply(seg, page)
  BY DEF SearchReply, Found, startUpVars
<1>3. Serves(v)' <=> Serves(v)
  BY DEF Serves
<1>4. Answers(v)' <=> Answers(v)
  BY <1>1, <1>2 DEF Answers
<1>5. InLoop(v)' <=> InLoop(v)
  BY <1>1, <1>3, <1>4 DEF InLoop
<1>6. QED
  BY <1>1, <1>5 DEF WorkerInv

LEMMA SegFrame ==
    ASSUME SegAll, NEW w \in Workers
    PROVE  /\ \A ws : Segment(w, ws) =>
                /\ seg_pc[w] = "idle" /\ seg_pc'[w] # "idle" /\ words'[w] = ws
                /\ \A v \in Workers \ {w} : seg_pc'[v] = seg_pc[v] /\ words'[v] = words[v]
           /\ SegStep(w) =>
                /\ seg_pc[w] # "idle" /\ seg_pc'[w] # "idle" /\ words' = words
                /\ \A v \in Workers \ {w} : seg_pc'[v] = seg_pc[v]
           /\ SegReturn(w) =>
                /\ seg_pc'[w] = "idle"
                /\ \A v \in Workers \ {w} : seg_pc'[v] = seg_pc[v] /\ words'[v] = words[v]
<1>1. seg_pc = [v \in Workers |-> seg_pc[v]] /\ words = [v \in Workers |-> words[v]]
  BY DEF SegAll, SegInv, SegShape
<1>2. ASSUME NEW ws, Segment(w, ws)
      PROVE  /\ seg_pc[w] = "idle" /\ seg_pc'[w] # "idle" /\ words'[w] = ws
             /\ \A v \in Workers \ {w} : seg_pc'[v] = seg_pc[v] /\ words'[v] = words[v]
  BY <1>1, <1>2 DEF Segment, Goto
<1>3. ASSUME SegStep(w)
      PROVE  /\ seg_pc[w] # "idle" /\ seg_pc'[w] # "idle" /\ words' = words
             /\ \A v \in Workers \ {w} : seg_pc'[v] = seg_pc[v]
  <2>1. CASE AddWord(w) \/ ReadRow(w)
    BY <2>1 DEF AddWord, ReadRow
  <2>2. CASE Lock(w) \/ Clear(w) \/ ParseWords(w) \/ ReadEnd(w) \/ Unlock(w)
    BY <1>1, <2>2 DEF Lock, Clear, ParseWords, ReadEnd, Unlock, Goto, OnFail
  <2>3. QED
    BY <1>3, <2>1, <2>2 DEF SegStep
<1>4. ASSUME SegReturn(w)
      PROVE  /\ seg_pc'[w] = "idle"
             /\ \A v \in Workers \ {w} : seg_pc'[v] = seg_pc[v] /\ words'[v] = words[v]
  BY <1>1, <1>4 DEF SegReturn, Goto
<1>5. QED
  BY <1>2, <1>3, <1>4

LEMMA SeqOfMore ==
    ASSUME NEW S, NEW T, S \subseteq T, NEW s \in Seq(S)
    PROVE  s \in Seq(T)
<1>1. Len(s) \in Nat /\ \A i \in 1 .. Len(s) : s[i] \in T
  OBVIOUS
<1>2. SubSeq(s, 1, Len(s)) \in Seq(T)
  BY <1>1, SubSeqProperties
<1>3. QED
  BY <1>2, SubSeqFull

LEMMA SplitType ==
    ASSUME NEW s \in Seq(Byte)
    PROVE  SplitChWords(s) \in Seq(Seq(Nat))
<1>1. PICK from \in [1 .. Len(s) + 1 -> Seq(Seq(Byte))] : SplitChWords(s) = from[1]
  BY SplitChWordsLoop
<1>2. SplitChWords(s) \in Seq(Seq(Byte))
  BY <1>1
<1>3. Byte \subseteq Nat
  BY DEF Byte
<1>4. Seq(Byte) \subseteq Seq(Nat)
  BY <1>3, SeqOfMore
<1>5. QED
  BY <1>2, <1>4, SeqOfMore

LEMMA ArrivingMeant ==
    ASSUME NEW r \in Arriving
    PROVE  r.meant \in Meant /\ r.meant.uri \in Uri /\ r.meant.q \in Queries
<1>1. PICK m \in Meant : r.meant = m
  BY DEF Arriving
<1>2. QED
  BY <1>1 DEF Meant

LEMMA ServedAsMeant ==
    ASSUME NEW w \in Workers, Serves(w)
    PROVE  /\ sent[w] \in Meant /\ ~request[w].beyond
           /\ request[w].request.url = <<sent[w].uri>>
           /\ Query(w) = sent[w].q
           /\ SplitChWords(Query(w)) \in Seq(Seq(Nat))
           /\ GetPage(request[w].request) = Asked(sent[w])
           /\ Strategies(w) = Run(w)
<1>1. PICK r \in Arriving : sent[w] = r.meant /\ request[w] = r.parsed
  BY DEF Serves
<1>2. sent[w] \in Meant /\ sent[w].q \in Seq(Byte)
  BY <1>1, ArrivingMeant, RequestsAssumption DEF Byte
<1>3. /\ ~request[w].beyond /\ request[w].request.url = <<sent[w].uri>>
      /\ Query(w) = sent[w].q
      /\ GetPage(request[w].request) = Asked(sent[w])
  BY <1>1, RequestReadAsMeant DEF ReadsAsMeant, Query
<1>4. SplitChWords(Query(w)) \in Seq(Seq(Nat))
  BY <1>2, <1>3, SplitType
<1>5. Strategies(w) = Run(w)
  BY <1>3 DEF Strategies, Run
<1>6. QED
  BY <1>2, <1>3, <1>4, <1>5

(* The lists in uri_map.                                                   *)
IsList(list) ==
    /\ list \in Seq(Known)
    /\ \A i, j \in 1 .. Len(list) : list[i] = "TextStrategy" /\ list[j] = "TextStrategy" => i = j

LEMMA ListsRead ==
    ASSUME TextOnce, StartedUp
    PROVE  \A u \in DOMAIN uri_map : IsList(uri_map[u])
<1> SUFFICES ASSUME NEW u \in DOMAIN uri_map PROVE IsList(uri_map[u])
  OBVIOUS
<1> DEFINE lines == confs.strategy
           dict == ReadConfFile(lines)
<1>1. lines \in Seq(ConfLine) /\ ListedOnce(lines, "TextStrategy") /\ uri_map = InitStrategies(dict)
  BY RequestsAssumption DEF StartedUp, TextOnce
<1>2. dict \in SectionLists
  BY <1>1, SectionsRead
<1> HIDE DEF lines
<1>3. u \in DOMAIN dict /\ uri_map[u] = dict[u] /\ Range(dict[u]) \subseteq Known
  <2> HIDE DEF dict
  <2>1. PICK i \in DOMAIN Uris :
          u = Uris[i] /\ \A j \in 1 .. i : Uris[j] \in DOMAIN dict => Range(dict[Uris[j]]) \subseteq Known
    BY <1>1 DEF InitStrategies
  <2>2. u \in DOMAIN dict /\ uri_map[u] = dict[u]
    BY <1>1 DEF InitStrategies
  <2>3. i \in 1 .. i
    BY UrisAssumption
  <2>4. QED
    BY <2>1, <2>2, <2>3
<1>4. \A i, j \in DOMAIN dict[u] : dict[u][i] = "TextStrategy" /\ dict[u][j] = "TextStrategy" => i = j
  BY <1>1, <1>3, ListsOnce
<1>5. dict[u] \in Seq(STRING)
  <2> HIDE DEF dict
  <2>1. QED
    BY <1>2, <1>3 DEF SectionLists
<1> DEFINE list == dict[u]
<1> HIDE DEF dict, list
<1>6. DOMAIN list = 1 .. Len(list) /\ Len(list) \in Nat
  BY <1>5 DEF list
<1>7. \A i \in 1 .. Len(list) : list[i] \in Known
  BY <1>3, <1>6 DEF Range, list
<1>8. list \in Seq(Known)
  <2>1. SubSeq(list, 1, Len(list)) \in Seq(Known)
    BY <1>6, <1>7, SubSeqProperties
  <2>2. QED
    BY <1>5, <2>1, SubSeqFull DEF list
<1>9. QED
  BY <1>3, <1>4, <1>6, <1>8 DEF IsList, list

LEMMA EmptyList == IsList(<<>>)
  BY DEF IsList

LEMMA StrategiesListed ==
    ASSUME TextOnce, StartedUp, NEW w
    PROVE  /\ IsList(Strategies(w))
           /\ uri_map' = uri_map => IsList(Strategies(w)')
<1>1. IsList(Strategies(w))
  BY ListsRead, EmptyList DEF Strategies
<1>2. ASSUME uri_map' = uri_map PROVE IsList(Strategies(w)')
  BY <1>2, ListsRead, EmptyList DEF Strategies
<1>3. QED
  BY <1>1, <1>2

LEMMA ReqInit == Init => ReqInv
<1> SUFFICES ASSUME Init PROVE ReqInv
  OBVIOUS
<1>1. SegAll
  BY SegInitAll DEF Init
<1>2. StartedUp
  BY DEF Init, StartedUp
<1>3. \A w \in Workers : WorkerInv(w)
  BY DEF Init, SegInit, WorkerInv
<1>4. QED
  BY <1>1, <1>2, <1>3 DEF Init, ReqInv

(* Every step is one of WordSeg's, for words, or leaves the tagger alone.  *)
LEMMA UsesTagger ==
    ASSUME ReqInv, [Next]_vars
    PROVE  [SegNext]_segVars
<1>1. ASSUME NEW w \in Workers, TextBegin(w) PROVE [SegNext]_segVars
  <2>1. Serves(w)
    BY <1>1 DEF TextBegin, Runs, ReqInv, WorkerInv, InLoop
  <2>2. SplitChWords(Query(w)) \in Seq(Seq(Nat))
    BY <2>1, ServedAsMeant
  <2>3. Segment(w, SplitChWords(Query(w)))
    BY <1>1 DEF TextBegin, Query
  <2>4. QED
    BY <2>2, <2>3 DEF SegNext
<1>2. ASSUME NEW w \in Workers, TextSegment(w) PROVE [SegNext]_segVars
  BY <1>2 DEF TextSegment, SegNext
<1>3. ASSUME NEW w \in Workers, TextEnd(w) PROVE [SegNext]_segVars
  BY <1>3 DEF TextEnd, SegNext
<1>4. ASSUME NEW w \in Workers,
             TakeRequest(w) \/ Rewrite(w) \/ SearchRun(w) \/ Suggest(w) \/ Reply(w)
      PROVE  [SegNext]_segVars
  BY <1>4 DEF TakeRequest, Rewrite, SearchRun, Suggest, Reply
<1>5. CASE UNCHANGED vars
  BY <1>5 DEF vars
<1>6. QED
  BY <1>1, <1>2, <1>3, <1>4, <1>5 DEF Next, Serve

(* A step of w keeps the invariant if it keeps w's part.                   *)
LEMMA StepOf ==
    ASSUME ReqInv, SegAll', NEW w \in Workers, WorkerInv(w)', UNCHANGED startUpVars,
           DOMAIN doc_length' = DOMAIN doc_length,
           \E x : pc' = [pc EXCEPT ![w] = x], \E x : sent' = [sent EXCEPT ![w] = x],
           \E x : request' = [request EXCEPT ![w] = x], \E x : next' = [next EXCEPT ![w] = x],
           \E x : root' = [root EXCEPT ![w] = x],
           \A v \in Workers \ {w} : seg_pc'[v] = seg_pc[v] /\ words'[v] = words[v]
    PROVE  ReqInv'
<1>1. StartedUp'
  <2>1. Configured("index_file")' = Configured("index_file")
    BY DEF Configured, Files, startUpVars
  <2>2. QED
    BY <2>1 DEF ReqInv, StartedUp, startUpVars
<1>2. /\ pc' = [v \in Workers |-> pc'[v]] /\ sent' = [v \in Workers |-> sent'[v]]
      /\ request' = [v \in Workers |-> request'[v]] /\ next' = [v \in Workers |-> next'[v]]
      /\ root' = [v \in Workers |-> root'[v]]
  BY DEF ReqInv
<1>3. ASSUME NEW v \in Workers, v # w PROVE WorkerInv(v)'
  <2>1. /\ pc'[v] = pc[v] /\ sent'[v] = sent[v] /\ request'[v] = request[v]
        /\ next'[v] = next[v] /\ root'[v] = root[v]
    BY <1>3 DEF ReqInv
  <2>2. WorkerInv(v)
    BY DEF ReqInv
  <2>3. QED
    BY <1>3, <2>1, <2>2, OthersKept
<1>4. QED
  BY <1>1, <1>2, <1>3 DEF ReqInv

LEMMA TakeRequestKeeps ==
    ASSUME TextOnce, ReqInv, SegAll', NEW w \in Workers, TakeRequest(w)
    PROVE  ReqInv'
<1>1. PICK r \in Arriving : sent' = [sent EXCEPT ![w] = r.meant] /\ request' = [request EXCEPT ![w] = r.parsed]
  BY DEF TakeRequest
<1>2. /\ pc'[w] = "run" /\ next'[w] = 1 /\ root' = root /\ root[w] = Null
      /\ sent'[w] = r.meant /\ request'[w] = r.parsed /\ seg_pc'[w] = "idle"
  BY <1>1 DEF TakeRequest, ReqInv, WorkerInv, segVars
<1>3. Serves(w)'
  BY <1>2 DEF Serves
<1>4. Members(Strategies(w)', 1, FALSE, Null) /\ SegRight(Strategies(w)', 1, Query(w)', Null)
  BY NoneRan DEF Members, SegRight, SegOf, Null
<1>5. InLoop(w)'
  <2>1. 1 \in 1 .. Len(Strategies(w)') + 1
    <3>1. uri_map' = uri_map /\ StartedUp
      BY DEF TakeRequest, startUpVars, ReqInv
    <3>2. Strategies(w)' \in Seq(Known)
      BY <3>1, StrategiesListed DEF IsList
    <3>3. QED
      BY <3>2
  <2>2. Answers(w)'
    BY <1>2 DEF Answers, Null
  <2>3. QED
    BY <1>2, <1>3, <1>4, <2>1, <2>2 DEF InLoop
<1>6. WorkerInv(w)'
  BY <1>2, <1>5 DEF WorkerInv
<1>7. /\ UNCHANGED startUpVars /\ DOMAIN doc_length' = DOMAIN doc_length
      /\ pc' = [pc EXCEPT ![w] = "run"] /\ next' = [next EXCEPT ![w] = 1]
      /\ root' = [root EXCEPT ![w] = root[w]] /\ seg_pc' = seg_pc /\ words' = words
  BY DEF TakeRequest, segVars, ReqInv
<1>8. QED
  BY <1>1, <1>6, <1>7, StepOf

LEMMA RunsAt ==
    ASSUME TextOnce, ReqInv, NEW w \in Workers, NEW name, Runs(w, name)
    PROVE  /\ pc[w] = "run" /\ seg_pc[w] = "idle"
           /\ next[w] \in Nat \ {0} /\ next[w] + 1 \in 1 .. Len(Strategies(w)) + 1
           /\ next[w] <= Len(Strategies(w)) /\ Strategies(w)[next[w]] = name
           /\ Serves(w) /\ Members(Strategies(w), next[w], FALSE, root[w])
           /\ SegRight(Strategies(w), next[w], Query(w), root[w]) /\ Answers(w)
<1>1. InLoop(w) /\ pc[w] = "run" /\ seg_pc[w] = "idle"
  BY DEF Runs, ReqInv, WorkerInv
<1>2. Members(Strategies(w), next[w], FALSE, root[w])
  BY <1>1 DEF InLoop
<1>3. Len(Strategies(w)) \in Nat
  BY StrategiesListed DEF IsList, ReqInv
<1>4. next[w] \in 1 .. Len(Strategies(w)) + 1 /\ next[w] <= Len(Strategies(w))
  BY <1>1 DEF InLoop, Runs
<1>5. next[w] \in Nat \ {0} /\ next[w] + 1 \in 1 .. Len(Strategies(w)) + 1
  BY <1>3, <1>4
<1>6. QED
  BY <1>1, <1>2, <1>4, <1>5 DEF Runs, InLoop

(* What the request of w is about stays as long as w serves it.            *)
SameRequest(w) ==
    /\ UNCHANGED startUpVars
    /\ sent'[w] = sent[w] /\ request'[w] = request[w]

LEMMA SameRequestKeeps ==
    ASSUME NEW w \in Workers, SameRequest(w)
    PROVE  /\ Strategies(w)' = Strategies(w) /\ Query(w)' = Query(w)
           /\ Serves(w) => Serves(w)'
           /\ \A seg, page : SearchReply(seg, page)' = SearchReply(seg, page)
           /\ Answers(w) /\ ("search" \in DOMAIN root'[w] =>
                "search" \in DOMAIN root[w] /\ root'[w]["search"] = root[w]["search"])
                => Answers(w)'
<1>1. Strategies(w)' = Strategies(w) /\ Query(w)' = Query(w)
  BY DEF SameRequest, startUpVars, Strategies, Query
<1>2. Serves(w) => Serves(w)'
  BY DEF SameRequest, Serves
<1>3. \A seg, page : SearchReply(seg, page)' = SearchReply(seg, page)
  BY DEF SearchReply, Found, SameRequest, startUpVars
<1>4. ASSUME Answers(w), "search" \in DOMAIN root'[w] =>
                "search" \in DOMAIN root[w] /\ root'[w]["search"] = root[w]["search"]
      PROVE  Answers(w)'
  <2>1. request'[w] = request[w]
    BY DEF SameRequest
  <2>2. QED
    BY <1>1, <1>3, <1>4, <2>1 DEF Answers
<1>5. QED
  BY <1>1, <1>2, <1>3, <1>4

(* A strategy other than TextStrategy has put its member.                  *)
LEMMA PutKeeps ==
    ASSUME TextOnce, ReqInv, SegAll', NEW w \in Workers, UNCHANGED startUpVars,
           NEW m \in {"rewrite", "search", "suggest"}, Runs(w, StrategyOf(m)),
           NEW obj, Members(Strategies(w), next[w], FALSE, obj), SegOf(obj) = SegOf(root[w]),
           m # "search" => obj = root[w],
           NEW val, m = "search" =>
                \E seg \in {Null, SegmentsOf(Query(w))} :
                    val = SearchReply(seg, GetPage(request[w].request)),
           root' = [root EXCEPT ![w] = Put(obj, m, val)],
           next' = [next EXCEPT ![w] = @ + 1],
           DOMAIN doc_length' = DOMAIN doc_length,
           UNCHANGED <<pc, sent, request, segVars>>
    PROVE  ReqInv'
<1> DEFINE list == Strategies(w)
           n == next[w]
<1>1. /\ pc[w] = "run" /\ seg_pc[w] = "idle" /\ n \in Nat \ {0} /\ n + 1 \in 1 .. Len(list) + 1
      /\ list[n] = StrategyOf(m) /\ Serves(w)
      /\ SegRight(list, n, Query(w), root[w]) /\ Answers(w)
  BY RunsAt
<1>2. SameRequest(w)
  BY DEF SameRequest
<1>3. root'[w] = Put(obj, m, val) /\ next'[w] = n + 1 /\ pc'[w] = "run" /\ seg_pc'[w] = "idle"
  BY <1>1 DEF ReqInv, segVars
<1>4. Members(list, n + 1, FALSE, Put(obj, m, val))
  BY <1>1, MembersNext
<1>5. SegRight(list, n + 1, Query(w), Put(obj, m, val))
  <2>1. SegOf(Put(obj, m, val)) = SegOf(root[w])
    BY PutKeepsSeg
  <2>2. SegRight(list, n + 1, Query(w), root[w])
    BY <1>1, SegRightNext
  <2>3. QED
    BY <2>1, <2>2 DEF SegRight
<1>6. Answers(w)'
  <2>1. CASE m = "search"
    <3>1. root'[w]["search"] = val
      BY <1>3, <2>1 DEF Put
    <3>2. PICK seg \in {Null, SegmentsOf(Query(w))} :
             val = SearchReply(seg, GetPage(request[w].request))
      BY <2>1
    <3>3. SearchReply(seg, GetPage(request[w].request))' = SearchReply(seg, GetPage(request[w].request))
      <4>1. GetPage(request'[w].request) = GetPage(request[w].request)
        BY <1>2 DEF SameRequest
      <4>2. QED
        BY <1>2, <4>1, SameRequestKeeps
    <3>4. Query(w)' = Query(w)
      BY <1>2, SameRequestKeeps
    <3>5. QED
      BY <3>1, <3>2, <3>3, <3>4 DEF Answers
  <2>2. CASE m # "search"
    <3> root'[w] = Put(root[w], m, val)
      BY <1>3, <2>2
    <3>1. DOMAIN root'[w] = DOMAIN root[w] \cup {m}
      BY DEF Put
    <3>2. \A k \in DOMAIN root[w] : k # m => root'[w][k] = root[w][k]
      BY DEF Put
    <3>3. QED
      BY <1>1, <1>2, <2>2, <3>1, <3>2, SameRequestKeeps
  <2>3. QED
    BY <2>1, <2>2
<1>7. InLoop(w)'
  BY <1>1, <1>2, <1>3, <1>4, <1>5, <1>6, SameRequestKeeps DEF InLoop
<1>8. WorkerInv(w)'
  BY <1>3, <1>7 DEF WorkerInv
<1>9. /\ pc' = [pc EXCEPT ![w] = pc[w]] /\ sent' = [sent EXCEPT ![w] = sent[w]]
      /\ request' = [request EXCEPT ![w] = request[w]]
      /\ next' = [next EXCEPT ![w] = next[w] + 1]
      /\ seg_pc' = seg_pc /\ words' = words
  BY DEF ReqInv, segVars
<1>10. QED
  BY <1>8, <1>9, StepOf

LEMMA RewriteKeeps ==
    ASSUME TextOnce, ReqInv, SegAll', NEW w \in Workers, Rewrite(w)
    PROVE  ReqInv'
<1>1. Runs(w, "RewriteStrategy") /\ StrategyOf("rewrite") = "RewriteStrategy"
  BY DEF Rewrite, StrategyOf
<1>2. Members(Strategies(w), next[w], FALSE, root[w])
  BY <1>1, RunsAt
<1>3. QED
  BY <1>1, <1>2, PutKeeps DEF Rewrite, Advance

LEMMA SuggestKeeps ==
    ASSUME TextOnce, ReqInv, SegAll', NEW w \in Workers, Suggest(w)
    PROVE  ReqInv'
<1>1. Runs(w, "SuggestStrategy") /\ StrategyOf("suggest") = "SuggestStrategy"
  BY DEF Suggest, StrategyOf
<1>2. Members(Strategies(w), next[w], FALSE, root[w])
  BY <1>1, RunsAt
<1>3. PICK val : root' = [root EXCEPT ![w] = Put(root[w], "suggest", val)]
  BY DEF Suggest, Advance, ReqInv
<1>4. QED
  BY <1>1, <1>2, <1>3, PutKeeps DEF Suggest, Advance

LEMMA SearchKeeps ==
    ASSUME TextOnce, ReqInv, SegAll', NEW w \in Workers, SearchRun(w)
    PROVE  ReqInv'
<1> DEFINE obj == Put(root[w], "seg", Seg(w))
           val == SearchReply(Seg(w), GetPage(request[w].request))
<1>1. Runs(w, "SearchStrategy") /\ StrategyOf("search") = "SearchStrategy"
  BY DEF SearchRun, StrategyOf
<1>2. Members(Strategies(w), next[w], FALSE, root[w]) /\ SegRight(Strategies(w), next[w], Query(w), root[w])
  BY <1>1, RunsAt
<1>3. Seg(w) = SegOf(root[w])
  BY DEF Seg, SegOf
<1>4. SegOf(obj) = SegOf(root[w])
  BY <1>3, PutSeg
<1>5. Members(Strategies(w), next[w], FALSE, obj)
  BY <1>2 DEF Put, Members
<1>6. Seg(w) \in {Null, SegmentsOf(Query(w))}
  BY <1>2, <1>3 DEF SegRight
<1>7. \E seg \in {Null, SegmentsOf(Query(w))} : val = SearchReply(seg, GetPage(request[w].request))
  BY <1>6
<1>8. /\ UNCHANGED startUpVars /\ UNCHANGED <<pc, sent, request, segVars>>
      /\ DOMAIN doc_length' = DOMAIN doc_length
      /\ root' = [root EXCEPT ![w] = Put(obj, "search", val)]
      /\ next' = [next EXCEPT ![w] = @ + 1]
  BY DEF SearchRun, Advance
<1> HIDE DEF obj, val
<1>9. QED
  BY <1>1, <1>4, <1>5, <1>7, <1>8, PutKeeps

LEMMA TextBeginKeeps ==
    ASSUME TextOnce, ReqInv, SegAll', NEW w \in Workers, TextBegin(w)
    PROVE  ReqInv'
<1> DEFINE list == Strategies(w)
           n == next[w]
           obj == Put(root[w], "text", "yes")
<1>1. /\ pc[w] = "run" /\ n \in Nat \ {0} /\ n + 1 \in 1 .. Len(list) + 1 /\ n <= Len(list)
      /\ list[n] = "TextStrategy" /\ Serves(w) /\ Members(list, n, FALSE, root[w])
      /\ SegRight(list, n, Query(w), root[w]) /\ Answers(w)
  BY RunsAt DEF TextBegin
<1>2. SameRequest(w)
  BY DEF TextBegin, SameRequest
<1>3. Segment(w, SplitChWords(Query(w)))
  BY DEF TextBegin, Query
<1>4. /\ seg_pc'[w] # "idle" /\ words'[w] = SplitChWords(Query(w))
      /\ \A v \in Workers \ {w} : seg_pc'[v] = seg_pc[v] /\ words'[v] = words[v]
  BY <1>3, SegFrame DEF ReqInv
<1>5. root'[w] = obj /\ next'[w] = n /\ pc'[w] = "text"
  BY DEF TextBegin, ReqInv
<1>6. Members(list, n, TRUE, obj)
  BY <1>1 DEF Put, Members
<1>7. SegRight(list, n, Query(w), obj)
  BY <1>1, PutKeepsSeg DEF SegRight
<1>8. Answers(w)'
  <2>1. "search" \in DOMAIN root'[w] =>
            "search" \in DOMAIN root[w] /\ root'[w]["search"] = root[w]["search"]
    BY <1>5 DEF Put
  <2>2. QED
    BY <1>1, <1>2, <2>1, SameRequestKeeps
<1> HIDE DEF obj
<1>9. n \in 1 .. Len(list) + 1
  BY <1>1
<1>10. InLoop(w)'
  BY <1>1, <1>2, <1>5, <1>6, <1>7, <1>8, <1>9, SameRequestKeeps DEF InLoop
<1>11. WorkerInv(w)'
  <2>1. Query(w)' = Query(w) /\ Strategies(w)' = list
    BY <1>2, SameRequestKeeps
  <2>2. QED
    BY <1>1, <1>4, <1>5, <1>10, <2>1 DEF WorkerInv
<1>12. /\ UNCHANGED startUpVars /\ DOMAIN doc_length' = DOMAIN doc_length
       /\ pc' = [pc EXCEPT ![w] = "text"] /\ sent' = [sent EXCEPT ![w] = sent[w]]
       /\ request' = [request EXCEPT ![w] = request[w]] /\ next' = [next EXCEPT ![w] = next[w]]
       /\ root' = [root EXCEPT ![w] = obj]
  BY DEF TextBegin, ReqInv, obj
<1>13. QED
  BY <1>4, <1>11, <1>12, StepOf

LEMMA TextSegmentKeeps ==
    ASSUME TextOnce, ReqInv, SegAll', NEW w \in Workers, TextSegment(w)
    PROVE  ReqInv'
<1>1. /\ SegStep(w) /\ pc[w] = "text"
      /\ UNCHANGED <<startUpVars, doc_length, pc, sent, request, next, root>>
  BY DEF TextSegment
<1>2. /\ seg_pc[w] # "idle" /\ seg_pc'[w] # "idle" /\ words' = words
      /\ \A v \in Workers \ {w} : seg_pc'[v] = seg_pc[v]
  BY <1>1, SegFrame DEF ReqInv
<1>3. WorkerInv(w)'
  <2>1. WorkerInv(w)
    BY DEF ReqInv
  <2>2. QED
    BY <1>1, <1>2, <2>1, OthersKept
<1>4. /\ pc' = [pc EXCEPT ![w] = pc[w]] /\ sent' = [sent EXCEPT ![w] = sent[w]]
      /\ request' = [request EXCEPT ![w] = request[w]] /\ next' = [next EXCEPT ![w] = next[w]]
      /\ root' = [root EXCEPT ![w] = root[w]]
  BY <1>1 DEF ReqInv
<1>5. QED
  BY <1>1, <1>2, <1>3, <1>4, StepOf

LEMMA TextEndKeeps ==
    ASSUME TextOnce, ReqInv, SegAll', NEW w \in Workers, TextEnd(w)
    PROVE  ReqInv'
<1> DEFINE list == Strategies(w)
           n == next[w]
           res == seg_results[w]
           obj == IF res = <<>> THEN root[w] ELSE Put(root[w], "seg", Seg(w) \o res)
<1>1. /\ pc[w] = "text" /\ seg_pc[w] = "done" /\ SegReturn(w)
      /\ n <= Len(list) /\ list[n] = "TextStrategy" /\ words[w] = SplitChWords(Query(w))
      /\ Serves(w) /\ n \in 1 .. Len(list) + 1 /\ Members(list, n, TRUE, root[w])
      /\ SegRight(list, n, Query(w), root[w]) /\ Answers(w)
  BY DEF TextEnd, ReqInv, WorkerInv, InLoop
<1>2. SameRequest(w)
  BY DEF TextEnd, SameRequest
<1>3. /\ seg_pc'[w] = "idle"
      /\ \A v \in Workers \ {w} : seg_pc'[v] = seg_pc[v] /\ words'[v] = words[v]
  BY <1>1, SegFrame DEF ReqInv
<1>4. root'[w] = obj /\ next'[w] = n + 1 /\ pc'[w] = "run"
  BY DEF TextEnd, Advance, ReqInv
<1>5. n \in Nat \ {0} /\ n + 1 \in 1 .. Len(list) + 1
  <2>1. Len(list) \in Nat
    BY StrategiesListed DEF IsList, ReqInv
  <2>2. QED
    BY <1>1, <2>1
<1>6. res \in {<<>>, SegmentsOf(Query(w))} /\ res \in Seq(Seq(Nat))
  <2>1. res \in {<<>>, SegmentsIn(words[w], Len(words[w]))} /\ res \in Seq(Seq(Nat))
    BY <1>1 DEF ReqInv, SegAll, SegResults, SegTypes
  <2>2. QED
    BY <1>1, <2>1 DEF SegmentsOf
<1>7. ~Ran(list, n, "TextStrategy")
  <2>1. \A i \in 1 .. Len(list) : list[i] = "TextStrategy" => i = n
    BY <1>1, StrategiesListed DEF IsList, ReqInv
  <2>2. QED
    BY <1>1, <2>1 DEF Ran
<1>8. Seg(w) = <<>>
  <2>1. SegOf(root[w]) = Null
    BY <1>1, <1>7 DEF SegRight
  <2>2. QED
    BY <2>1 DEF Seg, SegOf, Null
<1>9. Seg(w) \o res = res
  BY <1>6, <1>8, ConcatEmptySeq
<1>10. DOMAIN obj \ {"seg"} = DOMAIN root[w] \ {"seg"} /\ \A k \in DOMAIN root[w] \ {"seg"} : obj[k] = root[w][k]
  BY DEF Put
<1>11. SegOf(obj) # Null => SegOf(obj) = SegmentsOf(Query(w))
  <2>1. CASE res = <<>>
    BY <1>8, <2>1 DEF SegOf, Seg, Null
  <2>2. CASE res # <<>>
    BY <1>6, <1>9, <2>2, PutSeg
  <2>3. QED
    BY <2>1, <2>2
<1>12. DOMAIN obj \subseteq DOMAIN root[w] \cup {"seg"}
  BY DEF Put
<1> HIDE DEF obj, res
<1>13. Ran(list, n + 1, "TextStrategy")
  BY <1>1, <1>5, RanNext
<1>14. Members(list, n + 1, FALSE, obj)
  BY <1>1, <1>5, <1>10, <1>12, <1>13, RanNext DEF Members
<1>15. SegRight(list, n + 1, Query(w), obj)
  BY <1>11, <1>13 DEF SegRight
<1>16. Answers(w)'
  <2>1. "search" \in DOMAIN root'[w] =>
            "search" \in DOMAIN root[w] /\ root'[w]["search"] = root[w]["search"]
    BY <1>4, <1>10
  <2>2. QED
    BY <1>1, <1>2, <2>1, SameRequestKeeps
<1>17. InLoop(w)'
  BY <1>1, <1>2, <1>4, <1>5, <1>14, <1>15, <1>16, SameRequestKeeps DEF InLoop
<1>18. WorkerInv(w)'
  BY <1>3, <1>4, <1>17 DEF WorkerInv
<1>19. /\ UNCHANGED startUpVars /\ DOMAIN doc_length' = DOMAIN doc_length
       /\ pc' = [pc EXCEPT ![w] = "run"] /\ sent' = [sent EXCEPT ![w] = sent[w]]
       /\ request' = [request EXCEPT ![w] = request[w]] /\ next' = [next EXCEPT ![w] = next[w] + 1]
       /\ root' = [root EXCEPT ![w] = obj]
  BY DEF TextEnd, Advance, ReqInv, obj, res
<1>20. QED
  BY <1>3, <1>18, <1>19, StepOf

LEMMA ReplyKeeps ==
    ASSUME ReqInv, SegAll', NEW w \in Workers, Reply(w)
    PROVE  ReqInv'
<1>1. /\ pc' = [pc EXCEPT ![w] = "idle"] /\ sent' = [sent EXCEPT ![w] = Null]
      /\ request' = [request EXCEPT ![w] = Null] /\ next' = [next EXCEPT ![w] = 0]
      /\ root' = [root EXCEPT ![w] = Null]
      /\ UNCHANGED startUpVars /\ DOMAIN doc_length' = DOMAIN doc_length
      /\ seg_pc' = seg_pc /\ words' = words
  BY DEF Reply, segVars
<1>2. pc[w] = "run" /\ seg_pc[w] = "idle"
  BY DEF Reply, Replying, ReqInv, WorkerInv
<1>3. WorkerInv(w)'
  BY <1>1, <1>2 DEF WorkerInv, ReqInv
<1>4. QED
  BY <1>1, <1>3, StepOf

LEMMA ReqStep ==
    ASSUME TextOnce
    PROVE  ReqInv /\ [Next]_vars => ReqInv'
<1> SUFFICES ASSUME ReqInv, [Next]_vars PROVE ReqInv'
  OBVIOUS
<1>1. SegAll'
  BY UsesTagger, SegStepAll DEF ReqInv
<1>2. ASSUME NEW w \in Workers, TakeRequest(w) \/ Serve(w) PROVE ReqInv'
  BY <1>1, <1>2, TakeRequestKeeps, TextBeginKeeps, TextSegmentKeeps, TextEndKeeps,
     RewriteKeeps, SearchKeeps, SuggestKeeps, ReplyKeeps DEF Serve
<1>3. CASE UNCHANGED vars
  <2>1. \A v \in Workers : WorkerInv(v)'
    BY <1>3, OthersKept DEF vars, ReqInv, segVars
  <2>2. StartedUp'
    <3>1. Configured("index_file")' = Configured("index_file")
      BY <1>3 DEF vars, Configured, Files, startUpVars
    <3>2. QED
      BY <1>3, <3>1 DEF vars, ReqInv, StartedUp, startUpVars
  <2>3. QED
    BY <1>1, <1>3, <2>1, <2>2 DEF vars, ReqInv
<1>4. QED
  BY <1>2, <1>3 DEF Next

(* The workers use the tagger as segment does: everything WordSeg promises *)
(* of it holds of them (text_strategy.cpp 25, wordseg.cpp 56-89).          *)
THEOREM WorkersUseTheTagger ==
    ASSUME TextOnce
    PROVE  Spec => SegSpec
<1>1. Init => SegInit
  BY DEF Init
<1>2. ReqInv /\ [Next]_vars => [SegNext]_segVars
  BY UsesTagger
<1>3. QED
  BY ReqInit, ReqStep, <1>1, <1>2, PTL DEF Spec, SegSpec

(* Between lock and unlock the tagger holds the words its user has added,  *)
(* and nobody else's (wordseg.cpp 63-87).                                  *)
THEOREM RequestsTaggerIsOwners ==
    ASSUME TextOnce
    PROVE  Spec => []TaggerIsOwners
<1>1. ReqInv => TaggerIsOwners
  BY DEF ReqInv, SegAll, SegInv
<1>2. QED
  BY ReqInit, ReqStep, <1>1, PTL DEF Spec

(* The types of the state; a worker that is not idle serves a request      *)
(* whose parse has stayed in the data, and is inside segment exactly while *)
(* TextStrategy runs (req_task.cpp 50-55, strategy_mgr.cpp 36-77).         *)
THEOREM RequestsTypeCorrect ==
    ASSUME TextOnce
    PROVE  Spec => []TypeOK
<1>1. ReqInv => TypeOK
  <2> SUFFICES ASSUME ReqInv PROVE TypeOK
    OBVIOUS
  <2>1. DOMAIN doc_length \subseteq DOMAIN uri_map
    BY DEF ReqInv, StartedUp
  <2>2. DOMAIN uri_map \subseteq Uri
    <3>1. uri_map = InitStrategies(ReadConfFile(confs.strategy))
      BY DEF ReqInv, StartedUp
    <3>2. QED
      BY <3>1 DEF InitStrategies, Uri, Range
  <2>3. ASSUME NEW w \in Workers
        PROVE  /\ pc[w] # "idle" => sent[w] \in Meant /\ ~request[w].beyond
               /\ DOMAIN root[w] \subseteq {"text", "seg", "rewrite", "search", "suggest"}
               /\ pc[w] # "text" <=> seg_pc[w] = "idle"
    <3>1. WorkerInv(w)
      BY DEF ReqInv
    <3>2. CASE pc[w] = "idle"
      BY <3>1, <3>2 DEF WorkerInv, Null
    <3>3. CASE pc[w] # "idle"
      <4>1. InLoop(w)
        BY <3>1, <3>3 DEF WorkerInv
      <4>2. sent[w] \in Meant /\ ~request[w].beyond
        BY <4>1, ServedAsMeant DEF InLoop
      <4>3. DOMAIN root[w] \subseteq {"text", "seg", "rewrite", "search", "suggest"}
        BY <4>1 DEF InLoop, Members
      <4>4. QED
        BY <3>1, <4>2, <4>3 DEF WorkerInv
    <3>4. QED
      BY <3>2, <3>3
  <2>4. pc \in [Workers -> {"idle", "run", "text"}]
    BY DEF ReqInv, WorkerInv
  <2>5. SegTypeOK
    BY DEF ReqInv, SegAll, SegInv, SegShape, SegTypes, SegTypeOK
  <2>6. confs \in Confs /\ suggest_file \in SuggestFiles
    BY DEF ReqInv, StartedUp
  <2>7. QED
    BY <2>1, <2>2, <2>3, <2>4, <2>5, <2>6 DEF TypeOK
<1>2. QED
  BY ReqInit, ReqStep, <1>1, PTL DEF Spec

(* However the workers share the tagger, and however the query is spelled, *)
(* a reply has the members of the strategies of its uri, and the segments  *)
(* are those of its own query (req_task.cpp 53-59, wordseg.cpp 63-87).     *)
THEOREM ReplyIsOfItsRequestCorrect ==
    ASSUME TextOnce
    PROVE  Spec => []ReplyIsOfItsRequest
<1>1. ReqInv => ReplyIsOfItsRequest
  <2> SUFFICES ASSUME ReqInv, NEW w \in Workers, Replying(w)
               PROVE  LET has == DOMAIN root[w] IN
                      /\ "text" \in has <=> "TextStrategy" \in Range(Run(w))
                      /\ "rewrite" \in has <=> "RewriteStrategy" \in Range(Run(w))
                      /\ "search" \in has <=> "SearchStrategy" \in Range(Run(w))
                      /\ "suggest" \in has <=> "SuggestStrategy" \in Range(Run(w))
                      /\ Seg(w) # Null => "text" \in has /\ Seg(w) = SegmentsOf(sent[w].q)
    BY DEF ReplyIsOfItsRequest
  <2> DEFINE list == Strategies(w)
  <2>1. InLoop(w) /\ pc[w] = "run"
    BY DEF ReqInv, WorkerInv, Replying
  <2>2. list \in Seq(Known) /\ list = Run(w) /\ SplitChWords(Query(w)) = SplitChWords(sent[w].q)
    BY <2>1, ServedAsMeant, StrategiesListed DEF IsList, ReqInv, InLoop
  <2>3. next[w] - 1 = Len(list)
    BY <2>1, <2>2 DEF InLoop, Replying
  <2>4. \A name : Ran(list, next[w], name) <=> name \in Range(list)
    BY <2>2, <2>3 DEF Ran, Range
  <2>5. Members(list, next[w], FALSE, root[w]) /\ SegRight(list, next[w], Query(w), root[w])
    BY <2>1 DEF InLoop
  <2>6. Seg(w) = SegOf(root[w]) /\ SegmentsOf(Query(w)) = SegmentsOf(sent[w].q)
    BY <2>2 DEF Seg, SegOf, SegmentsOf
  <2> HIDE DEF list
  <2>7. QED
    BY <2>2, <2>4, <2>5, <2>6 DEF Members, SegRight
<1>2. QED
  BY ReqInit, ReqStep, <1>1, PTL DEF Spec

-----------------------------------------------------------------------------
(* The configuration.                                                      *)
DictionaryKeys == {"index_file", "doc_length_file", "suggest_file"}

LEMMA KeysAsWritten ==
    ASSUME NEW lines \in Seq(Seq(STRING)), NEW key \in DictionaryKeys \cup {"thread_cnt"}
    PROVE  GetConfVal(ReadSubConf(lines), key) = SubWrittenFor(lines, key)
<1>1. key # ":"
  BY DEF DictionaryKeys
<1>2. QED
  BY <1>1, SubConfAsWritten

LEMMA UriMapAsWritten ==
    ASSUME NEW lines \in Seq(ConfLine), NoRepeatedSection(lines), NEW i \in DOMAIN Uris
    PROVE  LET map == InitStrategies(ReadConfFile(lines))
               Rejected(k) == ~(Range(WrittenFor(lines, Uris[k])) \subseteq Known)
           IN  (IF Uris[i] \in DOMAIN map THEN map[Uris[i]] ELSE <<>>)
                  = IF \E j \in 1 .. i : Rejected(j) THEN <<>> ELSE WrittenFor(lines, Uris[i])
<1> DEFINE dict == ReadConfFile(lines)
           map == InitStrategies(dict)
           IsKnown(u) == u \in DOMAIN dict => Range(dict[u]) \subseteq Known
           served == {k \in DOMAIN Uris : \A j \in 1 .. k : IsKnown(Uris[j])}
<1>1. \A u : (IF u \in DOMAIN dict THEN dict[u] ELSE <<>>) = WrittenFor(lines, u)
  BY ConfFileAsWritten
<1> HIDE DEF dict
<1>2. map = [u \in {Uris[k] : k \in served} \cap DOMAIN dict |-> dict[u]]
  BY DEF InitStrategies
<1>3. \A u : IsKnown(u) <=> Range(WrittenFor(lines, u)) \subseteq Known
  <2>1. Range(<<>>) \subseteq Known
    BY DEF Range
  <2>2. QED
    BY <1>1, <2>1
<1> HIDE DEF map
<1>4. CASE i \in served
  <2>1. \A j \in 1 .. i : Range(WrittenFor(lines, Uris[j])) \subseteq Known
    BY <1>3, <1>4
  <2>2. Uris[i] \in DOMAIN map <=> Uris[i] \in DOMAIN dict
    BY <1>2, <1>4
  <2>3. Uris[i] \in DOMAIN map => map[Uris[i]] = dict[Uris[i]]
    BY <1>2
  <2>4. QED
    BY <1>1, <2>1, <2>2, <2>3 DEF map, dict
<1>5. CASE i \notin served
  <2>1. \E j \in 1 .. i : ~(Range(WrittenFor(lines, Uris[j])) \subseteq Known)
    BY <1>3, <1>5
  <2>2. Uris[i] \notin DOMAIN map
    BY <1>2, <1>5, UrisAssumption
  <2>3. QED
    BY <2>1, <2>2 DEF map, dict
<1>6. QED
  BY <1>4, <1>5

(* What start-up has read, and the threads it has created.                 *)
ConfInv ==
    /\ confs \in Confs /\ conf_dict = ReadSubConf(confs.sub)
    /\ uri_map = InitStrategies(ReadConfFile(confs.strategy))
    /\ index_dict = Configured("index_file")
    /\ trie = Build(RootStatus, Configured("suggest_file"))
    /\ pc = [w \in Workers |-> pc[w]]
    /\ \A w \in Workers : pc[w] # "idle" => w <= GetThreadCnt(conf_dict)

(* main ignores what _init_strategies returns, so this is all that holds:  *)
(* a uri runs the strategies its section lists, in their order, unless it, *)
(* or a uri before it, lists an unknown one (strategy_conf.cpp 26-43,      *)
(* strategy_mgr.cpp 36-66).  The index and the trie are made from the file *)
(* that the last line with their key names, and as many threads serve as   *)
(* sub.conf says (config.cpp 16-53, dict_mgr.h 79-159).                    *)
THEOREM ConfAsWrittenCorrect == Spec => []ConfAsWritten
<1>1. Init => ConfInv
  BY DEF Init, ConfInv
<1>2. ConfInv /\ [Next]_vars => ConfInv'
  <2> SUFFICES ASSUME ConfInv, [Next]_vars PROVE ConfInv'
    OBVIOUS
  <2>1. UNCHANGED startUpVars
    BY DEF Next, Serve, TakeRequest, TextBegin, TextSegment, TextEnd, Rewrite, SearchRun, Suggest,
           Reply, vars
  <2>2. UNCHANGED <<confs, conf_dict, uri_map, index_dict, trie>> /\ \A key : Configured(key)' = Configured(key)
    BY <2>1 DEF Configured, Files, startUpVars
  <2>3. ASSUME NEW w \in Workers, TakeRequest(w) \/ Serve(w)
        PROVE  /\ \E x : pc' = [pc EXCEPT ![w] = x]
               /\ pc'[w] # "idle" => w <= GetThreadCnt(conf_dict)
    <3>1. CASE TakeRequest(w)
      BY <3>1 DEF TakeRequest
    <3>2. CASE TextBegin(w) \/ TextEnd(w) \/ Reply(w)
      <4>1. (\E x : pc' = [pc EXCEPT ![w] = x]) /\ (pc[w] # "idle" \/ pc'[w] = "idle")
        BY <3>2 DEF TextBegin, TextEnd, Reply, Runs, ConfInv
      <4>2. QED
        BY <4>1 DEF ConfInv
    <3>3. CASE TextSegment(w) \/ Rewrite(w) \/ SearchRun(w) \/ Suggest(w)
      <4>1. pc' = pc
        BY <3>3 DEF TextSegment, Rewrite, SearchRun, Suggest
      <4>2. pc' = [pc EXCEPT ![w] = pc[w]]
        BY <4>1 DEF ConfInv
      <4>3. QED
        BY <4>1, <4>2 DEF ConfInv
    <3>4. QED
      BY <2>3, <3>1, <3>2, <3>3 DEF Serve
  <2>4. /\ pc' = [w \in Workers |-> pc'[w]]
        /\ \A w \in Workers : pc'[w] # "idle" => w <= GetThreadCnt(conf_dict)
    <3>1. CASE UNCHANGED vars
      BY <3>1 DEF vars, ConfInv
    <3>2. ASSUME NEW w \in Workers, TakeRequest(w) \/ Serve(w)
          PROVE  /\ pc' = [v \in Workers |-> pc'[v]]
                 /\ \A v \in Workers : pc'[v] # "idle" => v <= GetThreadCnt(conf_dict)
      BY <2>3, <3>2 DEF ConfInv
    <3>3. QED
      BY <3>1, <3>2 DEF Next
  <2>5. QED
    BY <2>2, <2>4 DEF ConfInv
<1>3. ConfInv => ConfAsWritten
  <2> SUFFICES ASSUME ConfInv PROVE ConfAsWritten
    OBVIOUS
  <2>1. confs.strategy \in Seq(ConfLine) /\ confs.sub \in Seq(Seq(STRING))
    BY RequestsAssumption DEF ConfInv
  <2>2. \A key \in DictionaryKeys \cup {"thread_cnt"} :
          GetConfVal(conf_dict, key) = SubWrittenFor(confs.sub, key)
    BY <2>1, KeysAsWritten DEF ConfInv
  <2>3. /\ index_dict = LoadDict(Files, SubWrittenFor(confs.sub, "index_file"))
        /\ trie = Build(RootStatus, LoadDict(Files, SubWrittenFor(confs.sub, "suggest_file")))
    <3>1. /\ Configured("index_file") = LoadDict(Files, GetConfVal(conf_dict, "index_file"))
          /\ Configured("suggest_file") = LoadDict(Files, GetConfVal(conf_dict, "suggest_file"))
      BY Zenon DEF Configured
    <3>2. QED
      BY <2>2, <3>1 DEF ConfInv, DictionaryKeys
  <2>4. GetThreadCnt(conf_dict) =
          IF SubWrittenFor(confs.sub, "thread_cnt") = <<>> THEN 5
          ELSE Atoi(TextOf(SubWrittenFor(confs.sub, "thread_cnt")))
    <3>1. GetThreadCnt(conf_dict) =
            IF GetConfVal(conf_dict, "thread_cnt") = <<>> THEN 5
            ELSE Atoi(TextOf(GetConfVal(conf_dict, "thread_cnt")))
      BY Zenon DEF GetThreadCnt, GetConfIntVal
    <3>2. QED
      BY <2>2, <3>1
  <2>5. ASSUME NoRepeatedSection(confs.strategy), NEW i \in DOMAIN Uris
        PROVE  (IF Uris[i] \in DOMAIN uri_map THEN uri_map[Uris[i]] ELSE <<>>)
                  = IF \E j \in 1 .. i : ~(Range(WrittenFor(confs.strategy, Uris[j])) \subseteq Known)
                    THEN <<>> ELSE WrittenFor(confs.strategy, Uris[i])
    BY <2>1, <2>5, UriMapAsWritten DEF ConfInv
  <2>6. \A w \in Workers : pc[w] # "idle" => w <= GetThreadCnt(conf_dict)
    BY DEF ConfInv
  <2>7. QED
    BY <2>3, <2>4, <2>5, <2>6 DEF ConfAsWritten
<1>4. QED
  BY <1>1, <1>2, <1>3, PTL DEF Spec

-----------------------------------------------------------------------------
(* The dictionaries of the search.                                         *)
LEMMA DictionariesLoaded ==
    ASSUME DictionariesNamed, confs \in Confs, conf_dict = ReadSubConf(confs.sub)
    PROVE  /\ Configured("index_file") \in {<<>>, IndexDict}
           /\ Configured("doc_length_file") = DocLengthDict
<1>1. /\ GetConfVal(conf_dict, "doc_length_file") = <<"doc_length.dict">>
      /\ GetConfVal(conf_dict, "index_file") \notin {<<"doc_length.dict">>, <<"suggest.dict">>}
  <2>1. confs.sub \in Seq(Seq(STRING))
    BY RequestsAssumption
  <2>2. /\ GetConfVal(conf_dict, "doc_length_file") = SubWrittenFor(confs.sub, "doc_length_file")
        /\ GetConfVal(conf_dict, "index_file") = SubWrittenFor(confs.sub, "index_file")
    BY <2>1, KeysAsWritten DEF DictionaryKeys
  <2>3. QED
    BY <2>2 DEF DictionariesNamed
<1>2. <<"index.dict">> # <<"doc_length.dict">> /\ <<"suggest.dict">> # <<"doc_length.dict">>
  OBVIOUS
<1>3. Configured("doc_length_file") = DocLengthDict
  BY <1>1, <1>2 DEF Configured, Files, LoadDict
<1>4. Configured("index_file") \in {<<>>, IndexDict}
  BY <1>1 DEF Configured, Files, LoadDict
<1>5. QED
  BY <1>3, <1>4

(* What the builder files for a term has a length.                         *)
LEMMA FoundHaveLengths ==
    ASSUME index_dict \in {<<>>, IndexDict}, NEW seg
    PROVE  Found(seg) \subseteq DOMAIN DocLengthDict
<1>1. CASE index_dict = <<>>
  BY <1>1 DEF Found
<1>2. CASE index_dict = IndexDict
  BY <1>2 DEF Found, IndexDict, DocLengthDict
<1>3. QED
  BY <1>1, <1>2

(* What every SearchStrategy has copied.                                   *)
LengthsCopied ==
    doc_length = [u \in {u \in DOMAIN uri_map : "SearchStrategy" \in Range(uri_map[u])}
                    |-> DocLengthDict]

(* The workers share the dictionaries without a lock, so no search may     *)
(* change them: what the builder files for a term always has a length      *)
(* (search_strategy.cpp 63, build_index.cpp 40, 66-70).                    *)
THEOREM DictionariesReadOnlyCorrect ==
    ASSUME TextOnce, DictionariesNamed
    PROVE  Spec => DictionariesReadOnly
<1>1. Init => LengthsCopied
  BY DictionariesLoaded DEF Init, LengthsCopied
<1>2. ReqInv /\ LengthsCopied /\ [Next]_vars => doc_length' = doc_length
  <2> SUFFICES ASSUME ReqInv, LengthsCopied, [Next]_vars PROVE doc_length' = doc_length
    OBVIOUS
  <2>1. ASSUME NEW w \in Workers, SearchRun(w) PROVE doc_length' = doc_length
    <3>1. index_dict \in {<<>>, IndexDict}
      BY DictionariesLoaded DEF ReqInv, StartedUp
    <3>2. LookedUp(DocLengthDict, Found(Seg(w))) = DocLengthDict
      <4>1. DOMAIN DocLengthDict \cup Found(Seg(w)) = DOMAIN DocLengthDict
        BY <3>1, FoundHaveLengths
      <4>2. DocLengthDict = [k \in DOMAIN DocLengthDict |-> DocLengthDict[k]]
        BY DEF DocLengthDict
      <4>3. QED
        BY <4>1, <4>2 DEF LookedUp
    <3>3. \A u \in DOMAIN doc_length : doc_length[u] = DocLengthDict
      BY DEF LengthsCopied
    <3>4. doc_length = [u \in DOMAIN doc_length |-> doc_length[u]]
      BY DEF LengthsCopied
    <3>5. PICK u : doc_length' = [doc_length EXCEPT ![u] = LookedUp(@, Found(Seg(w)))]
      BY <2>1 DEF SearchRun
    <3>6. QED
      BY <3>2, <3>3, <3>4, <3>5
  <2>2. ASSUME NEW w \in Workers,
               \/ TakeRequest(w) \/ TextBegin(w) \/ TextSegment(w) \/ TextEnd(w)
               \/ Rewrite(w) \/ Suggest(w) \/ Reply(w)
        PROVE  doc_length' = doc_length
    BY <2>2 DEF TakeRequest, TextBegin, TextSegment, TextEnd, Rewrite, Suggest, Reply
  <2>3. CASE UNCHANGED vars
    BY <2>3 DEF vars
  <2>4. QED
    BY <2>1, <2>2, <2>3 DEF Next, Serve
<1>3. LengthsCopied /\ [Next]_vars /\ doc_length' = doc_length => LengthsCopied'
  <2> SUFFICES ASSUME LengthsCopied, [Next]_vars, doc_length' = doc_length PROVE uri_map' = uri_map
    BY DEF LengthsCopied
  <2>1. QED
    BY DEF Next, Serve, TakeRequest, TextBegin, TextSegment, TextEnd, Rewrite, SearchRun, Suggest,
           Reply, vars, startUpVars
<1>4. ReqInv /\ [Next]_vars => ReqInv'
  BY ReqStep
<1>5. QED
  BY ReqInit, <1>1, <1>2, <1>3, <1>4, PTL DEF Spec, DictionariesReadOnly

-----------------------------------------------------------------------------
(* The paging of SearchStrategy, for every number of results.              *)
LEMMA PageCntBounds ==
    ASSUME NEW tot \in Nat
    PROVE  /\ PageCnt(tot) \in Nat \ {0}
           /\ tot <= PageCnt(tot) * 20
           /\ tot # 0 => (PageCnt(tot) - 1) * 20 < tot
  BY DEF PageCnt, PAGE_RESULT_CNT

(* A page from 1 on reads inside the vector of results: its first index is *)
(* not beyond its last, nor this beyond the end (search_strategy.cpp       *)
(* 78-84).                                                                 *)
THEOREM PageInBounds ==
    ASSUME NEW tot \in Nat, NEW page \in Nat \ {0}
    PROVE  LET p == Paging(tot, page)
           IN  0 <= p.begin /\ p.begin <= p.end /\ p.end <= tot
<1> DEFINE cnt == PageCnt(tot)
           shown == ClampPage(tot, page)
<1>1. /\ cnt \in Nat \ {0} /\ tot <= cnt * 20 /\ (tot # 0 => (cnt - 1) * 20 < tot)
      /\ tot = 0 => cnt = 1
  BY PageCntBounds DEF PageCnt
<1>2. shown \in 1 .. cnt
  BY <1>1 DEF ClampPage
<1>3. /\ Paging(tot, page).begin = (shown - 1) * 20
      /\ Paging(tot, page).end = IF shown >= cnt THEN tot ELSE shown * 20
  BY DEF Paging, PAGE_RESULT_CNT
<1> HIDE DEF cnt, shown
<1>4. QED
  BY <1>1, <1>2, <1>3

(* Every result is on exactly one of the tot_page pages the reply          *)
(* announces (search_strategy.cpp 72-79, 99).                              *)
THEOREM PagesPartitionResults ==
    ASSUME NEW tot \in Nat, NEW n \in 1 .. tot
    PROVE  /\ \E page \in 1 .. PageCnt(tot) : Shows(tot, page, n)
           /\ \A p1, p2 \in 1 .. PageCnt(tot) :
                Shows(tot, p1, n) /\ Shows(tot, p2, n) => p1 = p2
<1>1. \E page \in 1 .. PageCnt(tot) : Shows(tot, page, n)
  <2> DEFINE page == (n - 1) \div 20 + 1
  <2>1. page \in 1 .. PageCnt(tot)
    BY DEF PageCnt, PAGE_RESULT_CNT
  <2>2. (page - 1) * 20 < n /\ n <= page * 20
    OBVIOUS
  <2>3. Shows(tot, page, n)
    BY <2>1, <2>2, PageCntBounds DEF Shows, Paging, ClampPage, PAGE_RESULT_CNT
  <2>4. QED
    BY <2>1, <2>3
<1>2. ASSUME NEW p1 \in 1 .. PageCnt(tot), NEW p2 \in 1 .. PageCnt(tot),
             Shows(tot, p1, n), Shows(tot, p2, n)
      PROVE  p1 = p2
  BY <1>2, PageCntBounds DEF Shows, Paging, ClampPage, PAGE_RESULT_CNT
<1>3. QED
  BY <1>1, <1>2

(* Following nxt_page from page 1 visits the pages one after the other and *)
(* ends on the last (search_strategy.cpp 76, 101).                         *)
THEOREM NextPageAdvances ==
    ASSUME NEW tot \in Nat, NEW page \in 1 .. PageCnt(tot)
    PROVE  /\ page < PageCnt(tot) => Paging(tot, page).nxt_page = page + 1
           /\ page = PageCnt(tot) => Paging(tot, page).nxt_page = page
           /\ page > 1 => Paging(tot, Paging(tot, page).bef_page).nxt_page = page
  BY PageCntBounds DEF Paging, ClampPage

(* The results on page p of tot.                                           *)
OnPage(tot, p) == {n \in 1 .. tot : (p - 1) * 20 < n /\ n <= p * 20}

LEMMA PageShown ==
    ASSUME NEW tot \in Nat, NEW page \in Nat \ {0}
    PROVE  LET p     == Paging(tot, page)
               shown == {n \in 1 .. tot : p.begin < n /\ n <= p.end}
           IN  /\ p.begin = p.end => tot = 0
               /\ p.begin # p.end =>
                    /\ shown # {}
                    /\ shown = IF OnPage(tot, page) # {} THEN OnPage(tot, page)
                               ELSE OnPage(tot, PageCnt(tot))
                    /\ OnPage(tot, PageCnt(tot) + 1) = {}
                    /\ OnPage(tot, page + 1) # {} => p.nxt_page = page + 1
<1> DEFINE cnt == PageCnt(tot)
           p == Paging(tot, page)
           at == ClampPage(tot, page)
           shown == {n \in 1 .. tot : p.begin < n /\ n <= p.end}
<1>1. /\ cnt \in Nat \ {0} /\ tot <= cnt * 20 /\ (tot # 0 => (cnt - 1) * 20 < tot)
      /\ tot = 0 => cnt = 1
  BY PageCntBounds DEF PageCnt
<1>2. at = IF page > cnt THEN cnt ELSE page
  BY DEF ClampPage
<1>3. /\ p.begin = (at - 1) * 20
      /\ p.end = IF at >= cnt THEN tot ELSE at * 20
      /\ p.nxt_page = IF at >= cnt THEN cnt ELSE at + 1
  BY DEF Paging, PAGE_RESULT_CNT
<1> HIDE DEF cnt, p, at
<1>4. at \in 1 .. cnt
  BY <1>1, <1>2
<1>5. ASSUME p.begin = p.end PROVE tot = 0
  BY <1>1, <1>3, <1>4, <1>5
<1>6. ASSUME p.begin # p.end
      PROVE  /\ shown # {}
             /\ shown = IF OnPage(tot, page) # {} THEN OnPage(tot, page)
                        ELSE OnPage(tot, cnt)
             /\ OnPage(tot, cnt + 1) = {}
             /\ OnPage(tot, page + 1) # {} => p.nxt_page = page + 1
  <2>1. tot # 0
    BY <1>1, <1>3, <1>4, <1>6
  <2>2. shown = OnPage(tot, at)
    <3>1. \A n \in 1 .. tot : p.begin < n /\ n <= p.end <=> (at - 1) * 20 < n /\ n <= at * 20
      BY <1>1, <1>3, <1>4
    <3>2. QED
      BY <3>1 DEF OnPage
  <2>3. \A q \in 1 .. cnt : OnPage(tot, q) # {}
    <3> SUFFICES ASSUME NEW q \in 1 .. cnt PROVE \E n \in 1 .. tot : (q - 1) * 20 < n /\ n <= q * 20
      BY DEF OnPage
    <3>1. (q - 1) * 20 + 1 \in 1 .. tot
      BY <1>1, <2>1
    <3>2. QED
      BY <3>1
  <2>4. \A q \in Nat : q > cnt => OnPage(tot, q) = {}
    BY <1>1 DEF OnPage
  <2>5. CASE page > cnt
    <3>1. at = cnt /\ OnPage(tot, page) = {} /\ OnPage(tot, page + 1) = {} /\ OnPage(tot, cnt + 1) = {}
      BY <1>1, <1>2, <2>4, <2>5
    <3>2. QED
      BY <1>4, <2>2, <2>3, <3>1
  <2>6. CASE page <= cnt
    <3>1. at = page
      BY <1>1, <1>2, <2>6
    <3>2. OnPage(tot, cnt + 1) = {}
      BY <1>1, <2>4
    <3>3. OnPage(tot, page + 1) # {} => page < cnt
      BY <1>1, <2>4
    <3>4. page < cnt => p.nxt_page = page + 1
      BY <1>1, <1>3, <3>1
    <3>5. QED
      BY <1>4, <2>2, <2>3, <3>1, <3>2, <3>3, <3>4
  <2>7. QED
    BY <1>1, <2>5, <2>6
<1>7. QED
  BY <1>5, <1>6 DEF cnt, p

LEMMA SharingFinite ==
    ASSUME NEW text
    PROVE  Cardinality(Sharing(text)) \in Nat /\ (Cardinality(Sharing(text)) = 0 => Sharing(text) = {})
<1> DEFINE ids == {Read[i].doc_id : i \in DOMAIN Read}
           f == [i \in DOMAIN Read |-> Read[i].doc_id]
<1>1. IsFiniteSet(DOMAIN Read)
  <2>1. DOMAIN Read \subseteq 1 .. Len(Documents) /\ Len(Documents) \in Nat
    BY DocumentsAreStrings DEF Read
  <2>2. IsFiniteSet(1 .. Len(Documents))
    BY <2>1, FS_Interval
  <2>3. QED
    BY <2>1, <2>2, FS_Subset
<1>2. f \in Surjection(DOMAIN Read, ids)
  BY DEF Surjection
<1>3. IsFiniteSet(ids)
  BY <1>1, <1>2, FS_Surjection
<1>4. Sharing(text) \subseteq ids
  BY DEF Sharing
<1>5. IsFiniteSet(Sharing(text))
  BY <1>3, <1>4, FS_Subset
<1>6. QED
  BY <1>5, FS_CardinalityType, FS_EmptySet

LEMMA FoundIsSharing ==
    ASSUME index_dict \in {<<>>, IndexDict}, NEW text
    PROVE  Found(SegmentsOf(text)) = IF index_dict = <<>> THEN {} ELSE Sharing(text)
<1>1. CASE index_dict = <<>>
  BY <1>1 DEF Found
<1>2. CASE index_dict # <<>>
  <2>1. index_dict = IndexDict
    BY <1>2
  <2>2. Found(SegmentsOf(text)) \subseteq Sharing(text)
    BY <2>1 DEF Found, IndexDict, Sharing, IsFiled
  <2>3. Sharing(text) \subseteq Found(SegmentsOf(text))
    BY <2>1 DEF Found, IndexDict, Sharing, IsFiled
  <2>4. QED
    BY <1>2, <2>2, <2>3
<1>3. QED
  BY <1>1, <1>2

(* From the documents to the reply: a search that had segments shows, of   *)
(* the documents that share a segment with the query, those of the page    *)
(* that was asked for, or of the last page, and says which page is next    *)
(* (build_index.cpp 33-93, dict_mgr.h 131-157, search_strategy.cpp 45-102). *)
THEOREM PageAsAskedCorrect ==
    ASSUME TextOnce, DictionariesNamed, PagesFromOne
    PROVE  Spec => []PageAsAsked
<1>1. ReqInv => PageAsAsked
  <2> SUFFICES ASSUME ReqInv, NEW w \in Workers, Replying(w), "search" \in DOMAIN root[w]
               PROVE  LET reply   == root[w]["search"]
                          results == IF index_dict = <<>> THEN {} ELSE Sharing(sent[w].q)
                          ranks   == 1 .. Cardinality(results)
                          asked   == Asked(sent[w])
                          On(p) == {n \in ranks : (p - 1) * 20 < n /\ n <= p * 20}
                          shown   == {n \in ranks : reply.begin < n /\ n <= reply.end}
                      IN  /\ reply.msg = "none" => results = {}
                          /\ reply.msg = "ok" =>
                              /\ shown # {}
                              /\ shown = IF On(asked) # {} THEN On(asked) ELSE On(reply.tot_page)
                              /\ On(reply.tot_page + 1) = {}
                              /\ On(asked + 1) # {} => reply.nxt_page = asked + 1
    BY DEF PageAsAsked
  <2> DEFINE reply == root[w]["search"]
             results == IF index_dict = <<>> THEN {} ELSE Sharing(sent[w].q)
             tot == Cardinality(results)
             asked == Asked(sent[w])
             page == Paging(tot, asked)
  <2>1. InLoop(w)
    BY DEF ReqInv, WorkerInv, Replying
  <2>2. /\ SplitChWords(Query(w)) = SplitChWords(sent[w].q)
        /\ GetPage(request[w].request) = asked /\ sent[w] \in Meant
    BY <2>1, ServedAsMeant DEF InLoop
  <2>3. PICK seg \in {Null, SegmentsOf(Query(w))} : reply = SearchReply(seg, asked)
    BY <2>1, <2>2 DEF InLoop, Answers
  <2>4. SegmentsOf(Query(w)) = SegmentsOf(sent[w].q)
    BY <2>2 DEF SegmentsOf
  <2>5. index_dict \in {<<>>, IndexDict}
    BY DictionariesLoaded DEF ReqInv, StartedUp
  <2>6. seg # Null => Found(seg) = results
    BY <2>3, <2>4, <2>5, FoundIsSharing
  <2>7. tot \in Nat /\ (tot = 0 => results = {})
    BY SharingFinite, FS_EmptySet
  <2>8. asked \in Nat \ {0}
    <3>1. sent[w].page \in Pages
      BY <2>2 DEF Meant
    <3>2. CASE sent[w].page = NoPage
      BY <3>2 DEF Asked
    <3>3. CASE sent[w].page # NoPage
      <4>1. Atoi(Text(sent[w].page)) \in Nat \ {0}
        BY <3>1, <3>3 DEF PagesFromOne
      <4>2. QED
        BY <4>1, <3>3 DEF Asked
    <3>4. QED
      BY <3>2, <3>3
  <2> HIDE DEF results, asked
  <2>9. /\ page.begin = page.end => tot = 0
        /\ page.begin # page.end =>
            /\ {n \in 1 .. tot : page.begin < n /\ n <= page.end} # {}
            /\ {n \in 1 .. tot : page.begin < n /\ n <= page.end}
                = IF OnPage(tot, asked) # {} THEN OnPage(tot, asked) ELSE OnPage(tot, PageCnt(tot))
            /\ OnPage(tot, PageCnt(tot) + 1) = {}
            /\ OnPage(tot, asked + 1) # {} => page.nxt_page = asked + 1
    BY <2>7, <2>8, PageShown
  <2>10. CASE seg = Null
    BY <2>3, <2>10 DEF SearchReply
  <2>11. CASE seg # Null /\ page.begin = page.end
    <3>1. reply = [msg |-> "none"]
      BY <2>3, <2>6, <2>11 DEF SearchReply
    <3>2. QED
      BY <2>7, <2>9, <2>11, <3>1 DEF results
  <2>12. CASE seg # Null /\ page.begin # page.end
    <3>1. /\ reply.msg = "ok" /\ reply.tot_page = PageCnt(tot) /\ reply.begin = page.begin
          /\ reply.end = page.end /\ reply.nxt_page = page.nxt_page
      BY <2>3, <2>6, <2>12 DEF SearchReply
    <3>2. QED
      BY <2>9, <2>12, <3>1 DEF OnPage, results, asked
  <2>13. QED
    BY <2>10, <2>11, <2>12
<1>2. QED
  BY ReqInit, ReqStep, <1>1, PTL DEF Spec

-----------------------------------------------------------------------------
(* The words of split_ch_words.                                            *)

(* The bytes that begin a word of three, and those that go on with it.     *)
Lead == 224 .. 239
Follow == 128 .. 191

(* What becomes one word.                                                  *)
IsWord(w) ==
    \/ Len(w) = 1 /\ w[1] \notin Lead /\ w[1] # Space
    \/ Len(w) = 3 /\ w[1] \in Lead /\ w[2] \in Follow /\ w[3] \in Follow

ChWord == {w \in Seq(Byte) : IsWord(w)}

(* s does not break off inside a character of three bytes.                 *)
Whole(s) == \A i \in {Len(s) - 1, Len(s)} \cap DOMAIN s : s[i] \notin Lead

(* The cases of the loop at a byte.                                        *)
Three(s, i) ==
    /\ s[i] \in Lead
    /\ i + 1 <= Len(s) /\ s[i + 1] \in Follow
    /\ i + 2 <= Len(s) /\ s[i + 2] \in Follow

Single(b) == b \notin Lead /\ b # Space

LEMMA SplitFromIs ==
    ASSUME NEW s \in Seq(Byte), NEW g, NEW i \in 1 .. Len(s)
    PROVE  /\ Three(s, i) => SplitFrom(s, g, i) = <<SubSeq(s, i, i + 2)>> \o g[i + 3]
           /\ ~Three(s, i) /\ ~Single(s[i]) => SplitFrom(s, g, i) = g[i + 1]
           /\ Single(s[i]) => SplitFrom(s, g, i) = << <<s[i]>> >> \o g[i + 1]
<1> DEFINE lead == s[i] \in Lead
           follow1 == i + 1 <= Len(s) /\ s[i + 1] \in Follow
           follow2 == i + 2 <= Len(s) /\ s[i + 2] \in Follow
           three == <<SubSeq(s, i, i + 2)>> \o g[i + 3]
           single == << <<s[i]>> >> \o g[i + 1]
           none == g[i + 1]
           blank == s[i] = Space
<1>1. ~ (i > Len(s))
  OBVIOUS
<1>2. blank => ~lead
  BY DEF Space, Lead
<1>3. SplitFrom(s, g, i) =
        IF i > Len(s) THEN <<>>
        ELSE IF lead THEN IF follow1 /\ follow2 THEN three ELSE none
             ELSE IF blank THEN none ELSE single
  BY Zenon DEF SplitFrom, Lead, Follow
<1>4. Three(s, i) <=> lead /\ follow1 /\ follow2
  BY DEF Three
<1>5. Single(s[i]) <=> ~lead /\ ~blank
  BY DEF Single
<1>6. /\ Three(s, i) => SplitFrom(s, g, i) = three
      /\ ~Three(s, i) /\ ~Single(s[i]) => SplitFrom(s, g, i) = none
      /\ Single(s[i]) => SplitFrom(s, g, i) = single
  <2> HIDE DEF lead, follow1, follow2, three, single, none, blank
  <2>1. QED
    BY <1>1, <1>2, <1>3, <1>4, <1>5
<1>7. QED
  BY <1>6

(* Three bytes in a row.                                                   *)
LEMMA ThreeOf ==
    ASSUME NEW s \in Seq(Byte), NEW i \in 1 .. Len(s), i + 2 <= Len(s)
    PROVE  /\ SubSeq(s, i, i + 2) = <<s[i], s[i + 1], s[i + 2]>>
           /\ <<s[i], s[i + 1], s[i + 2]>> \in Seq(Byte)
<1>1. Len(s) \in Nat /\ i + 1 \in 1 .. Len(s) /\ i + 2 \in 1 .. Len(s)
  OBVIOUS
<1>2. s[i] \in Byte /\ s[i + 1] \in Byte /\ s[i + 2] \in Byte
  BY <1>1
<1> DEFINE w == SubSeq(s, i, i + 2)
<1>3. w \in Seq(Byte) /\ Len(w) = 3 /\ w[1] = s[i] /\ w[2] = s[i + 1] /\ w[3] = s[i + 2]
  <2> DEFINE k == i + 2
  <2>1. k \in Nat /\ i \in Nat /\ 1 <= i /\ i <= k /\ k <= Len(s) /\ k - i + 1 = 3
    BY <1>1
  <2>2. i + 1 - 1 = i /\ i + 2 - 1 = i + 1 /\ i + 3 - 1 = i + 2
    BY <2>1
  <2> HIDE DEF k
  <2>3. SubSeq(s, i, k) = [j \in 1 .. k - i + 1 |-> s[i + j - 1]]
    BY <2>1
  <2>4. w = [j \in 1 .. 3 |-> s[i + j - 1]]
    BY <2>1, <2>3 DEF k
  <2> HIDE DEF w
  <2>5. w[1] = s[i] /\ w[2] = s[i + 1] /\ w[3] = s[i + 2]
    BY <2>2, <2>4
  <2>6. SubSeq(s, i, k) \in Seq(Byte) /\ Len(SubSeq(s, i, k)) = k - i + 1
    BY <2>1
  <2>7. w \in Seq(Byte) /\ Len(w) = 3
    BY <2>1, <2>6 DEF k, w
  <2>8. QED
    BY <2>5, <2>7
<1>4. w \in Seq(Byte) /\ Len(w) = 3 => w = <<w[1], w[2], w[3]>>
  <2> HIDE DEF w
  <2>1. QED
    OBVIOUS
<1>5. QED
  BY <1>2, <1>3, <1>4

(* The loop from any position makes words.                                 *)
LEMMA SplitMakesWords ==
    ASSUME NEW s \in Seq(Byte)
    PROVE  SplitChWords(s) \in Seq(ChWord)
<1>1. PICK from \in [1 .. Len(s) + 1 -> Seq(Seq(Byte))] :
         /\ SplitChWords(s) = from[1]
         /\ \A i \in 1 .. Len(s) + 1 : from[i] = SplitFrom(s, from, i)
  BY SplitChWordsLoop
<1> DEFINE n == Len(s)
           T == {k \in Nat : \A i \in 1 .. n + 1 : n + 1 - i <= k => from[i] \in Seq(ChWord)}
<1>2. n \in Nat /\ \A i \in 1 .. n : s[i] \in Byte
  OBVIOUS
<1>3. ASSUME NEW i \in 1 .. n + 1,
             \A j \in 1 .. n + 1 : j > i => from[j] \in Seq(ChWord)
      PROVE  from[i] \in Seq(ChWord)
  <2>1. from[i] = SplitFrom(s, from, i)
    BY <1>1
  <2>2. CASE i > n
    <3>1. from[i] = <<>>
      BY <2>1, <2>2 DEF SplitFrom
    <3>2. QED
      BY <3>1
  <2>3. CASE /\ i <= n /\ s[i] \in Lead
             /\ i + 1 <= n /\ s[i + 1] \in Follow /\ i + 2 <= n /\ s[i + 2] \in Follow
    <3> DEFINE w == SubSeq(s, i, i + 2)
    <3>1. from[i] = <<w>> \o from[i + 3]
      <4>1. i \in 1 .. n
        BY <2>3
      <4>2. QED
        BY <2>1, <2>3, <4>1, SplitFromIs DEF Three
    <3>2. from[i + 3] \in Seq(ChWord)
      BY <1>2, <1>3, <2>3
    <3>3. w = <<s[i], s[i + 1], s[i + 2]>> /\ w \in Seq(Byte)
      BY <1>2, <2>3, ThreeOf
    <3> HIDE DEF w
    <3>4. w \in ChWord
      <4>1. Len(w) = 3 /\ w[1] = s[i] /\ w[2] = s[i + 1] /\ w[3] = s[i + 2]
        BY <3>3
      <4>2. QED
        BY <2>3, <3>3, <4>1 DEF ChWord, IsWord
    <3>5. <<w>> \in Seq(ChWord)
      BY <3>4
    <3>6. QED
      BY <3>1, <3>2, <3>5, ConcatProperties
  <2>4. CASE i <= n /\ s[i] \notin Lead /\ s[i] # Space
    <3> DEFINE w == <<s[i]>>
    <3>1. from[i] = <<w>> \o from[i + 1]
      <4>1. i \in 1 .. n
        BY <2>4
      <4>2. QED
        BY <2>1, <2>4, <4>1, SplitFromIs DEF Single
    <3>2. from[i + 1] \in Seq(ChWord)
      BY <1>2, <1>3, <2>4
    <3>3. w \in Seq(Byte) /\ Len(w) = 1 /\ w[1] = s[i]
      BY <1>2, <2>4
    <3>4. w \in ChWord
      BY <2>4, <3>3 DEF ChWord, IsWord
    <3>5. <<w>> \in Seq(ChWord)
      BY <3>4
    <3> HIDE DEF w
    <3>6. QED
      BY <3>1, <3>2, <3>5, ConcatProperties
  <2>5. CASE /\ i <= n
             /\ \/ s[i] = Space
                \/ /\ s[i] \in Lead
                   /\ ~ (/\ i + 1 <= n /\ s[i + 1] \in Follow
                         /\ i + 2 <= n /\ s[i + 2] \in Follow)
    <3>1. from[i] = from[i + 1]
      <4>1. i \in 1 .. n
        BY <2>5
      <4>2. QED
        <5>1. ~Three(s, i) /\ ~Single(s[i])
          <6>1. Space \notin Lead
            BY DEF Space, Lead
          <6>2. QED
            BY <2>5, <6>1 DEF Three, Single
        <5>2. QED
          BY <2>1, <4>1, <5>1, SplitFromIs, Zenon
    <3>2. QED
      BY <1>2, <1>3, <2>5, <3>1
  <2>6. QED
    BY <1>2, <2>2, <2>3, <2>4, <2>5
<1>4. ASSUME NEW k \in Nat, k \in T PROVE k + 1 \in T
  <2> SUFFICES ASSUME NEW i \in 1 .. n + 1, n + 1 - i <= k + 1 PROVE from[i] \in Seq(ChWord)
    OBVIOUS
  <2>1. \A j \in 1 .. n + 1 : j > i => from[j] \in Seq(ChWord)
    BY <1>2, <1>4
  <2>2. QED
    BY <1>3, <2>1
<1>5. 0 \in T
  <2> SUFFICES ASSUME NEW i \in 1 .. n + 1, n + 1 - i <= 0 PROVE from[i] \in Seq(ChWord)
    OBVIOUS
  <2>1. QED
    BY <1>2, <1>3
<1>6. n \in T
  <2> HIDE DEF T
  <2>1. QED
    BY <1>2, <1>4, <1>5, Induction
<1>7. QED
  BY <1>1, <1>2, <1>6

LEMMA WordJoins ==
    ASSUME NEW v \in Seq(Byte), NEW w \in Seq(Byte), NEW ws \in Seq(Seq(Byte))
    PROVE  <<v>> \o (ws \o <<w>>) = (<<v>> \o ws) \o <<w>>
<1> DEFINE S == Seq(Byte)
<1>1. <<v>> \in Seq(S) /\ <<w>> \in Seq(S) /\ ws \in Seq(S)
  OBVIOUS
<1> HIDE DEF S
<1>2. QED
  BY <1>1, ConcatAssociative

(* A word behind whole characters is one word more.                        *)
LEMMA SplitAppend ==
    ASSUME NEW s \in Seq(Byte), Whole(s), NEW w \in ChWord
    PROVE  /\ s \o w \in Seq(Byte) /\ Whole(s \o w)
           /\ SplitChWords(s \o w) = Append(SplitChWords(s), w)
<1> DEFINE n == Len(s)
           t == s \o w
           m == Len(t)
<1>1. /\ w \in Seq(Byte) /\ IsWord(w) /\ n \in Nat /\ Len(w) \in {1, 3}
      /\ t \in Seq(Byte) /\ m = n + Len(w)
      /\ \A i \in 1 .. n : t[i] = s[i]
      /\ \A i \in 1 .. Len(w) : t[n + i] = w[i]
  BY DEF ChWord, IsWord
<1> HIDE DEF t, n, m
<1>a. m = Len(t) /\ n = Len(s) /\ m \in Nat
  BY <1>1 DEF m, n
<1>2. \A i \in 1 .. n : i + 1 >= n => s[i] \notin Lead
  BY <1>1, <1>a DEF Whole
<1>3. Whole(t)
  <2> SUFFICES ASSUME NEW i \in {m - 1, m}, i \in DOMAIN t PROVE t[i] \notin Lead
    BY <1>a DEF Whole, t
  <2>1. i \in 1 .. m
    BY <1>1, <1>a
  <2>2. CASE Len(w) = 3
    <3>1. w[2] \notin Lead /\ w[3] \notin Lead
      <4>1. w[2] \in Follow /\ w[3] \in Follow
        BY <1>1, <2>2 DEF IsWord
      <4>2. \A b \in Follow : b \notin Lead
        BY DEF Follow, Lead
      <4>3. QED
        BY <4>1, <4>2
    <3>2. t[n + 2] = w[2] /\ t[n + 3] = w[3] /\ (i = n + 2 \/ i = n + 3)
      BY <1>1, <2>2
    <3>3. QED
      BY <3>1, <3>2
  <2>3. CASE Len(w) = 1
    <3>1. w[1] \notin Lead /\ t[n + 1] = w[1] /\ (i = n \/ i = n + 1)
      BY <1>1, <2>3 DEF IsWord
    <3>2. i = n => t[i] \notin Lead
      BY <1>1, <1>2, <2>1
    <3>3. QED
      BY <3>1, <3>2
  <2>4. QED
    BY <1>1, <2>2, <2>3
<1>4. PICK f \in [1 .. n + 1 -> Seq(Seq(Byte))] :
         /\ SplitChWords(s) = f[1]
         /\ \A i \in 1 .. n + 1 : f[i] = SplitFrom(s, f, i)
  BY SplitChWordsLoop DEF n
<1>5. PICK g \in [1 .. m + 1 -> Seq(Seq(Byte))] :
         /\ SplitChWords(t) = g[1]
         /\ \A i \in 1 .. m + 1 : g[i] = SplitFrom(t, g, i)
  <2>1. \E g \in [1 .. Len(t) + 1 -> Seq(Seq(Byte))] :
            /\ SplitChWords(t) = g[1]
            /\ \A i \in 1 .. Len(t) + 1 : g[i] = SplitFrom(t, g, i)
    BY <1>1, SplitChWordsLoop, Zenon
  <2>2. QED
    BY <2>1 DEF m
<1>6. f[n + 1] = <<>>
  <2>1. n + 1 \in 1 .. n + 1 /\ n + 1 > Len(s)
    BY <1>1 DEF n
  <2>2. QED
    BY <1>4, <2>1 DEF SplitFrom
<1>7. g[m + 1] = <<>>
  <2>1. m \in Nat /\ m + 1 \in 1 .. m + 1 /\ m + 1 > Len(t)
    BY <1>1 DEF m
  <2>2. QED
    BY <1>5, <2>1 DEF SplitFrom
<1>8. g[n + 1] = <<w>>
  <2>1. n + 1 \in 1 .. m + 1 /\ n + 1 <= Len(t) /\ n + 1 \in 1 .. Len(t) /\ Len(t) = m
    <3>1. m >= n + 1
      <4>1. \A l \in {1, 3} : n + l >= n + 1
        BY <1>1
      <4>2. QED
        BY <1>1, <4>1
    <3>2. QED
      BY <1>1, <1>a, <3>1
  <2>a. t \in Seq(Byte) /\ n + 1 \in 1 .. Len(t)
    BY <1>1, <2>1
  <2>b. /\ Three(t, n + 1) =>
            SplitFrom(t, g, n + 1) = <<SubSeq(t, n + 1, n + 1 + 2)>> \o g[n + 1 + 3]
        /\ Single(t[n + 1]) => SplitFrom(t, g, n + 1) = << <<t[n + 1]>> >> \o g[n + 1 + 1]
    BY <2>a, SplitFromIs, Zenon
  <2>2. g[n + 1] = SplitFrom(t, g, n + 1)
    BY <1>5, <2>1
  <2>3. CASE Len(w) = 1
    <3>1. t[n + 1] = w[1] /\ n + 2 = m + 1 /\ w[1] \notin Lead /\ w[1] # Space /\ w = <<w[1]>>
      BY <1>1, <2>3 DEF IsWord
    <3>2. g[n + 1] = << <<t[n + 1]>> >> \o g[n + 2]
      <4>1. n + 1 + 1 = n + 2
        BY <1>1
      <4>2. QED
        <5>1. Single(t[n + 1])
          BY <3>1 DEF Single
        <5>2. QED
          BY <2>b, <2>2, <4>1, <5>1
    <3>3. g[n + 1] = <<w>> \o <<>>
      BY <1>7, <3>1, <3>2
    <3>4. QED
      BY <3>3
  <2>4. CASE Len(w) = 3
    <3>1. /\ t[n + 1] = w[1] /\ t[n + 2] = w[2] /\ t[n + 3] = w[3] /\ m = n + 3
          /\ w[1] \in Lead /\ w[2] \in Follow /\ w[3] \in Follow
      BY <1>1, <2>4 DEF IsWord
    <3>2. n + 1 + 1 = n + 2 /\ n + 1 + 2 = n + 3 /\ n + 1 + 3 = m + 1 /\ n + 2 <= m /\ n + 3 <= m
      BY <1>1, <3>1
    <3>3. g[n + 1] = <<SubSeq(t, n + 1, n + 3)>> \o g[m + 1]
      <4>1. Three(t, n + 1)
        BY <2>1, <3>1, <3>2 DEF Three
      <4>2. QED
        BY <2>b, <2>2, <3>2, <4>1
    <3>4. SubSeq(t, n + 1, n + 3) = w
      <4>1. SubSeq(t, n + 1, n + 3) = <<t[n + 1], t[n + 2], t[n + 3]>>
        BY <1>1, <2>1, <3>1, <3>2, ThreeOf
      <4>2. w = <<w[1], w[2], w[3]>>
        BY <1>1, <2>4
      <4>3. QED
        BY <3>1, <4>1, <4>2
    <3>5. g[n + 1] = <<w>> \o <<>>
      BY <1>7, <3>3, <3>4
    <3>6. QED
      BY <3>5
  <2>5. QED
    BY <1>1, <2>3, <2>4
<1> DEFINE T == {k \in Nat : \A i \in 1 .. n + 1 : n + 1 - i <= k => g[i] = f[i] \o <<w>>}
<1>9. ASSUME NEW i \in 1 .. n, \A j \in 1 .. n + 1 : j > i => g[j] = f[j] \o <<w>>
      PROVE  g[i] = f[i] \o <<w>>
  <2>1. /\ i \in 1 .. n + 1 /\ i \in 1 .. m + 1 /\ i <= n /\ i <= m /\ Len(s) = n /\ Len(t) = m
        /\ t[i] = s[i] /\ i + 1 \in 1 .. n + 1 /\ i + 1 > i
    BY <1>1 DEF n, m
  <2>a. i \in 1 .. Len(s) /\ i \in 1 .. Len(t) /\ t \in Seq(Byte)
    BY <1>1, <2>1
  <2>b. /\ Single(s[i]) => SplitFrom(s, f, i) = << <<s[i]>> >> \o f[i + 1]
        /\ Single(t[i]) => SplitFrom(t, g, i) = << <<t[i]>> >> \o g[i + 1]
    BY <2>a, SplitFromIs, Zenon
  <2>2. f[i] = SplitFrom(s, f, i) /\ g[i] = SplitFrom(t, g, i)
    BY <1>4, <1>5, <2>1
  <2>3. g[i + 1] = f[i + 1] \o <<w>> /\ f[i + 1] \in Seq(Seq(Byte))
    BY <1>9, <2>1
  <2>4. CASE s[i] \in Lead
    <3>1. i + 2 <= n /\ i + 1 <= n /\ i + 2 <= m /\ i + 1 <= m
      BY <1>1, <1>2, <2>4
    <3>2. t[i + 1] = s[i + 1] /\ t[i + 2] = s[i + 2] /\ i + 3 \in 1 .. n + 1 /\ i + 3 > i
      BY <1>1, <3>1
    <3>a. Three(s, i) <=> Three(t, i)
      BY <2>1, <3>1, <3>2 DEF Three
    <3>b. ~Single(s[i]) /\ ~Single(t[i])
      BY <2>1, <2>4 DEF Single
    <3>3. CASE Three(s, i)
      <4>1. f[i] = <<SubSeq(s, i, i + 2)>> \o f[i + 3]
        BY <2>a, <2>2, <3>3, SplitFromIs
      <4>2. g[i] = <<SubSeq(t, i, i + 2)>> \o g[i + 3]
        BY <1>1, <2>a, <2>2, <3>a, <3>3, SplitFromIs
      <4>3. SubSeq(t, i, i + 2) = <<t[i], t[i + 1], t[i + 2]>>
        BY <1>1, <2>1, <2>a, <3>1, ThreeOf
      <4>4. SubSeq(s, i, i + 2) = <<s[i], s[i + 1], s[i + 2]>>
        BY <2>1, <2>a, <3>1, ThreeOf
      <4>5. SubSeq(s, i, i + 2) = SubSeq(t, i, i + 2)
        BY <2>1, <3>2, <4>3, <4>4
      <4>6. g[i + 3] = f[i + 3] \o <<w>> /\ f[i + 3] \in Seq(Seq(Byte))
        BY <1>9, <3>2
      <4> DEFINE v == SubSeq(s, i, i + 2)
      <4>7. v \in Seq(Byte)
        BY <2>1, <2>a, <3>1, <4>4, ThreeOf
      <4> HIDE DEF v
      <4>8. f[i] = <<v>> \o f[i + 3] /\ g[i] = <<v>> \o (f[i + 3] \o <<w>>)
        BY <4>1, <4>2, <4>5, <4>6 DEF v
      <4>9. QED
        BY <1>1, <4>6, <4>7, <4>8, WordJoins
    <3>4. CASE ~Three(s, i)
      <4>1. f[i] = f[i + 1]
        BY <2>a, <2>2, <3>b, <3>4, SplitFromIs
      <4>2. g[i] = g[i + 1]
        BY <1>1, <2>a, <2>2, <3>a, <3>b, <3>4, SplitFromIs
      <4>3. QED
        BY <2>3, <4>1, <4>2
    <3>5. QED
      BY <3>3, <3>4
  <2>5. CASE s[i] \notin Lead /\ s[i] = Space
    <3>1. f[i] = f[i + 1] /\ g[i] = g[i + 1]
      <4>1. ~Single(s[i]) /\ ~Single(t[i]) /\ ~Three(s, i) /\ ~Three(t, i)
        BY <2>1, <2>5 DEF Single, Three
      <4>2. QED
        BY <1>1, <2>a, <2>2, <4>1, SplitFromIs
    <3>2. QED
      BY <2>3, <3>1
  <2>6. CASE s[i] \notin Lead /\ s[i] # Space
    <3>1. f[i] = << <<s[i]>> >> \o f[i + 1] /\ g[i] = << <<s[i]>> >> \o g[i + 1]
      <4>1. Single(s[i]) /\ Single(t[i])
        BY <2>1, <2>6 DEF Single
      <4>2. t[i] = s[i]
        BY <2>1
      <4>3. QED
        BY <2>2, <2>b, <4>1, <4>2
    <3> DEFINE v == <<s[i]>>
    <3>2. v \in Seq(Byte)
      BY <2>a
    <3> HIDE DEF v
    <3>3. f[i] = <<v>> \o f[i + 1] /\ g[i] = <<v>> \o (f[i + 1] \o <<w>>)
      BY <2>3, <3>1 DEF v
    <3>4. QED
      BY <1>1, <2>3, <3>2, <3>3, WordJoins
  <2>7. QED
    BY <2>4, <2>5, <2>6
<1>10. ASSUME NEW i \in 1 .. n + 1, \A j \in 1 .. n + 1 : j > i => g[j] = f[j] \o <<w>>
       PROVE  g[i] = f[i] \o <<w>>
  <2>1. CASE i = n + 1
    <3>1. <<>> \o <<w>> = <<w>>
      OBVIOUS
    <3>2. QED
      BY <1>6, <1>8, <2>1, <3>1
  <2>2. CASE i # n + 1
    <3>1. i \in 1 .. n
      BY <1>1, <2>2
    <3>2. QED
      BY <1>9, <1>10, <3>1
  <2>3. QED
    BY <2>1, <2>2
<1>11. ASSUME NEW k \in Nat, k \in T PROVE k + 1 \in T
  <2> SUFFICES ASSUME NEW i \in 1 .. n + 1, n + 1 - i <= k + 1 PROVE g[i] = f[i] \o <<w>>
    OBVIOUS
  <2>1. ASSUME NEW j \in 1 .. n + 1, j > i PROVE g[j] = f[j] \o <<w>>
    <3>1. n + 1 - j <= k
      BY <1>1, <2>1
    <3>2. QED
      BY <1>11, <3>1
  <2>2. QED
    BY <1>10, <2>1
<1>12. 0 \in T
  <2> SUFFICES ASSUME NEW i \in 1 .. n + 1, n + 1 - i <= 0 PROVE g[i] = f[i] \o <<w>>
    OBVIOUS
  <2>1. \A j \in 1 .. n + 1 : ~ (j > i)
    BY <1>1
  <2>2. QED
    BY <1>10, <2>1
<1>13. n \in T
  <2> HIDE DEF T
  <2>1. QED
    BY <1>1, <1>11, <1>12, Induction
<1>14. g[1] = f[1] \o <<w>>
  <2>1. 1 \in 1 .. n + 1 /\ n + 1 - 1 <= n
    BY <1>1
  <2>2. QED
    BY <1>13, <2>1
<1>15. f[1] \o <<w>> = Append(f[1], w)
  <2>1. n \in Nat /\ w \in Seq(Byte)
    BY <1>1
  <2>2. 1 \in 1 .. n + 1
    BY <2>1
  <2>3. f[1] \in Seq(Seq(Byte))
    BY <2>2
  <2>4. QED
    BY <2>1, <2>3
<1>16. QED
  BY <1>1, <1>3, <1>4, <1>5, <1>14, <1>15 DEF t

-----------------------------------------------------------------------------
(* The order of the nodes of a trie.                                       *)
LEMMA AppendWord ==
    ASSUME NEW u \in Seq(ChWord), NEW v \in Seq(ChWord), NEW w \in ChWord
    PROVE  Append(u \o v, w) = u \o Append(v, w)
OBVIOUS

(* Words behind whole characters stay as they are.                         *)
LEMMA SplitExtended ==
    ASSUME NEW s \in Seq(Byte), Whole(s), NEW rest \in Seq(ChWord)
    PROVE  SplitChWords(s \o FlattenSeq(rest)) = SplitChWords(s) \o rest
<1> DEFINE n == Len(rest)
           r(k) == SubSeq(rest, 1, k)
           Good(k) == /\ s \o FlattenSeq(r(k)) \in Seq(Byte) /\ Whole(s \o FlattenSeq(r(k)))
                      /\ SplitChWords(s \o FlattenSeq(r(k))) = SplitChWords(s) \o r(k)
           T == {k \in Nat : k <= n => Good(k)}
<1>1. n \in Nat /\ SplitChWords(s) \in Seq(ChWord) /\ ChWord \subseteq Seq(Byte)
  BY SplitMakesWords DEF ChWord
<1>2. 0 \in T
  <2>1. r(0) = <<>> /\ s \o <<>> = s /\ SplitChWords(s) \o <<>> = SplitChWords(s)
    BY <1>1
  <2>2. Good(0)
    BY <2>1, FlattenEmpty
  <2>3. QED
    BY <2>2
<1>3. ASSUME NEW k \in Nat, k \in T PROVE k + 1 \in T
  <2> SUFFICES ASSUME k + 1 <= n PROVE Good(k + 1)
    OBVIOUS
  <2> DEFINE f == FlattenSeq(r(k))
             w == rest[k + 1]
             ws == SplitChWords(s)
  <2>1. Good(k)
    BY <1>1, <1>3
  <2>2. w \in ChWord /\ w \in Seq(Byte)
    BY <1>1
  <2>3. rest \in Seq(Seq(Byte))
    <3>1. \A i \in 1 .. n : rest[i] \in Seq(Byte)
      BY <1>1
    <3>2. QED
      BY <1>1, <3>1
  <2>4. f \in Seq(Byte) /\ FlattenSeq(r(k + 1)) = f \o w
    BY <2>3, FlattenPrefixes
  <2>5. r(k) \in Seq(ChWord) /\ r(k + 1) = Append(r(k), w)
    BY <1>1
  <2> HIDE DEF f, w, r, ws
  <2>6. s \o FlattenSeq(r(k + 1)) = (s \o f) \o w
    <3>1. f \in Seq(Byte) /\ w \in Seq(Byte)
      BY <2>2, <2>4
    <3>2. (s \o f) \o w = s \o (f \o w)
      BY <3>1, ConcatAssociative
    <3>3. QED
      BY <2>4, <3>2
  <2>7. /\ (s \o f) \o w \in Seq(Byte) /\ Whole((s \o f) \o w)
        /\ SplitChWords((s \o f) \o w) = Append(SplitChWords(s \o f), w)
    <3>1. s \o f \in Seq(Byte) /\ Whole(s \o f)
      BY <2>1 DEF f
    <3>2. QED
      BY <2>2, <3>1, SplitAppend
  <2>8. SplitChWords(s \o f) = ws \o r(k)
    BY <2>1 DEF f, ws
  <2>9. Append(ws \o r(k), w) = ws \o r(k + 1)
    <3>1. ws \in Seq(ChWord)
      BY <1>1 DEF ws
    <3>2. Append(ws \o r(k), w) = ws \o Append(r(k), w)
      BY <2>2, <2>5, <3>1, AppendWord
    <3>3. QED
      BY <2>5, <3>2
  <2>10. QED
    BY <2>6, <2>7, <2>8, <2>9 DEF ws
<1>4. n \in T
  <2> HIDE DEF T
  <2>1. QED
    BY <1>1, <1>2, <1>3, Induction
<1>5. r(n) = rest
  BY <1>1
<1>6. Good(n)
  BY <1>1, <1>4
<1> HIDE DEF r
<1>7. QED
  BY <1>5, <1>6

(* Words are what their characters say.                                    *)
LEMMA SplitFlatten ==
    ASSUME NEW p \in Seq(ChWord)
    PROVE  SplitChWords(FlattenSeq(p)) = p /\ FlattenSeq(p) \in Seq(Byte)
<1>1. <<>> \in Seq(Byte) /\ Whole(<<>>) /\ SplitChWords(<<>>) = <<>>
  <2>1. <<>> \in Seq(Byte) /\ Len(<<>>) = 0
    OBVIOUS
  <2>2. Whole(<<>>)
    BY DEF Whole
  <2>3. PICK f \in [1 .. Len(<<>>) + 1 -> Seq(Seq(Byte))] :
           /\ SplitChWords(<<>>) = f[1]
           /\ \A i \in 1 .. Len(<<>>) + 1 : f[i] = SplitFrom(<<>>, f, i)
    BY <2>1, SplitChWordsLoop, Zenon
  <2>4. f[1] = SplitFrom(<<>>, f, 1)
    BY <2>1, <2>3
  <2>5. SplitFrom(<<>>, f, 1) = <<>>
    BY <2>1 DEF SplitFrom
  <2>6. QED
    BY <2>1, <2>2, <2>3, <2>4, <2>5
<1>2. p \in Seq(Seq(Byte))
  <2>1. Len(p) \in Nat /\ \A i \in 1 .. Len(p) : p[i] \in Seq(Byte)
    BY DEF ChWord
  <2>2. QED
    BY <2>1
<1>3. FlattenSeq(p) \in Seq(Byte)
  BY <1>2, FlattenType
<1>4. SplitChWords(<<>> \o FlattenSeq(p)) = <<>> \o p
  BY <1>1, SplitExtended
<1>5. <<>> \o FlattenSeq(p) = FlattenSeq(p) /\ <<>> \o p = p
  BY <1>3
<1>6. QED
  BY <1>3, <1>4, <1>5

-----------------------------------------------------------------------------
(* The order of the search.                                                *)

(* The first difference decides.                                           *)
Below(a, b) ==
    \/ Len(a) < Len(b) /\ \A i \in 1 .. Len(a) : a[i] = b[i]
    \/ \E i \in 1 .. Len(a) : /\ i <= Len(b) /\ a[i] < b[i]
                              /\ \A j \in 1 .. i - 1 : a[j] = b[j]

LEMMA BeforeIsBelow ==
    ASSUME NEW p \in Seq(ChWord), NEW q \in Seq(ChWord)
    PROVE  Before(p, q) <=> Below(FlattenSeq(p), FlattenSeq(q))
<1> DEFINE a == FlattenSeq(p)
           b == FlattenSeq(q)
           differ == {i \in DOMAIN a \cap DOMAIN b : a[i] # b[i]}
<1>1. a \in Seq(Byte) /\ b \in Seq(Byte)
  BY SplitFlatten
<1>2. Before(p, q) <=> \/ differ = {} /\ Len(a) < Len(b)
                       \/ \E i \in differ : a[i] < b[i] /\ \A j \in differ : i <= j
  BY DEF Before
<1> HIDE DEF a, b
<1>3. /\ Len(a) \in Nat /\ Len(b) \in Nat /\ DOMAIN a = 1 .. Len(a) /\ DOMAIN b = 1 .. Len(b)
      /\ \A i \in 1 .. Len(a) : a[i] \in Int
      /\ \A i \in 1 .. Len(b) : b[i] \in Int
  <2>1. \A x \in Byte : x \in Int
    BY DEF Byte
  <2>2. (\A i \in 1 .. Len(a) : a[i] \in Byte) /\ \A i \in 1 .. Len(b) : b[i] \in Byte
    BY <1>1
  <2>3. QED
    BY <1>1, <2>1, <2>2
<1>4. differ = {} /\ Len(a) < Len(b) <=> Len(a) < Len(b) /\ \A i \in 1 .. Len(a) : a[i] = b[i]
  BY <1>3
<1>5. ASSUME NEW i \in differ, a[i] < b[i], \A j \in differ : i <= j
      PROVE  i \in 1 .. Len(a) /\ i <= Len(b) /\ a[i] < b[i] /\ \A j \in 1 .. i - 1 : a[j] = b[j]
  <2>1. i \in 1 .. Len(a) /\ i \in 1 .. Len(b)
    BY <1>3
  <2>2. ASSUME NEW j \in 1 .. i - 1, a[j] # b[j] PROVE FALSE
    <3>1. j \in 1 .. Len(a) /\ j \in 1 .. Len(b) /\ j < i
      BY <1>3, <2>1
    <3>2. j \in differ
      BY <1>3, <2>2, <3>1
    <3>3. QED
      BY <1>5, <2>1, <3>1, <3>2
  <2>3. QED
    BY <1>3, <1>5, <2>1, <2>2
<1>6. ASSUME NEW i \in 1 .. Len(a), i <= Len(b), a[i] < b[i], \A j \in 1 .. i - 1 : a[j] = b[j]
      PROVE  i \in differ /\ \A j \in differ : i <= j
  <2>1. i \in 1 .. Len(b) /\ a[i] # b[i]
    BY <1>3, <1>6
  <2>2. ASSUME NEW j \in differ PROVE i <= j
    <3>1. j \in 1 .. Len(a) /\ a[j] # b[j]
      BY <1>3
    <3>2. QED
      BY <1>3, <1>6, <3>1
  <2>3. QED
    BY <1>3, <2>1, <2>2
<1>7. QED
  BY <1>2, <1>4, <1>5, <1>6 DEF Below, a, b

LEMMA BelowOrders ==
    ASSUME NEW a \in Seq(Byte), NEW b \in Seq(Byte), NEW c \in Seq(Byte)
    PROVE  /\ ~Below(a, a)
           /\ Below(a, b) /\ Below(b, c) => Below(a, c)
           /\ a # b => Below(a, b) \/ Below(b, a)
<1>1. \A s \in {a, b, c} : Len(s) \in Nat /\ \A i \in 1 .. Len(s) : s[i] \in Int
  <2>1. \A x \in Byte : x \in Int
    BY DEF Byte
  <2>2. ASSUME NEW s \in Seq(Byte) PROVE Len(s) \in Nat /\ \A i \in 1 .. Len(s) : s[i] \in Int
    <3>1. Len(s) \in Nat /\ \A i \in 1 .. Len(s) : s[i] \in Byte
      OBVIOUS
    <3>2. QED
      BY <2>1, <3>1
  <2>3. QED
    BY <2>2
<1>2. ~Below(a, a)
  BY <1>1 DEF Below
<1>3. ASSUME Below(a, b), Below(b, c) PROVE Below(a, c)
  <2>1. CASE Len(a) < Len(b) /\ \A i \in 1 .. Len(a) : a[i] = b[i]
    <3>1. CASE Len(b) < Len(c) /\ \A i \in 1 .. Len(b) : b[i] = c[i]
      BY <1>1, <2>1, <3>1 DEF Below
    <3>2. ASSUME NEW i \in 1 .. Len(b), i <= Len(c), b[i] < c[i], \A j \in 1 .. i - 1 : b[j] = c[j]
          PROVE  Below(a, c)
      <4>1. CASE i <= Len(a)
        <5>1. i \in 1 .. Len(a) /\ a[i] < c[i] /\ \A j \in 1 .. i - 1 : a[j] = c[j]
          BY <1>1, <2>1, <3>2, <4>1
        <5>2. QED
          BY <3>2, <5>1 DEF Below
      <4>2. CASE i > Len(a)
        <5>1. Len(a) < Len(c) /\ \A j \in 1 .. Len(a) : a[j] = c[j]
          BY <1>1, <2>1, <3>2, <4>2
        <5>2. QED
          BY <5>1 DEF Below
      <4>3. QED
        BY <1>1, <4>1, <4>2
    <3>3. QED
      BY <1>3, <3>1, <3>2 DEF Below
  <2>2. ASSUME NEW i \in 1 .. Len(a), i <= Len(b), a[i] < b[i], \A j \in 1 .. i - 1 : a[j] = b[j]
        PROVE  Below(a, c)
    <3>1. CASE Len(b) < Len(c) /\ \A j \in 1 .. Len(b) : b[j] = c[j]
      <4>1. i <= Len(c) /\ a[i] < c[i] /\ \A j \in 1 .. i - 1 : a[j] = c[j]
        BY <1>1, <2>2, <3>1
      <4>2. QED
        BY <4>1 DEF Below
    <3>2. ASSUME NEW k \in 1 .. Len(b), k <= Len(c), b[k] < c[k], \A j \in 1 .. k - 1 : b[j] = c[j]
          PROVE  Below(a, c)
      <4>1. CASE i < k
        <5>1. i <= Len(c) /\ a[i] < c[i] /\ \A j \in 1 .. i - 1 : a[j] = c[j]
          BY <1>1, <2>2, <3>2, <4>1
        <5>2. QED
          BY <5>1 DEF Below
      <4>2. CASE i = k
        <5>1. a[i] < c[i] /\ \A j \in 1 .. i - 1 : a[j] = c[j]
          BY <1>1, <2>2, <3>2, <4>2
        <5>2. QED
          BY <3>2, <4>2, <5>1 DEF Below
      <4>3. CASE k < i
        <5>1. k \in 1 .. Len(a) /\ a[k] < c[k] /\ \A j \in 1 .. k - 1 : a[j] = c[j]
          BY <1>1, <2>2, <3>2, <4>3
        <5>2. QED
          BY <3>2, <5>1 DEF Below
      <4>4. QED
        BY <1>1, <4>1, <4>2, <4>3
    <3>3. QED
      BY <1>3, <3>1, <3>2 DEF Below
  <2>3. QED
    BY <1>3, <2>1, <2>2 DEF Below
<1>4. ASSUME a # b, ~Below(a, b), ~Below(b, a) PROVE FALSE
  <2> DEFINE T == {k \in Nat : \A i \in 1 .. k : i <= Len(a) /\ i <= Len(b) => a[i] = b[i]}
  <2>1. 0 \in T
    OBVIOUS
  <2>2. ASSUME NEW k \in Nat, k \in T PROVE k + 1 \in T
    <3> SUFFICES ASSUME NEW i \in 1 .. k + 1, i <= Len(a), i <= Len(b) PROVE a[i] = b[i]
      OBVIOUS
    <3>1. CASE i <= k
      BY <2>2, <3>1
    <3>2. CASE i = k + 1
      <4>1. \A j \in 1 .. i - 1 : a[j] = b[j] /\ b[j] = a[j]
        <5>1. ASSUME NEW j \in 1 .. i - 1 PROVE a[j] = b[j]
          <6>1. j \in 1 .. k /\ j <= Len(a) /\ j <= Len(b)
            BY <1>1, <3>2
          <6>2. QED
            BY <2>2, <6>1
        <5>2. QED
          BY <5>1
      <4>2. i \in 1 .. Len(a) /\ i \in 1 .. Len(b)
        BY <1>1, <3>2
      <4>3. ~ (a[i] < b[i])
        BY <1>4, <4>1, <4>2 DEF Below
      <4>4. ~ (b[i] < a[i])
        BY <1>4, <4>1, <4>2 DEF Below
      <4>5. QED
        BY <1>1, <4>2, <4>3, <4>4
    <3>3. QED
      BY <3>1, <3>2
  <2>3. Nat \subseteq T
    <3> HIDE DEF T
    <3>1. QED
      BY <2>1, <2>2, Induction
  <2>4. \A i \in 1 .. Len(a) : i <= Len(b) => a[i] = b[i]
    <3>1. Len(a) \in T
      BY <1>1, <2>3
    <3>2. QED
      BY <1>1, <3>1
  <2>5. ~ (Len(a) < Len(b)) /\ ~ (Len(b) < Len(a))
    <3>1. CASE Len(a) < Len(b)
      <4>1. \A i \in 1 .. Len(a) : a[i] = b[i]
        BY <1>1, <2>4, <3>1
      <4>2. QED
        BY <1>4, <3>1, <4>1 DEF Below
    <3>2. CASE Len(b) < Len(a)
      <4>1. \A i \in 1 .. Len(b) : b[i] = a[i]
        BY <1>1, <2>4, <3>2
      <4>2. QED
        BY <1>4, <3>2, <4>1 DEF Below
    <3>3. QED
      BY <3>1, <3>2
  <2>6. Len(a) = Len(b)
    BY <1>1, <2>5
  <2>7. \A i \in 1 .. Len(a) : a[i] = b[i]
    BY <1>1, <2>4, <2>6
  <2>8. QED
    BY <1>4, <2>6, <2>7, SeqEqual
<1>5. QED
  BY <1>2, <1>3, <1>4

LEMMA BeforeOrders ==
    ASSUME NEW p \in Seq(ChWord), NEW q \in Seq(ChWord), NEW r \in Seq(ChWord)
    PROVE  /\ ~Before(p, p)
           /\ Before(p, q) /\ Before(q, r) => Before(p, r)
           /\ p # q => Before(p, q) \/ Before(q, p)
<1> DEFINE a == FlattenSeq(p)
           b == FlattenSeq(q)
           c == FlattenSeq(r)
<1>1. /\ a \in Seq(Byte) /\ b \in Seq(Byte) /\ c \in Seq(Byte)
      /\ SplitChWords(a) = p /\ SplitChWords(b) = q
  BY SplitFlatten
<1>2. /\ Before(p, p) <=> Below(a, a)
      /\ Before(p, q) <=> Below(a, b)
      /\ Before(q, p) <=> Below(b, a)
      /\ Before(q, r) <=> Below(b, c)
      /\ Before(p, r) <=> Below(a, c)
  BY BeforeIsBelow
<1>3. p # q => a # b
  BY <1>1
<1> HIDE DEF a, b, c
<1>4. QED
  BY <1>1, <1>2, <1>3, BelowOrders

(* How many of the nodes come before p.                                    *)
Rank(nodes, p) == Cardinality({q \in nodes : Before(q, p)})

LEMMA RankGrows ==
    ASSUME NEW nodes, IsFiniteSet(nodes), nodes \subseteq Seq(ChWord),
           NEW p \in nodes, NEW q \in nodes, Before(p, q)
    PROVE  Rank(nodes, p) < Rank(nodes, q)
<1> DEFINE A == {r \in nodes : Before(r, p)}
           B == {r \in nodes : Before(r, q)}
<1>1. \A r \in nodes : Before(r, p) => Before(r, q)
  BY BeforeOrders
<1>2. A \in SUBSET B /\ p \in B /\ p \notin A /\ B \in SUBSET nodes
  BY <1>1, BeforeOrders
<1>3. IsFiniteSet(B)
  BY <1>2, FS_Subset
<1>4. Cardinality(A) <= Cardinality(B) /\ (Cardinality(B) = Cardinality(A) => B = A)
      /\ IsFiniteSet(A)
  BY <1>2, <1>3, FS_Subset
<1>5. Cardinality(A) \in Nat /\ Cardinality(B) \in Nat
  BY <1>3, <1>4, FS_CardinalityType
<1>6. Rank(nodes, p) = Cardinality(A) /\ Rank(nodes, q) = Cardinality(B)
  BY Zenon DEF Rank
<1>7. B # A
  BY <1>2
<1> HIDE DEF A, B
<1>8. QED
  BY <1>4, <1>5, <1>6, <1>7

LEMMA RankBounds ==
    ASSUME NEW nodes, IsFiniteSet(nodes), nodes \subseteq Seq(ChWord), NEW p \in nodes
    PROVE  Rank(nodes, p) \in 0 .. Cardinality(nodes) - 1
<1> DEFINE A == {r \in nodes : Before(r, p)}
<1>1. A \in SUBSET nodes /\ A # nodes
  BY BeforeOrders
<1>2. /\ IsFiniteSet(A) /\ Cardinality(A) <= Cardinality(nodes)
      /\ Cardinality(nodes) = Cardinality(A) => nodes = A
  BY <1>1, FS_Subset
<1>3. Cardinality(A) \in Nat /\ Cardinality(nodes) \in Nat
  BY <1>2, FS_CardinalityType
<1>4. Rank(nodes, p) = Cardinality(A)
  BY Zenon DEF Rank
<1> HIDE DEF A
<1>5. QED
  BY <1>1, <1>2, <1>3, <1>4

(* Every rank is somebody's, so the nodes come out in their order.         *)
LEMMA NthIs ==
    ASSUME NEW nodes, IsFiniteSet(nodes), nodes \subseteq Seq(ChWord),
           NEW i \in 1 .. Cardinality(nodes)
    PROVE  Nth(nodes, i) \in nodes /\ Rank(nodes, Nth(nodes, i)) = i - 1
<1> DEFINE n == Cardinality(nodes)
           rank == [p \in nodes |-> Rank(nodes, p)]
<1>1. n \in Nat
  BY FS_CardinalityType
<1>2. rank \in [nodes -> 0 .. n - 1]
  BY RankBounds
<1>3. ASSUME NEW p \in nodes, NEW q \in nodes, rank[p] = rank[q] PROVE p = q
  <2>1. CASE Before(p, q)
    <3>1. Rank(nodes, p) < Rank(nodes, q)
      BY <2>1, RankGrows
    <3>2. QED
      BY <1>2, <1>3, <3>1
  <2>2. CASE Before(q, p)
    <3>1. Rank(nodes, q) < Rank(nodes, p)
      BY <2>2, RankGrows
    <3>2. QED
      BY <1>2, <1>3, <3>1
  <2>3. QED
    BY <2>1, <2>2, BeforeOrders
<1>4. rank \in Injection(nodes, 0 .. n - 1)
  BY <1>2, <1>3 DEF Injection, IsInjective
<1>5. IsFiniteSet(0 .. n - 1) /\ Cardinality(0 .. n - 1) = n
  <2>1. /\ IsFiniteSet(0 .. n - 1)
        /\ Cardinality(0 .. n - 1) = IF 0 > n - 1 THEN 0 ELSE n - 1 - 0 + 1
    <3>1. 0 \in Int /\ n - 1 \in Int
      BY <1>1
    <3> HIDE DEF n
    <3>2. QED
      BY <3>1, FS_Interval
  <2>2. QED
    BY <1>1, <2>1
<1>6. rank \in Surjection(nodes, 0 .. n - 1)
  BY <1>4, <1>5, FS_Injection
<1>7. PICK p \in nodes : rank[p] = i - 1
  <2>1. i - 1 \in 0 .. n - 1
    BY <1>1
  <2>2. QED
    BY <1>6, <2>1 DEF Surjection
<1>8. \E q \in nodes : Cardinality({r \in nodes : Before(r, q)}) = i - 1
  BY <1>7 DEF Rank
<1>9. QED
  BY <1>8, Zenon DEF Nth, Rank

LEMMA NthAscends ==
    ASSUME NEW nodes, IsFiniteSet(nodes), nodes \subseteq Seq(ChWord),
           NEW i \in 1 .. Cardinality(nodes), NEW j \in 1 .. Cardinality(nodes), j = i + 1
    PROVE  Before(Nth(nodes, i), Nth(nodes, j))
<1> DEFINE p == Nth(nodes, i)
           q == Nth(nodes, j)
<1>1. Cardinality(nodes) \in Nat
  BY FS_CardinalityType
<1>2. p \in nodes /\ Rank(nodes, p) = i - 1
  BY NthIs
<1>3. q \in nodes /\ Rank(nodes, q) = j - 1
  BY NthIs
<1> HIDE DEF p, q
<1>4. i - 1 < j - 1
  BY <1>1
<1>5. ~Before(q, p)
  <2>1. ASSUME Before(q, p) PROVE Rank(nodes, q) < Rank(nodes, p)
    BY <1>2, <1>3, <2>1, RankGrows
  <2>2. QED
    BY <1>1, <1>2, <1>3, <1>4, <2>1
<1>6. p \in Seq(ChWord) /\ q \in Seq(ChWord) /\ p # q
  BY <1>1, <1>2, <1>3, <1>4
<1>7. QED
  BY <1>5, <1>6, BeforeOrders DEF p, q

-----------------------------------------------------------------------------
(* The trie of a file of suggestions.                                      *)
(* A line of a file of suggestions.                                        *)
TitleLine == [id : Int, title : Seq(Byte)]

Path(lines, i) == SplitChWords(lines[i].title)

(* Of the first k lines, none behind i has its path.                       *)
LastOf(lines, k, i) == \A j \in 1 .. k : Path(lines, j) = Path(lines, i) => j <= i

(* The trie of the first k lines.                                          *)
BuiltOf(lines, k, tree) ==
    /\ IsFiniteSet(DOMAIN tree) /\ <<>> \in DOMAIN tree /\ DOMAIN tree \subseteq Seq(ChWord)
    /\ \A p \in DOMAIN tree \ {<<>>} : \E i \in 1 .. k : p \in Prefixes(Path(lines, i))
    /\ \A i \in 1 .. k : Prefixes(Path(lines, i)) \subseteq DOMAIN tree
    /\ \A p \in DOMAIN tree \ {<<>>} :
        /\ tree[p].status = 1 => \E i \in 1 .. k :
            Path(lines, i) = p /\ LastOf(lines, k, i) /\ tree[p].tval = lines[i].id
        /\ \A i \in 1 .. k : Path(lines, i) = p => tree[p].status = 1

TrieNode(garbage) == [status : {0, 1, garbage}, tval : Int]
Tries(garbage) == UNION {[D -> TrieNode(garbage)] : D \in SUBSET Seq(ChWord)}

LEMMA SplitAt ==
    ASSUME NEW p \in Seq(ChWord), NEW k \in 0 .. Len(p)
    PROVE  SubSeq(p, 1, k) \o SubSeq(p, k + 1, Len(p)) = p
<1> DEFINE a == SubSeq(p, 1, k)
           b == SubSeq(p, k + 1, Len(p))
<1>1. Len(p) \in Nat /\ k \in Nat /\ k <= Len(p)
  OBVIOUS
<1>2. a \in Seq(ChWord) /\ Len(a) = k /\ \A i \in 1 .. k : a[i] = p[i]
  BY <1>1
<1>3. b \in Seq(ChWord) /\ Len(b) = Len(p) - k /\ \A i \in 1 .. Len(p) - k : b[i] = p[k + i]
  BY <1>1
<1> HIDE DEF a, b
<1>4. Len(a \o b) = Len(p) /\ a \o b \in Seq(ChWord)
  BY <1>1, <1>2, <1>3
<1>5. ASSUME NEW i \in 1 .. Len(p) PROVE (a \o b)[i] = p[i]
  <2>1. CASE i <= k
    BY <1>1, <1>2, <1>3, <2>1
  <2>2. CASE i > k
    <3>1. (a \o b)[i] = b[i - k]
      BY <1>1, <1>2, <1>3, <2>2
    <3>2. i - k \in 1 .. Len(p) - k /\ k + (i - k) = i
      BY <1>1, <2>2
    <3>3. b[i - k] = p[k + (i - k)]
      BY <1>3, <3>2
    <3>4. QED
      BY <3>1, <3>2, <3>3
  <2>3. i <= k \/ i > k
    BY <1>1
  <2>4. QED
    BY <2>1, <2>2, <2>3
<1>6. a \o b = p
  BY <1>4, <1>5, SeqEqual
<1>7. QED
  BY <1>6 DEF a, b

LEMMA PrefixesAre ==
    ASSUME NEW p \in Seq(ChWord)
    PROVE  /\ Prefixes(p) \subseteq Seq(ChWord) /\ <<>> \in Prefixes(p) /\ p \in Prefixes(p)
           /\ IsFiniteSet(Prefixes(p))
           /\ \A q \in Seq(ChWord) : IsPrefix(q, p) =>
                q \in Prefixes(p) /\ SubSeq(p, Len(q) + 1, Len(p)) \in Seq(ChWord)
                    /\ q \o SubSeq(p, Len(q) + 1, Len(p)) = p
<1> DEFINE f == [l \in 0 .. Len(p) |-> SubSeq(p, 1, l)]
<1>1. Len(p) \in Nat
  OBVIOUS
<1>2. Prefixes(p) \subseteq Seq(ChWord)
  <2>1. \A l \in 0 .. Len(p) : SubSeq(p, 1, l) \in Seq(ChWord)
    BY <1>1
  <2>2. QED
    BY <2>1 DEF Prefixes
<1>3. <<>> \in Prefixes(p) /\ p \in Prefixes(p)
  <2>1. SubSeq(p, 1, 0) = <<>> /\ SubSeq(p, 1, Len(p)) = p
    BY <1>1
  <2>2. 0 \in 0 .. Len(p) /\ Len(p) \in 0 .. Len(p)
    BY <1>1
  <2>3. QED
    BY <2>1, <2>2, Zenon DEF Prefixes
<1>4. IsFiniteSet(Prefixes(p))
  <2>1. f \in Surjection(0 .. Len(p), Prefixes(p))
    BY DEF Surjection, Prefixes
  <2>2. IsFiniteSet(0 .. Len(p))
    BY <1>1, FS_Interval
  <2>3. QED
    BY <2>1, <2>2, FS_Surjection
<1>5. ASSUME NEW q \in Seq(ChWord), IsPrefix(q, p)
      PROVE  q \in Prefixes(p) /\ SubSeq(p, Len(q) + 1, Len(p)) \in Seq(ChWord)
                /\ q \o SubSeq(p, Len(q) + 1, Len(p)) = p
  <2>1. Len(q) \in 0 .. Len(p) /\ SubSeq(q, 1, Len(q)) = SubSeq(p, 1, Len(q))
    BY <1>1, <1>5 DEF IsPrefix
  <2>2. SubSeq(q, 1, Len(q)) = q
    OBVIOUS
  <2>3. q \in Prefixes(p)
    BY <2>1, <2>2, Zenon DEF Prefixes
  <2>4. SubSeq(p, 1, Len(q)) \o SubSeq(p, Len(q) + 1, Len(p)) = p
    BY <2>1, SplitAt
  <2>5. SubSeq(p, Len(q) + 1, Len(p)) \in Seq(ChWord)
    BY <1>1, <2>1
  <2>6. QED
    BY <2>1, <2>2, <2>3, <2>4, <2>5
<1>6. QED
  BY <1>2, <1>3, <1>4, <1>5

LEMMA InsertType ==
    ASSUME NEW garbage, NEW tree \in Tries(garbage), NEW path \in Seq(ChWord), NEW val \in Int
    PROVE  Insert(tree, path, val) \in Tries(garbage)
<1>1. CASE path = <<>>
  BY <1>1 DEF Insert
<1>2. CASE path # <<>>
  <2> DEFINE t == Insert(tree, path, val)
  <2>1. PICK D \in SUBSET Seq(ChWord) : tree \in [D -> TrieNode(garbage)]
    BY DEF Tries
  <2>2. /\ DOMAIN t = DOMAIN tree \cup Prefixes(path)
        /\ path \in DOMAIN t => t[path] = [status |-> 1, tval |-> val]
        /\ \A p \in DOMAIN t : p # path =>
             t[p] = IF p \in DOMAIN tree THEN tree[p] ELSE [status |-> 0, tval |-> 0]
    BY <1>2 DEF Insert, End
  <2>3. DOMAIN t \in SUBSET Seq(ChWord)
    BY <2>1, <2>2, PrefixesAre
  <2>4. t = [p \in DOMAIN t |-> t[p]]
    BY <1>2 DEF Insert
  <2> HIDE DEF t
  <2>5. ASSUME NEW p \in DOMAIN t PROVE t[p] \in TrieNode(garbage)
    <3>1. [status |-> 1, tval |-> val] \in TrieNode(garbage)
          /\ [status |-> 0, tval |-> 0] \in TrieNode(garbage)
      BY DEF TrieNode
    <3>2. p \in DOMAIN tree => tree[p] \in TrieNode(garbage)
      BY <2>1
    <3>3. QED
      BY <2>2, <3>1, <3>2
  <2>6. t \in [DOMAIN t -> TrieNode(garbage)]
    BY <2>4, <2>5
  <2>7. QED
    BY <2>3, <2>6 DEF Tries, t
<1>3. QED
  BY <1>1, <1>2

LEMMA BuiltNext ==
    ASSUME NEW lines \in Seq(TitleLine), NEW k \in Nat, k + 1 <= Len(lines),
           NEW tree, BuiltOf(lines, k, tree)
    PROVE  BuiltOf(lines, k + 1, Insert(tree, Path(lines, k + 1), lines[k + 1].id))
<1> DEFINE path == Path(lines, k + 1)
           val == lines[k + 1].id
           t == Insert(tree, path, val)
<1>1. path \in Seq(ChWord)
  <2>1. lines[k + 1] \in TitleLine
    OBVIOUS
  <2>2. lines[k + 1].title \in Seq(Byte)
    BY <2>1 DEF TitleLine
  <2>3. QED
    BY <2>2, SplitMakesWords DEF Path
<1>2. 1 .. k + 1 = (1 .. k) \cup {k + 1} /\ \A i \in 1 .. k : i # k + 1 /\ i <= k + 1
  OBVIOUS
<1> HIDE DEF path, val
<1>3. \A i \in 1 .. k : Path(lines, i) # path /\ LastOf(lines, k, i) => LastOf(lines, k + 1, i)
  BY <1>2 DEF LastOf, path
<1>4. LastOf(lines, k + 1, k + 1)
  BY DEF LastOf
<1>5. CASE path = <<>>
  <2>1. t = tree
    BY <1>5 DEF Insert
  <2>2. Prefixes(<<>>) = {<<>>}
    <3>1. \A l \in 0 .. Len(<<>>) : SubSeq(<<>>, 1, l) = <<>>
      OBVIOUS
    <3>2. <<>> \in Prefixes(<<>>)
      BY <1>1, <1>5, PrefixesAre
    <3>3. \A p \in Prefixes(<<>>) : p = <<>>
      BY <3>1, Zenon DEF Prefixes
    <3>4. QED
      BY <3>2, <3>3
  <2>3. ASSUME NEW p \in DOMAIN tree \ {<<>>}
        PROVE  /\ \E i \in 1 .. k + 1 : p \in Prefixes(Path(lines, i))
               /\ tree[p].status = 1 => \E i \in 1 .. k + 1 :
                    Path(lines, i) = p /\ LastOf(lines, k + 1, i) /\ tree[p].tval = lines[i].id
               /\ \A i \in 1 .. k + 1 : Path(lines, i) = p => tree[p].status = 1
    BY <1>2, <1>3, <1>5, <2>3 DEF BuiltOf, path
  <2>4. \A i \in 1 .. k + 1 : Prefixes(Path(lines, i)) \subseteq DOMAIN tree
    BY <1>2, <1>5, <2>2 DEF BuiltOf, path
  <2>5. BuiltOf(lines, k + 1, tree)
    BY <2>3, <2>4 DEF BuiltOf
  <2>6. QED
    BY <2>1, <2>5 DEF path, val
<1>6. CASE path # <<>>
  <2>1. /\ DOMAIN t = DOMAIN tree \cup Prefixes(path)
        /\ path \in DOMAIN t => t[path] = [status |-> 1, tval |-> val]
        /\ \A p \in DOMAIN t : p # path =>
             t[p] = IF p \in DOMAIN tree THEN tree[p] ELSE [status |-> 0, tval |-> 0]
    BY <1>6 DEF Insert, End
  <2> HIDE DEF t
  <2>2. IsFiniteSet(DOMAIN t) /\ <<>> \in DOMAIN t /\ DOMAIN t \subseteq Seq(ChWord)
    <3>1. IsFiniteSet(Prefixes(path)) /\ Prefixes(path) \subseteq Seq(ChWord)
      BY <1>1, PrefixesAre
    <3>2. IsFiniteSet(DOMAIN tree \cup Prefixes(path))
      BY <3>1, FS_Union DEF BuiltOf
    <3>3. QED
      BY <2>1, <3>1, <3>2 DEF BuiltOf
  <2>3. \A p \in DOMAIN t \ {<<>>} : \E i \in 1 .. k + 1 : p \in Prefixes(Path(lines, i))
    BY <1>2, <2>1 DEF BuiltOf, path
  <2>4. \A i \in 1 .. k + 1 : Prefixes(Path(lines, i)) \subseteq DOMAIN t
    BY <1>2, <2>1 DEF BuiltOf, path
  <2>5. ASSUME NEW p \in DOMAIN t \ {<<>>}
        PROVE  /\ t[p].status = 1 => \E i \in 1 .. k + 1 :
                    Path(lines, i) = p /\ LastOf(lines, k + 1, i) /\ t[p].tval = lines[i].id
               /\ \A i \in 1 .. k + 1 : Path(lines, i) = p => t[p].status = 1
    <3>1. CASE p = path
      <4>1. t[p].status = 1 /\ t[p].tval = lines[k + 1].id
        BY <2>1, <2>5, <3>1 DEF val
      <4>2. QED
        BY <1>2, <1>4, <3>1, <4>1 DEF path
    <3>2. CASE p # path /\ p \in DOMAIN tree
      <4>1. t[p] = tree[p]
        BY <2>1, <2>5, <3>2
      <4>2. /\ tree[p].status = 1 => \E i \in 1 .. k :
                Path(lines, i) = p /\ LastOf(lines, k, i) /\ tree[p].tval = lines[i].id
            /\ \A i \in 1 .. k : Path(lines, i) = p => tree[p].status = 1
        BY <2>5, <3>2 DEF BuiltOf
      <4>3. Path(lines, k + 1) # p
        BY <3>2 DEF path
      <4>4. QED
        BY <1>2, <1>3, <3>2, <4>1, <4>2, <4>3, Zenon
    <3>3. CASE p # path /\ p \notin DOMAIN tree
      <4>1. t[p].status = 0
        BY <2>1, <2>5, <3>3
      <4>2. ASSUME NEW i \in 1 .. k + 1 PROVE Path(lines, i) # p
        <5>1. CASE i = k + 1
          BY <3>3, <5>1 DEF path
        <5>2. CASE i \in 1 .. k
          <6>1. Path(lines, i) \in Prefixes(Path(lines, i))
            <7>1. lines[i] \in TitleLine
              BY <5>2
            <7>2. lines[i].title \in Seq(Byte)
              BY <7>1 DEF TitleLine
            <7>3. Path(lines, i) \in Seq(ChWord)
              BY <7>2, SplitMakesWords DEF Path
            <7>4. QED
              BY <7>3, PrefixesAre
          <6>2. QED
            BY <3>3, <5>2, <6>1 DEF BuiltOf
        <5>3. QED
          BY <1>2, <5>1, <5>2
      <4>3. QED
        BY <4>1, <4>2
    <3>4. QED
      BY <3>1, <3>2, <3>3
  <2>6. BuiltOf(lines, k + 1, t)
    BY <2>2, <2>3, <2>4, <2>5 DEF BuiltOf
  <2>7. QED
    BY <2>6 DEF t, path, val
<1>7. QED
  BY <1>5, <1>6

LEMMA BuildIs ==
    ASSUME NEW garbage, NEW lines \in Seq(TitleLine)
    PROVE  BuiltOf(lines, Len(lines), Build(garbage, lines))
<1> DEFINE n == Len(lines)
           S == Tries(garbage)
           step == [i \in 1 .. n |-> [t \in S |-> Insert(t, Path(lines, i), lines[i].id)]]
           Turn(f, i) == IF i = 0 THEN NewTrie(garbage)
                         ELSE Insert(f[i - 1], Path(lines, i), lines[i].id)
           built[i \in 0 .. n] == Turn(built, i)
<1>1. n \in Nat
  OBVIOUS
<1>2. step \in [1 .. n -> [S -> S]]
  <2>1. ASSUME NEW i \in 1 .. n, NEW t \in S PROVE Insert(t, Path(lines, i), lines[i].id) \in S
    <3>1. lines[i] \in TitleLine
      OBVIOUS
    <3>2. lines[i].title \in Seq(Byte) /\ lines[i].id \in Int
      BY <3>1 DEF TitleLine
    <3>3. Path(lines, i) \in Seq(ChWord)
      BY <3>2, SplitMakesWords DEF Path
    <3>4. QED
      BY <3>2, <3>3, InsertType
  <2> HIDE DEF S
  <2>2. QED
    BY <2>1
<1>3. /\ DOMAIN NewTrie(garbage) = {<<>>}
      /\ NewTrie(garbage) = [p \in {<<>>} |-> [status |-> garbage, tval |-> 0]]
  BY DEF NewTrie
<1>4. NewTrie(garbage) \in S
  <2>1. {<<>>} \in SUBSET Seq(ChWord)
    <3>1. <<>> \in Seq(ChWord)
      OBVIOUS
    <3>2. QED
      BY <3>1
  <2>2. NewTrie(garbage) \in [{<<>>} -> TrieNode(garbage)]
    BY <1>3 DEF TrieNode
  <2>3. QED
    BY <2>1, <2>2 DEF Tries
<1>5. PICK f \in [0 .. n -> S] : Loops(f, n, NewTrie(garbage), step)
  <2> HIDE DEF step, n, S
  <2>1. QED
    BY <1>1, <1>2, <1>4, Loop
<1>6. f = [i \in 0 .. n |-> Turn(f, i)]
  <2>1. f = [i \in 0 .. n |-> IF i = 0 THEN NewTrie(garbage) ELSE step[i][f[i - 1]]]
    BY <1>5 DEF Loops
  <2>2. ASSUME NEW i \in 0 .. n, i # 0
        PROVE  step[i][f[i - 1]] = Insert(f[i - 1], Path(lines, i), lines[i].id)
    <3>1. i \in 1 .. n /\ i - 1 \in 0 .. n
      BY <1>1, <2>2
    <3> HIDE DEF S
    <3>2. f[i - 1] \in S
      BY <3>1
    <3>3. QED
      BY <3>1, <3>2
  <2> HIDE DEF step
  <2>3. QED
    BY <2>1, <2>2
<1>7. built = [i \in 0 .. n |-> Turn(built, i)]
  BY <1>6
<1>8. Build(garbage, lines) = built[n]
  BY Zenon DEF Build, Path
<1> HIDE DEF built
<1> DEFINE T == {k \in Nat : k <= n => BuiltOf(lines, k, built[k])}
<1>9. 0 \in T
  <2>1. built[0] = NewTrie(garbage)
    BY <1>1, <1>7
  <2>2. IsFiniteSet({<<>>}) /\ {<<>>} \subseteq Seq(ChWord)
    <3>1. <<>> \in Seq(ChWord)
      OBVIOUS
    <3>2. QED
      BY <3>1, FS_Singleton
  <2>3. BuiltOf(lines, 0, NewTrie(garbage))
    BY <1>3, <2>2 DEF BuiltOf
  <2>4. QED
    BY <2>1, <2>3
<1>10. ASSUME NEW k \in Nat, k \in T PROVE k + 1 \in T
  <2> SUFFICES ASSUME k + 1 <= n PROVE BuiltOf(lines, k + 1, built[k + 1])
    OBVIOUS
  <2>1. k + 1 \in 0 .. n /\ k + 1 # 0 /\ k + 1 - 1 = k /\ k <= n
    BY <1>1
  <2>2. built[k + 1] = Insert(built[k], Path(lines, k + 1), lines[k + 1].id)
    BY <1>7, <2>1
  <2>3. BuiltOf(lines, k, built[k])
    BY <1>10, <2>1
  <2>4. QED
    BY <2>2, <2>3, BuiltNext
<1>11. n \in T
  <2> HIDE DEF T
  <2>1. QED
    BY <1>1, <1>9, <1>10, Induction
<1>12. QED
  BY <1>1, <1>8, <1>11

(* The lines whose titles begin with the words at, each path's last.       *)
Fitting(lines, at) ==
    {i \in 1 .. Len(lines) : LastOf(lines, Len(lines), i) /\ IsPrefix(at, Path(lines, i))}

(* The results of a search are these lines, in order.                      *)
Finds(lines, at, ret) ==
    LET n == Cardinality(Fitting(lines, at))
        ws(k) == SplitChWords(ret[k].title)
    IN  /\ n \in Nat /\ ret \in Seq(Range(ret)) /\ Len(ret) = n /\ DOMAIN ret = 1 .. n
        /\ \A k \in 1 .. n : \E i \in Fitting(lines, at) :
            ret[k].id = lines[i].id /\ ws(k) = Path(lines, i)
        /\ \A k, l \in 1 .. n : l = k + 1 => Before(ws(k), ws(l))

LEMMA SearchIs ==
    ASSUME NEW lines \in Seq(TitleLine), NEW tree, BuiltOf(lines, Len(lines), tree),
           NEW str \in Seq(Byte), Whole(str), SplitChWords(str) # <<>>
    PROVE  Finds(lines, SplitChWords(str), Search(tree, str))
<1> DEFINE at == SplitChWords(str)
           n == Len(lines)
           found == {p \in DOMAIN tree : IsPrefix(at, p) /\ tree[p].status = 1}
           Result(p) == [title |-> str \o FlattenSeq(SubSeq(p, Len(at) + 1, Len(p))),
                         id |-> tree[p].tval]
           ret == Search(tree, str)
           fitting == Fitting(lines, at)
<1>1. at \in Seq(ChWord) /\ at # <<>> /\ Len(at) \in Nat /\ Len(at) # 0
  <2>1. at \in Seq(ChWord)
    BY SplitMakesWords
  <2> HIDE DEF at
  <2>2. Len(at) \in Nat /\ (Len(at) = 0 => at = <<>>)
    BY <2>1
  <2>3. QED
    BY <2>1, <2>2 DEF at
<1>2. ASSUME NEW i \in 1 .. n PROVE Path(lines, i) \in Seq(ChWord)
  <2>1. lines[i] \in TitleLine
    OBVIOUS
  <2>2. lines[i].title \in Seq(Byte)
    BY <2>1 DEF TitleLine
  <2>3. QED
    BY <2>2, SplitMakesWords DEF Path
<1>3. ret = IF at \notin DOMAIN tree THEN <<>>
            ELSE [i \in 1 .. Cardinality(found) |-> Result(Nth(found, i))]
  BY Zenon DEF Search
<1>4. n \in Nat
  OBVIOUS
<1> HIDE DEF ret, at, n
<1>5. \A i \in fitting :
        /\ i \in 1 .. n /\ LastOf(lines, n, i) /\ IsPrefix(at, Path(lines, i))
        /\ Path(lines, i) \in DOMAIN tree /\ at \in DOMAIN tree /\ Path(lines, i) # <<>>
  <2> SUFFICES ASSUME NEW i \in fitting
               PROVE  /\ i \in 1 .. n /\ LastOf(lines, n, i) /\ IsPrefix(at, Path(lines, i))
                      /\ Path(lines, i) \in DOMAIN tree /\ at \in DOMAIN tree
                      /\ Path(lines, i) # <<>>
    OBVIOUS
  <2>1. i \in 1 .. n /\ LastOf(lines, n, i) /\ IsPrefix(at, Path(lines, i))
    BY DEF Fitting, n
  <2>2. Path(lines, i) \in Prefixes(Path(lines, i)) /\ at \in Prefixes(Path(lines, i))
    BY <1>1, <1>2, <2>1, PrefixesAre
  <2>3. Prefixes(Path(lines, i)) \subseteq DOMAIN tree
    BY <2>1 DEF BuiltOf, n
  <2>4. Path(lines, i) # <<>>
    <3>1. Len(at) <= Len(Path(lines, i))
      BY <2>1 DEF IsPrefix
    <3>2. Len(<<>>) = 0
      OBVIOUS
    <3>3. QED
      BY <1>1, <3>1, <3>2
  <2>5. QED
    BY <2>1, <2>2, <2>3, <2>4
<1>6. IsFiniteSet(fitting) /\ Cardinality(fitting) \in Nat
  <2>1. IsFiniteSet(1 .. n)
    BY <1>4, FS_Interval
  <2>2. fitting \in SUBSET (1 .. n)
    BY <1>5
  <2>3. QED
    BY <2>1, <2>2, FS_Subset, FS_CardinalityType
<1>7. CASE at \notin DOMAIN tree
  <2>1. fitting = {}
    BY <1>5, <1>7
  <2>2. Cardinality(fitting) = 0
    BY <2>1, FS_EmptySet
  <2>3. ret = <<>> /\ ret \in Seq(Range(ret))
    BY <1>3, <1>7
  <2>4. QED
    BY <2>2, <2>3 DEF Finds, ret, at
<1>8. CASE at \in DOMAIN tree
  <2> DEFINE f == [i \in fitting |-> Path(lines, i)]
  <2>1. ASSUME NEW i \in fitting PROVE Path(lines, i) \in found
    <3>1. tree[Path(lines, i)].status = 1
      BY <1>5 DEF BuiltOf, n
    <3>2. QED
      BY <1>5, <3>1
  <2>2. ASSUME NEW p \in found
        PROVE  /\ p \in Seq(ChWord) /\ p # <<>> /\ IsPrefix(at, p)
               /\ \E i \in fitting : Path(lines, i) = p /\ tree[p].tval = lines[i].id
    <3>1. p \in Seq(ChWord)
      BY DEF BuiltOf
    <3>2. p # <<>>
      <4>1. Len(at) <= Len(p)
        BY DEF IsPrefix
      <4>2. Len(<<>>) = 0
        OBVIOUS
      <4>3. QED
        BY <1>1, <4>1, <4>2
    <3>3. PICK i \in 1 .. n :
             Path(lines, i) = p /\ LastOf(lines, n, i) /\ tree[p].tval = lines[i].id
      BY <3>2 DEF BuiltOf, n
    <3>4. i \in fitting
      BY <3>3 DEF Fitting, n
    <3>5. QED
      BY <3>1, <3>2, <3>3, <3>4
  <2>3. ASSUME NEW i \in fitting, NEW j \in fitting, Path(lines, i) = Path(lines, j) PROVE i = j
    <3>1. i <= j /\ j <= i
      BY <1>5, <2>3 DEF LastOf
    <3>2. i \in Int /\ j \in Int
      BY <1>5
    <3>3. QED
      BY <3>1, <3>2
  <2>4. f \in Bijection(fitting, found)
    <3> HIDE DEF fitting, found
    <3>1. f \in [fitting -> found]
      BY <2>1
    <3>2. f \in Injection(fitting, found)
      BY <2>3, <3>1 DEF Injection, IsInjective
    <3>3. f \in Surjection(fitting, found)
      BY <2>2, <3>1 DEF Surjection
    <3>4. QED
      BY <3>2, <3>3 DEF Bijection
  <2>5. IsFiniteSet(found) /\ Cardinality(found) = Cardinality(fitting)
    <3> HIDE DEF f, fitting, found
    <3>1. ExistsBijection(fitting, found)
      BY <2>4 DEF ExistsBijection
    <3>2. QED
      BY <1>6, <3>1, FS_Bijection
  <2>6. ASSUME NEW p \in found
        PROVE  Result(p).id = tree[p].tval /\ SplitChWords(Result(p).title) = p
    <3> DEFINE rest == SubSeq(p, Len(at) + 1, Len(p))
    <3>1. rest \in Seq(ChWord) /\ at \o rest = p
      BY <1>1, <2>2, PrefixesAre
    <3> HIDE DEF rest
    <3>2. SplitChWords(str \o FlattenSeq(rest)) = at \o rest
      BY <3>1, SplitExtended DEF at
    <3>3. QED
      BY <3>1, <3>2 DEF rest
  <2> DEFINE m == Cardinality(fitting)
  <2>7. ret = [i \in 1 .. m |-> Result(Nth(found, i))]
    BY <1>3, <1>8, <2>5
  <2>8. found \subseteq Seq(ChWord)
    BY <2>2
  <2> HIDE DEF found, Result, m, fitting
  <2>9. m \in Nat
    BY <1>6 DEF m
  <2>10. DOMAIN ret = 1 .. m /\ Len(ret) = m /\ ret \in Seq(Range(ret))
    BY <2>7, <2>9 DEF Range
  <2>11. ASSUME NEW k \in 1 .. m
         PROVE  /\ Nth(found, k) \in found
                /\ ret[k].id = tree[Nth(found, k)].tval
                /\ SplitChWords(ret[k].title) = Nth(found, k)
    <3>1. Nth(found, k) \in found
      BY <2>5, <2>8, NthIs DEF m
    <3>2. ret[k] = Result(Nth(found, k))
      BY <2>7
    <3>3. QED
      BY <2>6, <3>1, <3>2
  <2>12. ASSUME NEW k \in 1 .. m
         PROVE  \E i \in fitting :
                    ret[k].id = lines[i].id /\ SplitChWords(ret[k].title) = Path(lines, i)
    BY <2>2, <2>11
  <2>13. ASSUME NEW k \in 1 .. m, NEW l \in 1 .. m, l = k + 1
         PROVE  Before(SplitChWords(ret[k].title), SplitChWords(ret[l].title))
    <3>1. Before(Nth(found, k), Nth(found, l))
      BY <2>5, <2>8, <2>13, NthAscends DEF m
    <3>2. QED
      BY <2>11, <3>1
  <2>14. QED
    BY <2>9, <2>10, <2>12, <2>13 DEF Finds, ret, at, m, fitting
<1>9. QED
  BY <1>7, <1>8

-----------------------------------------------------------------------------
(* The suggestions in a reply.                                             *)
(* No more results than the reply has room for.                            *)
Cut(ret) == SubSeq(ret, 1, IF Len(ret) < MaxSuggestCnt THEN Len(ret) ELSE MaxSuggestCnt)

(* What w has put there for its query.                                     *)
Suggested(w) ==
    "suggest" \in DOMAIN root[w] => root[w]["suggest"] = Cut(Search(trie, Query(w)))

SuggestInv ==
    /\ trie = Build(RootStatus, Configured("suggest_file"))
    /\ \A w \in Workers : Suggested(w)

LEMMA SuggestInit == Init => SuggestInv
BY DEF Init, SuggestInv, Suggested, Null

(* A step that neither suggests nor takes up a request.                    *)
LEMMA SuggestedKept ==
    ASSUME NEW w \in Workers, Suggested(w), SameRequest(w),
           "suggest" \in DOMAIN root'[w] =>
                "suggest" \in DOMAIN root[w] /\ root'[w]["suggest"] = root[w]["suggest"]
    PROVE  Suggested(w)'
<1>1. trie' = trie /\ Query(w)' = Query(w)
  BY SameRequestKeeps DEF SameRequest, startUpVars
<1>2. QED
  BY <1>1 DEF Suggested

LEMMA PutKeepsSuggest ==
    ASSUME NEW obj, NEW m \in {"text", "seg", "rewrite", "search"}, NEW val
    PROVE  LET put == Put(obj, m, val)
           IN  "suggest" \in DOMAIN put =>
                "suggest" \in DOMAIN obj /\ put["suggest"] = obj["suggest"]
BY DEF Put

LEMMA SuggestStep ==
    ASSUME TextOnce
    PROVE  ReqInv /\ SuggestInv /\ [Next]_vars => SuggestInv'
<1> SUFFICES ASSUME ReqInv, SuggestInv, [Next]_vars PROVE SuggestInv'
  OBVIOUS
<1>1. UNCHANGED startUpVars
  BY DEF Next, Serve, TakeRequest, TextBegin, TextSegment, TextEnd, Rewrite, SearchRun, Suggest,
         Reply, vars
<1>2. trie' = Build(RootStatus, Configured("suggest_file"))'
  BY <1>1 DEF SuggestInv, Configured, Files, startUpVars
<1>3. ASSUME NEW w \in Workers, TakeRequest(w) \/ Serve(w), NEW v \in Workers \ {w}
      PROVE  root'[v] = root[v] /\ SameRequest(v)
  <2>1. /\ root' = root \/ \E x : root' = [root EXCEPT ![w] = x]
        /\ sent' = sent \/ \E x : sent' = [sent EXCEPT ![w] = x]
        /\ request' = request \/ \E x : request' = [request EXCEPT ![w] = x]
    BY <1>3 DEF Serve, TakeRequest, TextBegin, TextSegment, TextEnd, Rewrite, SearchRun, Suggest,
           Reply, Advance
  <2>2. QED
    BY <1>1, <2>1 DEF SameRequest, ReqInv
<1>4. ASSUME NEW w \in Workers, TakeRequest(w) \/ Serve(w) PROVE Suggested(w)'
  <2>1. CASE TakeRequest(w)
    <3>1. root'[w] = Null
      BY <2>1 DEF TakeRequest, ReqInv, WorkerInv
    <3>2. QED
      BY <3>1 DEF Suggested, Null
  <2>2. CASE Reply(w)
    <3>1. root'[w] = Null
      BY <2>2 DEF Reply, ReqInv
    <3>2. QED
      BY <3>1 DEF Suggested, Null
  <2>3. CASE Suggest(w)
    <3>1. SameRequest(w)
      BY <1>1, <2>3 DEF SameRequest, Suggest
    <3>2. trie' = trie /\ Query(w)' = Query(w)
      BY <3>1, SameRequestKeeps DEF SameRequest, startUpVars
    <3>3. root'[w] = Put(root[w], "suggest", Cut(Search(trie, Query(w))))
      BY <2>3, Zenon DEF Suggest, Advance, ReqInv, Cut, Query
    <3>4. root'[w]["suggest"] = Cut(Search(trie, Query(w)))
      BY <3>3 DEF Put
    <3>5. QED
      BY <3>2, <3>4 DEF Suggested
  <2>4. CASE TextBegin(w) \/ TextSegment(w) \/ TextEnd(w) \/ Rewrite(w) \/ SearchRun(w)
    <3>1. SameRequest(w)
      BY <1>1, <2>4 DEF SameRequest, TextBegin, TextSegment, TextEnd, Rewrite, SearchRun
    <3>2. \/ root'[w] = root[w]
          \/ \E m \in {"text", "seg", "rewrite"} : \E val : root'[w] = Put(root[w], m, val)
          \/ \E x, y : root'[w] = Put(Put(root[w], "seg", x), "search", y)
      BY <2>4 DEF ReqInv, TextBegin, TextSegment, TextEnd, Rewrite, SearchRun, Advance
    <3>3. "suggest" \in DOMAIN root'[w] =>
                "suggest" \in DOMAIN root[w] /\ root'[w]["suggest"] = root[w]["suggest"]
      BY <3>2, PutKeepsSuggest
    <3>4. QED
      BY <3>1, <3>3, SuggestedKept DEF SuggestInv
  <2>5. QED
    BY <1>4, <2>1, <2>2, <2>3, <2>4 DEF Serve
<1>5. ASSUME NEW w \in Workers PROVE Suggested(w)'
  <2>1. CASE UNCHANGED vars
    BY <1>1, <2>1, SuggestedKept DEF SuggestInv, SameRequest, vars
  <2>2. ASSUME NEW v \in Workers, TakeRequest(v) \/ Serve(v) PROVE Suggested(w)'
    BY <1>3, <1>4, <2>2, SuggestedKept DEF SuggestInv
  <2>3. QED
    BY <2>1, <2>2 DEF Next
<1>6. QED
  BY <1>2, <1>5 DEF SuggestInv

LEMMA SuggestionsLoaded ==
    ASSUME SuggestionsNamed, confs \in Confs, conf_dict = ReadSubConf(confs.sub)
    PROVE  Configured("suggest_file") \in {<<>>, suggest_file}
<1>1. confs.sub \in Seq(Seq(STRING))
  BY RequestsAssumption
<1>2. GetConfVal(conf_dict, "suggest_file") \notin {<<"index.dict">>, <<"doc_length.dict">>}
  BY <1>1, KeysAsWritten DEF DictionaryKeys, SuggestionsNamed
<1>3. QED
  BY <1>2 DEF Configured, Files, LoadDict

(* An empty file makes a trie of a root, and no other does.                *)
LEMMA Loaded ==
    ASSUME NEW lines \in Seq(TitleLine), NEW tree, BuiltOf(lines, Len(lines), tree)
    PROVE  /\ ~ (Cardinality(DOMAIN tree) > 1) => DOMAIN tree = {<<>>}
           /\ lines = <<>> => ~ (Cardinality(DOMAIN tree) > 1)
<1>1. IsFiniteSet(DOMAIN tree) /\ <<>> \in DOMAIN tree
  BY DEF BuiltOf
<1>2. Cardinality({<<>>}) = 1
  BY FS_Singleton
<1>3. ASSUME ~ (Cardinality(DOMAIN tree) > 1) PROVE DOMAIN tree = {<<>>}
  <2>1. {<<>>} \subseteq DOMAIN tree
    BY <1>1
  <2>2. Cardinality(DOMAIN tree) \in Nat
    BY <1>1, FS_CardinalityType
  <2>3. Cardinality({<<>>}) <= Cardinality(DOMAIN tree)
        /\ (Cardinality({<<>>}) = Cardinality(DOMAIN tree) => {<<>>} = DOMAIN tree)
    BY <1>1, <2>1, FS_Subset
  <2>4. QED
    BY <1>2, <1>3, <2>2, <2>3
<1>4. ASSUME lines = <<>> PROVE ~ (Cardinality(DOMAIN tree) > 1)
  <2>1. 1 .. Len(lines) = {}
    BY <1>4
  <2>2. \A p \in DOMAIN tree \ {<<>>} : \E i \in 1 .. Len(lines) : p \in Prefixes(Path(lines, i))
    BY DEF BuiltOf
  <2>3. DOMAIN tree = {<<>>}
    BY <1>1, <2>1, <2>2
  <2>4. QED
    BY <1>2, <2>3
<1>5. QED
  BY <1>3, <1>4

LEMMA NothingFits ==
    ASSUME NEW lines \in Seq(TitleLine), NEW tree, BuiltOf(lines, Len(lines), tree),
           DOMAIN tree = {<<>>}, NEW at \in Seq(ChWord), at # <<>>
    PROVE  Fitting(lines, at) = {}
<1> SUFFICES ASSUME NEW i \in 1 .. Len(lines), IsPrefix(at, Path(lines, i)) PROVE FALSE
  BY DEF Fitting
<1>1. lines[i] \in TitleLine
  OBVIOUS
<1>2. Path(lines, i) \in Seq(ChWord)
  BY <1>1, SplitMakesWords DEF Path, TitleLine
<1>3. at \in Prefixes(Path(lines, i))
  BY <1>2, PrefixesAre
<1>4. Prefixes(Path(lines, i)) \subseteq DOMAIN tree
  BY DEF BuiltOf
<1>5. QED
  BY <1>3, <1>4

(* The first of the results are results, in the same order.                *)
Offers(lines, at, reply) ==
    LET n == Cardinality(Fitting(lines, at))
        ws(k) == SplitChWords(reply[k].title)
    IN  /\ Len(reply) \in Nat /\ DOMAIN reply = 1 .. Len(reply)
        /\ Len(reply) <= MaxSuggestCnt
        /\ Len(reply) = MaxSuggestCnt \/ Len(reply) = n
        /\ \A k \in 1 .. Len(reply) : \E i \in Fitting(lines, at) :
            reply[k].id = lines[i].id /\ ws(k) = Path(lines, i)
        /\ \A k, l \in 1 .. Len(reply) : l = k + 1 => Before(ws(k), ws(l))

LEMMA CutShows ==
    ASSUME NEW lines, NEW at, NEW ret, Finds(lines, at, ret)
    PROVE  Offers(lines, at, Cut(ret))
<1> DEFINE n == Cardinality(Fitting(lines, at))
           m == IF n < MaxSuggestCnt THEN n ELSE MaxSuggestCnt
           reply == Cut(ret)
<1>1. n \in Nat /\ Len(ret) = n /\ DOMAIN ret = 1 .. n /\ MaxSuggestCnt \in Nat
  BY RequestsAssumption DEF Finds
<1>2. reply = SubSeq(ret, 1, m)
  BY <1>1 DEF Cut
<1> HIDE DEF n, reply
<1>3. m \in Nat /\ m <= n /\ m <= MaxSuggestCnt /\ (m = MaxSuggestCnt \/ m = n)
  BY <1>1
<1> HIDE DEF m
<1>4. reply = [k \in 1 .. m |-> ret[k]]
  <2>1. ret \in Seq(Range(ret)) /\ m <= Len(ret)
    BY <1>1, <1>3 DEF Finds
  <2>2. SubSeq(ret, 1, m) = [k \in 1 .. m |-> ret[k]]
    BY <1>3, <2>1
  <2>3. QED
    BY <1>2, <2>2
<1>5. DOMAIN reply = 1 .. m /\ Len(reply) = m /\ \A k \in 1 .. m : reply[k] = ret[k] /\ k \in 1 .. n
  BY <1>1, <1>3, <1>4
<1>6. ASSUME NEW k \in 1 .. m
      PROVE  \E i \in Fitting(lines, at) :
                reply[k].id = lines[i].id /\ SplitChWords(reply[k].title) = Path(lines, i)
  <2>1. reply[k] = ret[k] /\ k \in 1 .. n
    BY <1>5
  <2>2. \E i \in Fitting(lines, at) :
            ret[k].id = lines[i].id /\ SplitChWords(ret[k].title) = Path(lines, i)
    BY <2>1 DEF Finds, n
  <2>3. QED
    BY <2>1, <2>2
<1>7. ASSUME NEW k \in 1 .. m, NEW l \in 1 .. m, l = k + 1
      PROVE  Before(SplitChWords(reply[k].title), SplitChWords(reply[l].title))
  <2>1. reply[k] = ret[k] /\ k \in 1 .. n /\ reply[l] = ret[l] /\ l \in 1 .. n
    BY <1>5
  <2>2. Before(SplitChWords(ret[k].title), SplitChWords(ret[l].title))
    BY <1>7, <2>1 DEF Finds, n
  <2>3. QED
    BY <2>1, <2>2
<1>8. QED
  BY <1>3, <1>5, <1>6, <1>7 DEF Offers, n, reply

(* The suggestions for a query that is not empty: the titles of the file   *)
(* that begin with it (spaces apart), each with the number of its last     *)
(* line, in the order of their bytes (trie.h 40-96, suggest_strategy.cpp). *)
THEOREM SuggestionsMatchCorrect ==
    ASSUME TextOnce, SuggestionsNamed, QueriesWhole
    PROVE  Spec => []SuggestionsMatch
<1>1. ReqInv /\ SuggestInv => SuggestionsMatch
  <2> SUFFICES ASSUME ReqInv, SuggestInv, NEW w \in Workers, Replying(w),
                      "suggest" \in DOMAIN root[w], SplitChWords(sent[w].q) # <<>>
               PROVE  LET ws(s)   == SplitChWords(s)
                          at      == ws(sent[w].q)
                          loaded  == IF Cardinality(DOMAIN trie) > 1 THEN DOMAIN suggest_file
                                     ELSE {}
                          IsLast(i) == \A j \in loaded :
                            ws(suggest_file[j].title) = ws(suggest_file[i].title) => j <= i
                          fitting == {i \in loaded :
                            IsLast(i) /\ IsPrefix(at, ws(suggest_file[i].title))}
                          reply   == root[w]["suggest"]
                      IN  /\ Len(reply) <= MaxSuggestCnt
                          /\ Len(reply) = MaxSuggestCnt \/ Len(reply) = Cardinality(fitting)
                          /\ \A k \in DOMAIN reply : \E i \in fitting :
                              /\ reply[k].id = suggest_file[i].id
                              /\ ws(reply[k].title) = ws(suggest_file[i].title)
                          /\ \A k \in 1 .. Len(reply) - 1 :
                              Before(ws(reply[k].title), ws(reply[k + 1].title))
    BY DEF SuggestionsMatch
  <2> DEFINE at == SplitChWords(sent[w].q)
             loaded == IF Cardinality(DOMAIN trie) > 1 THEN DOMAIN suggest_file ELSE {}
             fitting == {i \in loaded :
                (\A j \in loaded :
                    SplitChWords(suggest_file[j].title) = SplitChWords(suggest_file[i].title)
                        => j <= i)
                /\ IsPrefix(at, SplitChWords(suggest_file[i].title))}
             reply == root[w]["suggest"]
             lines == Configured("suggest_file")
  <2>1. InLoop(w)
    BY DEF ReqInv, WorkerInv, Replying
  <2>2. Query(w) = sent[w].q /\ sent[w].q \in Queries
    BY <2>1, ServedAsMeant DEF InLoop, Meant
  <2>3. sent[w].q \in Seq(Byte) /\ Whole(sent[w].q)
    BY <2>2, RequestsAssumption DEF Byte, QueriesWhole, Whole, Lead
  <2>4. suggest_file \in Seq(TitleLine)
    BY RequestsAssumption DEF ReqInv, StartedUp, TitleLine, Byte
  <2>5. lines \in {<<>>, suggest_file}
    BY SuggestionsLoaded DEF ReqInv, StartedUp
  <2> HIDE DEF lines
  <2>6. lines \in Seq(TitleLine)
    <3>1. <<>> \in Seq(TitleLine)
      OBVIOUS
    <3>2. QED
      BY <2>4, <2>5, <3>1
  <2>7. BuiltOf(lines, Len(lines), trie)
    BY <2>6, BuildIs DEF SuggestInv, lines
  <2>8. reply = Cut(Search(trie, sent[w].q))
    BY <2>2 DEF SuggestInv, Suggested
  <2>9. at \in Seq(ChWord) /\ at # <<>>
    BY <2>3, SplitMakesWords
  <2>10. Finds(lines, at, Search(trie, sent[w].q))
    BY <2>3, <2>6, <2>7, <2>9, SearchIs
  <2>11. Offers(lines, at, reply)
    BY <2>8, <2>10, CutShows
  <2>12. Fitting(lines, at) = fitting /\ \A i \in fitting : lines = suggest_file
    <3>1. CASE Cardinality(DOMAIN trie) > 1
      <4>1. lines = suggest_file
        BY <2>5, <2>6, <2>7, <3>1, Loaded
      <4>2. DOMAIN suggest_file = 1 .. Len(suggest_file) /\ loaded = DOMAIN suggest_file
        BY <2>4, <3>1
      <4>3. QED
        BY <4>1, <4>2 DEF Fitting, LastOf, Path
    <3>2. CASE ~ (Cardinality(DOMAIN trie) > 1)
      <4>1. DOMAIN trie = {<<>>}
        BY <2>6, <2>7, <3>2, Loaded
      <4>2. Fitting(lines, at) = {}
        BY <2>6, <2>7, <2>9, <4>1, NothingFits
      <4>3. fitting = {}
        BY <3>2
      <4>4. QED
        BY <4>2, <4>3
    <3>3. QED
      BY <3>1, <3>2
  <2> HIDE DEF at, loaded, fitting, reply
  <2>13. /\ Len(reply) \in Nat /\ DOMAIN reply = 1 .. Len(reply) /\ Len(reply) <= MaxSuggestCnt
         /\ Len(reply) = MaxSuggestCnt \/ Len(reply) = Cardinality(fitting)
    BY <2>11, <2>12 DEF Offers
  <2>14. ASSUME NEW k \in DOMAIN reply
         PROVE  \E i \in fitting : /\ reply[k].id = suggest_file[i].id
                    /\ SplitChWords(reply[k].title) = SplitChWords(suggest_file[i].title)
    <3>1. PICK i \in fitting :
             reply[k].id = lines[i].id /\ SplitChWords(reply[k].title) = Path(lines, i)
      BY <2>11, <2>12, <2>13 DEF Offers
    <3>2. lines = suggest_file
      BY <2>12
    <3>3. QED
      BY <3>1, <3>2 DEF Path
  <2>15. ASSUME NEW k \in 1 .. Len(reply) - 1
         PROVE  Before(SplitChWords(reply[k].title), SplitChWords(reply[k + 1].title))
    <3>1. k \in 1 .. Len(reply) /\ k + 1 \in 1 .. Len(reply)
      BY <2>13
    <3>2. \A i, l \in 1 .. Len(reply) : l = i + 1 =>
            Before(SplitChWords(reply[i].title), SplitChWords(reply[l].title))
      BY <2>11, Zenon DEF Offers
    <3>3. QED
      BY <3>1, <3>2
  <2>16. QED
    BY <2>13, <2>14, <2>15 DEF at, loaded, fitting, reply
<1>2. Init => ReqInv /\ SuggestInv
  BY ReqInit, SuggestInit
<1>3. ReqInv /\ SuggestInv /\ [Next]_vars => (ReqInv /\ SuggestInv)'
  BY ReqStep, SuggestStep
<1>4. QED
  BY <1>1, <1>2, <1>3, PTL DEF Spec
=============================================================================
