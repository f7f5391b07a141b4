----------------------------- MODULE HttpParser -----------------------------
(***************************************************************************)
(* HttpParser and Request (http/http_parse.cpp, http/http_parse.h): what a *)
(* worker makes of the bytes that one read has found.                      *)
(*                                                                         *)
(* A buffer is a sequence of tokens: the separators the parser looks for,  *)
(* and words, which are runs of other characters.  In memory a NUL follows *)
(* it, which the parser does not look for, and then anything.              *)
(***************************************************************************)
EXTENDS StringUtil

CONSTANTS
    Upper,      \* words of the letters A to Z
    Word,       \* all words
    Text(_)     \* the characters of a token: a sequence of their codes

Separators == {" ", "?", "&", "=", ":", "CR", "LF"}

ASSUME ParserAssumption ==
    /\ Upper \subseteq Word
    /\ Word \cap Separators = {}

Percent == 37   \* '%'
Zero    == 48   \* '0'

-----------------------------------------------------------------------------
(* hexChar2dec and dec2hexChar: -1 for what is not a hexadecimal digit.    *)
HexChar2Dec(c) ==
    CASE c \in 48 .. 57  -> c - 48
      [] c \in 65 .. 70  -> c - 55
      [] c \in 97 .. 102 -> c - 87
      [] OTHER           -> -1

Dec2HexChar(n) == IF n <= 9 THEN n + 48 ELSE n + 55

(* encode: digits, letters, '/' and '.' stay, any other byte becomes '%'   *)
(* and two digits.                                                         *)
EncodeByte(b) ==
    IF b \in 48 .. 57 \cup 65 .. 90 \cup 97 .. 122 \cup {46, 47}
    THEN <<b>>
    ELSE <<Percent, Dec2HexChar(b \div 16), Dec2HexChar(b % 16)>>

Encode(s) == FlattenSeq([i \in DOMAIN s |-> EncodeByte(s[i])])

(* decode: the two characters behind a '%' are taken for digits whatever   *)
(* they are.  Behind the end of the string there is a NUL.                 *)
Decode(s) ==
    LET At(i) == IF i <= Len(s) THEN s[i] ELSE 0
        from[i \in 1 .. Len(s) + 3] ==
            IF i > Len(s) THEN <<>>
            ELSE IF s[i] # Percent THEN <<s[i]>> \o from[i + 1]
            ELSE <<(HexChar2Dec(At(i + 1)) * 16 + HexChar2Dec(At(i + 2))) % 256>>
                    \o from[i + 3]
    IN  from[1]

-----------------------------------------------------------------------------
(* The position of the first d in s at or after i, Len(s) + 1 if there is  *)
(* none.                                                                   *)
Find(s, d, i) ==
    LET at == SelectInSubSeq(s, i, Len(s), LAMBDA t : t = d)
    IN  IF at = 0 THEN Len(s) + 1 ELSE at

(* The characters of a sequence of tokens.                                 *)
TextOf(tokens) == FlattenSeq([i \in DOMAIN tokens |-> Text(tokens[i])])

(* Request::Request: params maps names to decoded values.                  *)
NewRequest ==
    [method |-> <<>>, url |-> <<>>, version |-> <<>>,
     params |-> [name \in {<<"q">>, <<"p">>} |-> IF name = <<"q">> THEN <<>> ELSE <<Zero + 1>>]]

(* The parameters: only parts with one '=' count, the last one of a name.  *)
AddParam(params, part) ==
    LET kv == Split(part, "=")
    IN  IF Len(kv) # 2 THEN params ELSE Put(params, kv[1], Decode(TextOf(kv[2])))

Params(before, query) ==
    LET parts == Split(query, "&")
        params[i \in 0 .. Len(parts)] ==
            IF i = 0 THEN before ELSE AddParam(params[i - 1], parts[i])
    IN  params[Len(parts)]

(* _parse_desc: the first line.  The method ends at the first space and    *)
(* the url at the second; without a second space the whole rest is the     *)
(* url, '?' included.  The version is taken at an offset that counts the   *)
(* url without its parameters.  end is where the headers begin, 0 for      *)
(* HTTP_PARSE_FAIL.                                                        *)
ParseDesc(buf, request) ==
    LET cr     == Find(buf, "CR", 1)
        line   == SubSeq(buf, 1, cr - 1)
        s1     == Find(line, " ", 1)
        s2     == Find(line, " ", s1 + 1)
        method == SubSeq(line, 1, s1 - 1)
        target == SubSeq(line, s1 + 1, s2 - 1)
        parts  == Split(target, "?")
        url    == IF s2 < cr THEN parts[1] ELSE target
        rest   == SelectSeq(SubSeq(line, s2 + 1, cr - 1), LAMBDA t : t # " ")
        count  == IF s1 < cr THEN Len(rest) ELSE Len(method)
        from   == IF s1 < cr THEN Len(method) + Len(url) + 2 ELSE 2
        to     == IF from + count > Len(buf) THEN Len(buf) ELSE from + count
        version == IF count = 0 THEN <<"HTTP/1.1">> ELSE SubSeq(buf, from + 1, to)
        params == IF s2 < cr /\ Len(parts) > 1
                  THEN Params(request.params, parts[2]) ELSE request.params
    IN  IF \/ \E i \in DOMAIN method : method[i] \notin Upper
           \/ s1 > Len(buf)         \* the NUL is no letter
        THEN [end |-> 0, request |-> request]
        ELSE IF s1 < cr /\ target = <<>> /\ s2 <= Len(buf)
        THEN [end |-> 0, request |-> [request EXCEPT !.method = method]]
        ELSE [end |-> IF cr <= Len(buf) THEN cr + 2 ELSE Len(buf) + 2,
              request |-> [method  |-> IF s1 < cr THEN method ELSE <<>>,
                           url     |-> IF s1 < cr THEN url ELSE <<>>,
                           version |-> version, params |-> params]]

(* _parse_headers: a name runs to the next ':', whatever lies between, its *)
(* value to the next CR; CR LF ends the headers.  Nobody reads them: what  *)
(* matters is whether they end in the data.                                *)
AfterCR_One == 1    \* mutant: LF is not skipped
AfterCR == 2

HeadersEnd(buf, start) ==
    LET end[i \in start .. Len(buf) + 2] ==
            LET colon == Find(buf, ":", i)
                cr    == Find(buf, "CR", colon + 1)
            IN  \/ i < Len(buf) /\ buf[i] = "CR" /\ buf[i + 1] = "LF"
                \/ cr <= Len(buf) /\ end[cr + AfterCR]
    IN  end[start]

(* _parse.  beyond: the parser has left the data, where it may find        *)
(* anything or fault.                                                      *)
Parse(buf) ==
    LET desc == ParseDesc(buf, NewRequest)
    IN  [beyond |-> desc.end # 0 /\ ~HeadersEnd(buf, desc.end),
         request |-> desc.request]

(* atoi: an optional sign and digits.                                      *)
Atoi(s) ==
    LET first  == IF s # <<>> /\ s[1] \in {43, 45} THEN 2 ELSE 1
        stop   == SelectInSubSeq(s, first, Len(s), LAMBDA c : c \notin 48 .. 57)
        digits == SubSeq(s, first, IF stop = 0 THEN Len(s) ELSE stop - 1)
        number[i \in 0 .. Len(digits)] ==
            IF i = 0 THEN 0 ELSE 10 * number[i - 1] + (digits[i] - Zero)
    IN  IF s # <<>> /\ s[1] = 45 THEN -number[Len(digits)] ELSE number[Len(digits)]

(* Request::get_query and Request::get_page.                               *)
GetQuery(request) == request.params[<<"q">>]
GetPage(request) == Atoi(request.params[<<"p">>])
=============================================================================
