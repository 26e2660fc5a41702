------------------------------- MODULE Request -------------------------------
(***************************************************************************)
(* What handle_client (code/coragem.c) makes of the bytes that have come   *)
(* from a client when its event is handled: a list of header lines, the    *)
(* first of which is taken for the request line, and the page to send.     *)
(*                                                                         *)
(* How much of its request a client has got through by then is for the     *)
(* network to decide: any beginning of it.  EventLoop has the reading and  *)
(* the answer, and takes what is asked for as a constant (Meaning); here   *)
(* it is computed.  The list of headers is HashList with enough memory: it *)
(* keeps the first value of a key, and the order.                          *)
(***************************************************************************)
EXTENDS Lines

CONSTANTS
  Requests,           \* the requests tried
  Colon, Space, Star, \* three of the signs
  Get,                \* the one word of METHODS_IMPLEMENTED
  Slash,              \* the path that stands for the page Index
  Index,
  RequestKey,         \* "Request"
  Types               \* the words that FILE_TYPES looks for, in its order

Readings == {"nothing", "noMethod", "noPath", "page"}

ASSUME RequestAssumption ==
  /\ Requests \subseteq Seq(Signs) /\ Unset \notin Seq(Signs) \cup Readings
  /\ Space # Colon /\ Get \notin {Space, Colon}
  /\ Slash \in Signs /\ Index \in Seq(Signs) \ {<<>>, <<Slash>>}

VARIABLES
  sent,    \* the request of the client
  headers, \* http_header: records of a key and its value
  answer   \* what the request comes to

\* text is what has come of it, client_data; pc is "split", "answer" or
\* "done".

requestVars == <<sent, text, pc, rest, end, headers, answer>>

NoAnswer     == [reading |-> Unset, path |-> Unset, type |-> Unset]
Reading(r)   == [reading |-> r, path |-> Unset, type |-> Unset]
Page(p, t)   == [reading |-> "page", path |-> p, type |-> t]

\* No key is in the list twice, and a page that is asked for has a name.
RequestTypeOK ==
  /\ pc \in {"split", "answer", "done"}
  /\ rest \in 1 .. Len(text) + 1 /\ end \in {LF, CR, Unset}
  /\ \A i, j \in DOMAIN headers : headers[i].key = headers[j].key => i = j
  /\ pc # "split" => headers # <<>>
  /\ pc = "done" <=> answer # NoAnswer
  /\ pc = "done" => answer.reading \in Readings /\ answer.path \notin {<<>>, <<Slash>>}

\* Whatever has come of the request: nothing, too.
RequestInit ==
  /\ sent \in Requests
  /\ \E n \in 0 .. Len(sent) : text = SubSeq(sent, 1, n)
  /\ pc = "split" /\ rest = 1 /\ end = CR /\ headers = <<>> /\ answer = NoAnswer
-----------------------------------------------------------------------------
(* Strings: code/str.h.                                                    *)

At(s, sign) == {i \in 1 .. Len(s) : s[i] = sign}

\* str_trim
Trim(s) ==
  LET kept == 1 .. Len(s) \ At(s, Space)
  IN IF kept = {} THEN <<>>
     ELSE SubSeq(s, LowestOf(kept), CHOOSE i \in kept : \A j \in kept : j <= i)

\* split_first_delim: what is before the first such sign, and what is
\* behind it.
Before(s, sign) == SubSeq(s, 1, LowestOf(At(s, sign)) - 1)
Rest(s, sign)   == SubSeq(s, LowestOf(At(s, sign)) + 1, Len(s))
-----------------------------------------------------------------------------
(* hash_list_build_http_header_from_lines                                  *)

\* A line without a colon, or with nothing behind it, is a request line.
Header(line) ==
  IF At(line, Colon) # {} /\ Rest(line, Colon) # <<>>
  THEN [key |-> Before(line, Colon), value |-> Trim(Rest(line, Colon))]
  ELSE [key |-> <<RequestKey>>, value |-> Trim(line)]

\* Fault: a value that comes later replaces the first.
WithHeaderLast(h) == IF \E i \in DOMAIN headers : headers[i].key = h.key
                THEN [i \in DOMAIN headers |-> IF headers[i].key = h.key THEN h ELSE headers[i]]
                ELSE Append(headers, h)

\* hash_list_add: the first value of a key stays.
WithHeader(h) == IF \E i \in DOMAIN headers : headers[i].key = h.key
            THEN headers ELSE Append(headers, h)

\* One round of the loop.  The last one adds the string without an address
\* that str_split_line returns when no line is left.
BuildHeaders ==
  /\ pc = "split"
  /\ LET l == NextLine(text, rest, end)
     IN IF l = Unset
        THEN /\ pc' = "answer"
             /\ headers' = WithHeader([key |-> <<RequestKey>>, value |-> Unset])
             /\ UNCHANGED <<rest, end>>
        ELSE /\ pc' = pc
             /\ headers' = WithHeader(Header(SubSeq(text, l.from, l.to - 1)))
             /\ rest' = l.rest /\ end' = l.end
  /\ UNCHANGED <<sent, text, answer>>
-----------------------------------------------------------------------------
(* handle_client and handle_get_response                                   *)

\* The second of the words that the first three blanks part, which is empty
\* between two blanks.
SecondWord(s) ==
  LET more == Rest(s, Space)
  IN IF At(more, Space) = {} THEN more ELSE Before(more, Space)

\* Fault: a path of no length is not looked at.
PathOfEmpty(s) == IF SecondWord(s) = <<Slash>> THEN Index ELSE SecondWord(s)

PathOf(s) == IF SecondWord(s) \in {<<>>, <<Slash>>} THEN Index ELSE SecondWord(s)

\* The first of FILE_TYPES whose word occurs anywhere in the name.
TypeOf(path) ==
  LET there == {i \in DOMAIN Types : At(path, Types[i]) # {}}
  IN IF there = {} THEN Types[1] ELSE Types[LowestOf(there)]

\* Without a blank in it, the path is uninitialized (noPath).
Asked(s) ==
  CASE At(s, Get) = {}   -> Reading("noMethod")
    [] At(s, Space) = {} -> Reading("noPath")
    [] OTHER             -> Page(PathOf(s), TypeOf(PathOf(s)))

\* The first value in the list is the request line, whatever its key.
Answer ==
  /\ pc = "answer" /\ pc' = "done"
  /\ answer' = IF headers[1].value = Unset THEN Reading("nothing") ELSE Asked(headers[1].value)
  /\ UNCHANGED <<sent, text, rest, end, headers>>

RequestNext == BuildHeaders \/ Answer

RequestSpec == RequestInit /\ [][RequestNext]_requestVars
-----------------------------------------------------------------------------
(* Properties.                                                             *)

Line(t, e) == SubSeq(t, LineOf(t, e).from, LineOf(t, e).to - 1)

\* The lines that give a key its first value.
Firsts(t) ==
  {e \in LineEnds(t) : \A d \in LineEnds(t) : d < e => Header(Line(t, d)).key # Header(Line(t, e)).key}

\* The list holds the headers of every line that has come whole, each key
\* with the value of its first line, in the order of these lines, and a
\* request line without a value behind them if there is no other
\* (hash_list_build_http_header_from_lines, str_split_line, hash_list_add).
HeadersAreTheText ==
  pc = "answer" =>
    LET given == {Header(Line(text, e)) : e \in Firsts(text)}
        n     == Cardinality(Firsts(text))
        last  == IF \E h \in given : h.key = <<RequestKey>> THEN <<>>
                 ELSE << [key |-> <<RequestKey>>, value |-> Unset] >>
    IN /\ SubSeq(headers, n + 1, Len(headers)) = last
       /\ \A e \in Firsts(text) :
            headers[Cardinality({d \in Firsts(text) : d <= e})] = Header(Line(text, e))

\* GET, a blank, a path without blanks and colons, a blank, and the version.
AsBrowsersSend(line) ==
  /\ Len(line) >= 5 /\ line[1] = Get
  /\ At(line, Space) = {2, Len(line) - 1} /\ At(line, Colon) = {}

\* How the network cuts a request does not matter: until its first line is
\* whole it is answered with nothing, and after that with what all of it
\* asks for.  A first line as a browser sends it, with no colon in the path,
\* is answered with the page it names (handle_client).
CutAnywhere ==
  pc = "done" =>
    /\ FirstEnds(text) = {} => answer = Reading("nothing")
    /\ FirstEnds(text) # {} =>
         LET line == FirstLine(sent) IN
         /\ answer = Asked(Header(line).value)
         /\ AsBrowsersSend(line) =>
              LET path == SubSeq(line, 3, Len(line) - 2)
              IN answer.path = IF path = <<Slash>> THEN Index ELSE path
=============================================================================
