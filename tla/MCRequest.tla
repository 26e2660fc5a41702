------------------------------ MODULE MCRequest ------------------------------
(* Requests of up to three lines, each ended by LF or by CR LF, with every  *)
(* beginning of them.                                                       *)
EXTENDS Request

MCIndex == <<"index", "html">>
MCTypes == <<Star, "html", "css", "js">>

MCSigns == {LF, CR, Colon, Space, Star, Get, Slash, RequestKey,
            "index", "html", "css", "js", "a", "b", "Host", "POST", "HTTP"}

MCFirst ==
  { <<Get, Space, Slash, Space, "HTTP">>, <<Get, Space, "a", Space, "HTTP">>,
    <<Get, Space, "js", "html", Space, "HTTP">>, <<Get, Space, "a", Colon, "b", Space, "HTTP">>,
    <<Get, Space, Space, "a">>, <<Get>>, <<Space, Get, Space>>, <<"POST", Space, "a", Space, "HTTP">>,
    <<"a", Colon, Get, Space, "a">> }
MCHeaders ==
  { <<>>, <<Colon, "a">>, <<"Host", Colon, "a">>, <<"Host", Colon, Space, "b">>,
    <<"Host", Colon>>, <<"Host", Colon, Space>>, <<RequestKey, Colon, "a">> }

Ended(lines) == {c \o e : c \in lines, e \in {<<LF>>, <<CR, LF>>}}

MCRequests ==
  {l \o m \o n : l \in Ended(MCFirst \cup MCHeaders), m \in Ended(MCHeaders),
                 n \in {c \o <<CR, LF>> : c \in MCHeaders} \cup {<<>>, <<Get>>}}
  \cup {e \o l : e \in {<<LF>>, <<CR>>, <<CR, LF>>, <<LF, CR>>}, l \in Ended(MCFirst)}
  \cup {l \o <<CR, CR, LF>> \o m : l \in Ended(MCFirst), m \in Ended(MCHeaders)}
=============================================================================
