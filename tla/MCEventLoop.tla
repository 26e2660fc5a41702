----------------------------- MODULE MCEventLoop -----------------------------
(* Three clients for TLC, of which two ask for something.  Units of answers *)
(* are numbered so that a header, a file and the page of a 404 differ.      *)
EXTENDS EventLoop, TLC

CONSTANTS c1, c2, c3, nobody

MCClients == {c1, c2, c3}
MCHeader  == <<1>>
MCFile    == <<11, 12, 13>>
MCPage    == <<21>>
MCFds3    == {5, 6, 7}
MCFds2    == {5, 6}
MCFaults  == {"poll", "accept", "ctl", "ub", "signal"}
NoFaults  == {}

\* A request line in two pieces, without a path, so that any answer may be
\* given to it; one in one piece, for a page that is missing; and a client
\* that asks for nothing.
MCMeaning == c1 :> <<"nothing", "nothing", "noPath">>
          @@ c2 :> <<"nothing", "missing">>
          @@ c3 :> <<"nothing">>

\* Everybody asks for something, and the file is found.
MCFoundMeaning == c1 :> <<"nothing", "nothing", "found">>
               @@ c2 :> <<"nothing", "missing">>
               @@ c3 :> <<"nothing", "noPath">>
=============================================================================
