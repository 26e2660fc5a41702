--------------------------------- MODULE Str ---------------------------------
(***************************************************************************)
(* The string functions of code/str.h that decide what the rest of the     *)
(* server does.  A Str is a sequence of whatever the model that uses it    *)
(* tells apart.                                                            *)
(***************************************************************************)
EXTENDS Integers, Sequences

Larger(x, y)  == IF x < y THEN y ELSE x
Smaller(x, y) == IF x < y THEN x ELSE y

\* str_substr: the characters from `start' up to, not including, `end'.
\* Negative arguments count from the back.  Arguments that name no such
\* range give back the whole string.
Substr(s, start, end) ==
  LET from == IF start < 0 THEN Len(s) + start ELSE start
      to   == IF end < 0 THEN Len(s) + end ELSE end
  IN IF s # <<>> /\ from <= to /\ from < Len(s) /\ to >= 0
     THEN SubSeq(s, Larger(from, 0) + 1, Smaller(to, Len(s)))
     ELSE s
=============================================================================
