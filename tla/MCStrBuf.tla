------------------------------- MODULE MCStrBuf -------------------------------
(* One buffer at a time with up to three bytes, and texts of up to two      *)
(* letters: below, at and above the capacity, after which it shrinks, and   *)
(* past the bytes that there are.  A format of two letters is a cache line. *)
EXTENDS StrBuf

MCPieces  == {<<>>, <<"a">>, <<"b", "a">>}
MCFormats == {<<"b">>, <<"a", "b">>}
=============================================================================
