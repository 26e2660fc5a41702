------------------------------- MODULE MCArena -------------------------------
(* A small arena for TLC: a header of one byte, pages of four, a commit     *)
(* granule of half a page, as the code's 2 KB is of 4 KB.                   *)
EXTENDS Arena, TLC

CONSTANTS b1, b2, b3

MCBlocks   == {b1, b2, b3}
MCSizes    == {1, 3, 5, 11}
MCAligns   == {1, 2}
BlockPerms == Permutations(MCBlocks)
=============================================================================
