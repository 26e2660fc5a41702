---------------------------- MODULE MCDescriptors ----------------------------
(* Two clients, and a server that is started twice.  In the background      *)
(* eleven descriptors are enough for all that can be kept, in front for     *)
(* three of the five.                                                       *)
EXTENDS Descriptors, TLC

CONSTANTS c1, c2, free, nobody

MCClients == {c1, c2}

\* Clients differ in nothing but what they do.
Symmetry == Permutations(MCClients)
=============================================================================
