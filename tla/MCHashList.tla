----------------------------- MODULE MCHashList ------------------------------
(* Four keys: three of one bucket, two of those of one hash.                *)
EXTENDS HashList

CONSTANTS a, b, c, d

MCHash == [k \in {a, b, c, d} |-> CASE k \in {a, b} -> 3 [] k = c -> 5 [] k = d -> 2]
MCOnRefusal == {"drop", "crash"}
=============================================================================
