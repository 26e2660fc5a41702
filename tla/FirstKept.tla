------------------------------ MODULE FirstKept ------------------------------
(***************************************************************************)
(* What the lists of code/lists.h and code/str_list.h promise: a map that  *)
(* keeps the first value it is given for a key, and the order of the keys. *)
(***************************************************************************)
EXTENDS Naturals, Sequences

CONSTANTS Calls,    \* what may be asked: records with an op, a key, a data
          MayLose   \* whether memory may run out when something is added

VARIABLES kept,     \* the keys and values, oldest first
          call,     \* what was asked last
          busy,     \* whether it is still to be answered
          result    \* the answer to it

vars == <<kept, call, busy, result>>

Has(k)  == \E i \in 1 .. Len(kept) : kept[i].key = k
ValueOf(k) == LET i == CHOOSE j \in 1 .. Len(kept) : kept[j].key = k IN <<kept[i]>>

Init == kept = <<>> /\ call \in Calls /\ ~busy /\ result = <<>>

Ask == /\ ~busy
       /\ call' \in Calls /\ busy' /\ result' = <<>> /\ UNCHANGED kept

Add == /\ call.op = "add" /\ ~Has(call.key)
       /\ \/ kept' = Append(kept, [key |-> call.key, data |-> call.data])
          \/ MayLose /\ UNCHANGED kept
       /\ result' = <<>>

AddAgain == call.op = "add" /\ Has(call.key) /\ result' = <<>> /\ UNCHANGED kept

Get == /\ call.op = "get"
       /\ result' = IF Has(call.key) THEN ValueOf(call.key) ELSE <<>>

List == call.op = "list" /\ result' = kept

\* Nothing, if nothing was added.
First == call.op = "first" /\ result' = (IF kept = <<>> THEN <<>> ELSE <<kept[1]>>)
Last  == call.op = "last"  /\ result' = (IF kept = <<>> THEN <<>> ELSE <<kept[Len(kept)]>>)

Answer == /\ busy /\ ~busy' /\ UNCHANGED call
          /\ \/ Add \/ AddAgain
             \/ (Get \/ List \/ First \/ Last) /\ UNCHANGED kept

Spec == Init /\ [][Ask \/ Answer]_vars
=============================================================================
