------------------------------ MODULE HashList -------------------------------
(***************************************************************************)
(* The list of code/lists.h, and with it that of code/str_list.h: nodes in *)
(* the order of their creation, linked into one queue and into a chain per *)
(* bucket, newest first.  A key is added only if its chain does not have   *)
(* it.  In a string list a text is its own key.                            *)
(*                                                                         *)
(* A pointer is the number of a node, or Null.  The walk along a chain and *)
(* the loop over the queue take one step per node.                         *)
(***************************************************************************)
EXTENDS Naturals, Sequences

CONSTANTS
  Keys, Data,
  Hash,         \* util_node_hash, str_node_hash
  BucketCount,  \* DefaultHashListBucketCount
  OnRefusal     \* what an add may do that gets no memory: "drop", "crash"

Ops   == {"add", "get", "list", "first", "last"}
Calls == [op : Ops, key : Keys, data : Data]
Null  == 0
Slots == 0 .. BucketCount - 1

ASSUME HashListAssumption ==
  /\ Keys # {} /\ Data # {} /\ Hash \in [Keys -> Nat] /\ BucketCount \in Nat \ {0}
  /\ OnRefusal \subseteq {"drop", "crash"}

VARIABLES
  nodes,                    \* the nodes, in the order of their creation
  first, end, count,        \* the queue of all of them
  buckets,                  \* the newest node of each chain
  pc, call, current,        \* the call under way, and how far it has come
  result                    \* what it has returned

queue == <<first, end, count>>
vars  == <<nodes, queue, buckets, pc, call, current, result>>

Pointers == 0 .. Len(nodes)

TypeOK ==
  /\ nodes \in Seq([key : Keys, data : Data, hash_next : Nat, next : Nat])
  /\ \A p \in 1 .. Len(nodes) : nodes[p].hash_next \in Pointers /\ nodes[p].next \in Pointers
  /\ first \in Pointers /\ end \in Pointers /\ count \in Nat
  /\ buckets \in [Slots -> Pointers]
  /\ pc \in {"idle", "find", "list", "crashed"}
  /\ call \in Calls /\ current \in Pointers
  /\ result \in Seq([key : Keys, data : Data])
-----------------------------------------------------------------------------
\* hash_list_get_slot
Slot(k) == Hash[k] % BucketCount

\* hash_list_create
Init ==
  /\ nodes = <<>> /\ buckets = [b \in Slots |-> Null]
  /\ first = Null /\ end = Null /\ count = 0
  /\ pc = "idle" /\ call \in Calls /\ current = Null /\ result = <<>>

Content(p) == [key |-> nodes[p].key, data |-> nodes[p].data]
Value(p)   == IF p = Null THEN <<>> ELSE <<Content(p)>>

Return(r) == pc' = "idle" /\ result' = r /\ UNCHANGED <<call, current>>

\* Some caller adds, asks, or looks at the ends.
Call ==
  /\ pc = "idle" /\ call' \in Calls
  /\ IF call'.op \in {"add", "get"}
     THEN pc' = "find" /\ current' = buckets[Slot(call'.key)]
     ELSE pc' = "list" /\ current' = first
  /\ result' = <<>>
  /\ UNCHANGED <<nodes, queue, buckets>>

(* Definitions marked `Fault' are wrong on purpose: each is what a mistake  *)
(* in the code would make of the definition after it, and breaks a property.*)

\* Fault: takes an equal hash for an equal key.
MatchesHash == Hash[nodes[current].key] = Hash[call.key]

\* str_is_match of a node's key with the one that is searched.
Matches == nodes[current].key = call.key

\* hash_list_find_node_priv goes on to the next node of the chain.
FollowChain ==
  /\ pc = "find" /\ current # Null /\ ~Matches
  /\ current' = nodes[current].hash_next
  /\ UNCHANGED <<nodes, queue, buckets, pc, call, result>>

\* It has found the key: hash_list_contains returns its data, and
\* hash_list_add leaves the list as it is.
Found ==
  /\ pc = "find" /\ current # Null /\ Matches
  /\ Return(IF call.op = "get" THEN Value(current) ELSE <<>>)
  /\ UNCHANGED <<nodes, queue, buckets>>

NotThere ==
  /\ pc = "find" /\ current = Null /\ call.op = "get"
  /\ Return(<<>>)
  /\ UNCHANGED <<nodes, queue, buckets>>

\* Fault: links the node into its bucket before it reads what was there.
NodeOfItself(p) ==
  [key |-> call.key, data |-> call.data, hash_next |-> p, next |-> Null]

\* Fault: begins a new chain.
NodeAlone(p) ==
  [key |-> call.key, data |-> call.data, hash_next |-> Null, next |-> Null]

\* Fault: leaves the link of the queue as it finds it in the memory.
NodeWithoutEnd(p) ==
  [key |-> call.key, data |-> call.data,
   hash_next |-> buckets[Slot(call.key)], next |-> p + 1]

\* The new node p.
Node(p) ==
  [key |-> call.key, data |-> call.data,
   hash_next |-> buckets[Slot(call.key)], next |-> Null]

\* SLLQueuePush of the node p.
Push(p) ==
  /\ nodes' = [q \in 1 .. p |-> IF q = p   THEN Node(p)
                           ELSE IF q = end THEN [nodes[q] EXCEPT !.next = p]
                           ELSE nodes[q]]
  /\ first' = IF first = Null THEN p ELSE first
  /\ end' = p

Insert ==
  /\ pc = "find" /\ current = Null /\ call.op = "add"
  /\ Push(Len(nodes) + 1)
  /\ buckets' = [buckets EXCEPT ![Slot(call.key)] = Len(nodes) + 1]
  /\ count' = count + 1
  /\ Return(<<>>)

\* The arena has no memory for the node.  str_list_add_from_str drops the
\* text; hash_list_add and str_list_create write to the address they did not
\* get.
Refused ==
  /\ pc = "find" /\ current = Null /\ call.op = "add"
  /\ \/ "drop" \in OnRefusal /\ Return(<<>>)
     \/ "crash" \in OnRefusal /\ pc' = "crashed" /\ UNCHANGED <<call, current, result>>
  /\ UNCHANGED <<nodes, queue, buckets>>

\* HashListLinearLoop, STR_LIST_FOR_EACH: one round, and the end.
Visit ==
  /\ pc = "list" /\ call.op = "list" /\ current # Null
  /\ result' = Append(result, Content(current))
  /\ current' = nodes[current].next
  /\ UNCHANGED <<nodes, queue, buckets, pc, call>>

Visited ==
  /\ pc = "list" /\ call.op = "list" /\ current = Null
  /\ Return(result)
  /\ UNCHANGED <<nodes, queue, buckets>>

\* hash_list_get_first_element, hash_list_get_last_element
GetEnd ==
  /\ pc = "list" /\ call.op \in {"first", "last"}
  /\ Return(Value(IF call.op = "first" THEN first ELSE end))
  /\ UNCHANGED <<nodes, queue, buckets>>

Proceed == FollowChain \/ Found \/ NotThere \/ Insert \/ Visit \/ Visited \/ GetEnd

Next == Call \/ Proceed \/ Refused

\* A call that was made is gone on with.
Spec == Init /\ [][Next]_vars /\ WF_vars(Proceed)
-----------------------------------------------------------------------------
(* Properties.                                                             *)

\* The node q is the newest node in bucket b older than p, or Null if there
\* is none.
Newest(q, b, p) ==
  /\ q < p /\ (q # Null => Slot(nodes[q].key) = b)
  /\ \A r \in q + 1 .. p - 1 : Slot(nodes[r].key) # b

\* Every node is in the chain of its bucket and in the queue, between the
\* nodes that were added before and after it, and no key is there twice.
Linked ==
  /\ \A p \in 1 .. Len(nodes) : /\ Newest(nodes[p].hash_next, Slot(nodes[p].key), p)
                                /\ nodes[p].next = IF p = Len(nodes) THEN Null ELSE p + 1
  /\ \A b \in Slots : Newest(buckets[b], b, Len(nodes) + 1)
  /\ first = (IF nodes = <<>> THEN Null ELSE 1) /\ end = Len(nodes) /\ count = Len(nodes)
  /\ \A p, q \in 1 .. Len(nodes) : nodes[p].key = nodes[q].key => p = q

\* Whatever falls into one bucket, the list is a map that keeps the first
\* value of a key, and its loop visits the keys in the order they came in.
Kept == [p \in 1 .. Len(nodes) |-> Content(p)]

Abs == INSTANCE FirstKept WITH kept <- Kept, busy <- pc # "idle",
                               result <- IF pc = "idle" THEN result ELSE <<>>,
                               MayLose <- "drop" \in OnRefusal

KeepsFirst == Abs!Spec

\* No walk along a chain or the queue goes on for ever.
CallsReturn == pc \in {"find", "list"} ~> pc \in {"idle", "crashed"}
=============================================================================
