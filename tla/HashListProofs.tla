--------------------------- MODULE HashListProofs ----------------------------
(* The proofs about the lists, for any keys, any hash function and any      *)
(* number of buckets.                                                       *)
EXTENDS HashList, SequenceTheorems, TLAPS

Element == [key : Keys, data : Data]
NodeSet == [key : Keys, data : Data, hash_next : Nat, next : Nat]

(* What a call has established so far: the key is in none of the nodes that *)
(* are newer than the cursor, and a loop has collected what is before it.   *)
Walk ==
  /\ pc = "find" =>
       /\ call.op \in {"add", "get"}
       /\ current # Null => Slot(nodes[current].key) = Slot(call.key)
       /\ \A r \in current + 1 .. Len(nodes) : nodes[r].key # call.key
  /\ pc = "list" => call.op \notin {"add", "get"}
  /\ pc = "list" /\ call.op = "list" =>
       /\ Len(result) = IF current = Null THEN Len(nodes) ELSE current - 1
       /\ \A i \in 1 .. Len(result) : result[i] = Content(i)

Inv == TypeOK /\ Linked /\ Walk
-----------------------------------------------------------------------------
LEMMA SlotType == \A k \in Keys : Slot(k) \in Slots
BY HashListAssumption DEF Slot, Slots

(* Facts about the types of what is there.                                  *)
LEMMA NodeTypes ==
  ASSUME TypeOK
  PROVE  /\ Len(nodes) \in Nat
         /\ \A p \in 1 .. Len(nodes) :
              /\ nodes[p] \in NodeSet /\ nodes[p].key \in Keys /\ nodes[p].data \in Data
              /\ nodes[p].hash_next \in 0 .. Len(nodes) /\ nodes[p].next \in 0 .. Len(nodes)
              /\ Content(p) \in Element
         /\ call.op \in Ops /\ call.key \in Keys /\ call.data \in Data
         /\ current \in 0 .. Len(nodes) /\ first \in 0 .. Len(nodes) /\ end \in 0 .. Len(nodes)
         /\ \A b \in Slots : buckets[b] \in 0 .. Len(nodes)
<1>1. nodes \in Seq(NodeSet)
  BY DEF TypeOK, NodeSet
<1>2. Len(nodes) \in Nat /\ \A p \in 1 .. Len(nodes) : nodes[p] \in NodeSet
  BY <1>1, ElementOfSeq
<1> QED BY <1>2 DEF TypeOK, NodeSet, Element, Content, Pointers, Calls

(* A function of an initial segment is a sequence.                          *)
LEMMA FunctionIsSequence ==
  ASSUME NEW S, NEW n \in Nat, NEW f \in [1 .. n -> S]
  PROVE  f \in Seq(S) /\ Len(f) = n
<1>1. f \in Seq(S)
  <2>1. Seq(S) = UNION {[1 .. k -> S] : k \in Nat}
    BY SeqDef
  <2> QED BY <2>1
<1>2. DOMAIN f = 1 .. Len(f) /\ Len(f) \in Nat
  BY <1>1, LenProperties
<1> QED BY <1>1, <1>2

LEMMA ValueType ==
  ASSUME TypeOK, NEW p \in 0 .. Len(nodes)
  PROVE  Value(p) \in Seq(Element)
<1>1. CASE p = Null
  BY <1>1 DEF Value
<1>2. CASE p # Null
  <2>1. Content(p) \in Element
    BY <1>2, NodeTypes DEF Null
  <2> HIDE DEF Element
  <2> QED BY <1>2, <2>1 DEF Value
<1> QED BY <1>1, <1>2

(* What an insertion makes of the nodes.                                    *)
LEMMA InsertNodes ==
  ASSUME Inv, Insert, NEW p, p = Len(nodes) + 1
  PROVE  /\ nodes' \in Seq(NodeSet) /\ Len(nodes') = p /\ p \in Nat \ {0}
         /\ nodes'[p] = Node(p) /\ Node(p) \in NodeSet
         /\ \A q \in 1 .. p - 1 :
              /\ nodes'[q].key = nodes[q].key /\ nodes'[q].data = nodes[q].data
              /\ nodes'[q].hash_next = nodes[q].hash_next
              /\ nodes'[q].next = IF q = p - 1 THEN p ELSE nodes[q].next
         /\ buckets' = [buckets EXCEPT ![Slot(call.key)] = p]
         /\ first' = 1 /\ end' = p /\ count' = p
<1>0. /\ Len(nodes) \in Nat /\ p \in Nat \ {0} /\ end = p - 1 /\ count = p - 1
      /\ first = IF nodes = <<>> THEN Null ELSE 1
  BY NodeTypes DEF Inv, Linked
<1>1. Slot(call.key) \in Slots /\ call.key \in Keys /\ call.data \in Data
  BY SlotType, NodeTypes DEF Inv
<1>2. Node(p) \in NodeSet
  <2>1. buckets[Slot(call.key)] \in Nat
    BY <1>1, NodeTypes DEF Inv
  <2> QED BY <1>1, <2>1 DEF Node, NodeSet, Null
<1>3. \A q \in 1 .. p - 1 : nodes[q] \in NodeSet /\ [nodes[q] EXCEPT !.next = p] \in NodeSet
  BY <1>0, NodeTypes DEF Inv, NodeSet
<1>4. nodes' = [q \in 1 .. p |-> IF q = p   THEN Node(p)
                            ELSE IF q = end THEN [nodes[q] EXCEPT !.next = p]
                            ELSE nodes[q]]
  BY DEF Insert, Push
<1>5. nodes' \in [1 .. p -> NodeSet]
  <2> HIDE DEF Node, NodeSet
  <2> QED BY <1>0, <1>2, <1>3, <1>4
<1>6. nodes' \in Seq(NodeSet) /\ Len(nodes') = p
  BY <1>0, <1>5, FunctionIsSequence
<1>7. nodes'[p] = Node(p)
  BY <1>0, <1>4
<1>8. \A q \in 1 .. p - 1 :
        /\ nodes'[q].key = nodes[q].key /\ nodes'[q].data = nodes[q].data
        /\ nodes'[q].hash_next = nodes[q].hash_next
        /\ nodes'[q].next = IF q = p - 1 THEN p ELSE nodes[q].next
  <2> SUFFICES ASSUME NEW q \in 1 .. p - 1
               PROVE  /\ nodes'[q].key = nodes[q].key /\ nodes'[q].data = nodes[q].data
                      /\ nodes'[q].hash_next = nodes[q].hash_next
                      /\ nodes'[q].next = IF q = p - 1 THEN p ELSE nodes[q].next
    OBVIOUS
  <2>1. nodes'[q] = IF q = p - 1 THEN [nodes[q] EXCEPT !.next = p] ELSE nodes[q]
    BY <1>0, <1>4
  <2> QED BY <1>3, <2>1 DEF NodeSet
<1>9. first' = 1 /\ end' = p /\ count' = p
  <2>1. nodes = <<>> => p = 1
    BY <1>0
  <2> QED BY <1>0, <2>1 DEF Insert, Push, Null
<1>10. buckets' = [buckets EXCEPT ![Slot(call.key)] = p]
  BY DEF Insert
<1> QED BY <1>0, <1>2, <1>6, <1>7, <1>8, <1>9, <1>10
-----------------------------------------------------------------------------
LEMMA InitInv == Init => Inv
<1> SUFFICES ASSUME Init PROVE Inv
  OBVIOUS
<1> USE DEF Init, Null
<1>1. Len(nodes) = 0 /\ nodes \in Seq(NodeSet) /\ result \in Seq(Element)
  OBVIOUS
<1>2. TypeOK
  BY <1>1 DEF TypeOK, NodeSet, Element, Pointers
<1>3. Linked
  BY <1>1 DEF Linked, Newest
<1>4. Walk
  BY DEF Walk
<1> QED BY <1>2, <1>3, <1>4 DEF Inv

(* Calls and walks leave the structure as it is.                            *)
LEMMA SameLinks ==
  ASSUME Inv, UNCHANGED <<nodes, queue, buckets>>,
         pc' \in {"idle", "find", "list", "crashed"}, call' \in Calls,
         current' \in 0 .. Len(nodes), result' \in Seq(Element), Walk'
  PROVE  Inv'
<1>1. TypeOK'
  BY DEF Inv, TypeOK, queue, Pointers, Element
<1>2. Linked'
  BY DEF Inv, Linked, queue, Newest, Slot
<1> QED BY <1>1, <1>2 DEF Inv

LEMMA CallKeeps == ASSUME Inv, Call PROVE Inv'
<1>1. call' \in Calls /\ call'.key \in Keys /\ Slot(call'.key) \in Slots
  BY SlotType DEF Call, Calls
<1>2. current' \in 0 .. Len(nodes)
  BY <1>1, NodeTypes DEF Call, Inv
<1>3. result' = <<>> /\ UNCHANGED <<nodes, queue, buckets>>
  BY DEF Call
<1>4. CASE call'.op \in {"add", "get"}
  <2>1. pc' = "find" /\ current' = buckets[Slot(call'.key)]
    BY <1>4 DEF Call
  <2>2. Newest(current', Slot(call'.key), Len(nodes) + 1)
    BY <1>1, <2>1 DEF Inv, Linked
  <2>3. \A r \in current' + 1 .. Len(nodes) : nodes[r].key # call'.key
    <3>1. Len(nodes) \in Nat
      BY NodeTypes DEF Inv
    <3>2. \A r \in current' + 1 .. (Len(nodes) + 1) - 1 : Slot(nodes[r].key) # Slot(call'.key)
      BY ONLY <2>2 DEF Newest
    <3>3. (Len(nodes) + 1) - 1 = Len(nodes)
      BY <3>1
    <3> QED BY <3>2, <3>3
  <2>4. Walk'
    BY <1>3, <1>4, <2>1, <2>2, <2>3 DEF Walk, Newest, Slot
  <2> QED BY <1>1, <1>2, <1>3, <2>1, <2>4, SameLinks
<1>5. CASE call'.op \notin {"add", "get"}
  <2>1. pc' = "list" /\ current' = first
    BY <1>5 DEF Call
  <2>2. Len(result') = IF current' = Null THEN Len(nodes) ELSE current' - 1
    BY <1>3, <2>1 DEF Inv, Linked, Null
  <2>3. Walk'
    BY <1>3, <1>5, <2>1, <2>2 DEF Walk
  <2> QED BY <1>1, <1>2, <1>3, <2>1, <2>3, SameLinks
<1> QED BY <1>4, <1>5

LEMMA FollowKeeps == ASSUME Inv, FollowChain PROVE Inv'
<1>1. /\ pc = "find" /\ pc' = "find" /\ call' = call /\ result' = result
      /\ current' = nodes[current].hash_next /\ nodes[current].key # call.key
      /\ current \in 1 .. Len(nodes) /\ UNCHANGED <<nodes, queue, buckets>>
      /\ Len(nodes) \in Nat
  BY NodeTypes DEF FollowChain, Matches, Inv, Null
<1>2. current' \in 0 .. Len(nodes)
  BY <1>1, NodeTypes DEF Inv
<1>3. Newest(current', Slot(call.key), current)
  BY <1>1 DEF Inv, Linked, Walk, Null
<1>4. \A r \in current' + 1 .. Len(nodes) : nodes[r].key # call.key
  <2> SUFFICES ASSUME NEW r \in current' + 1 .. Len(nodes) PROVE nodes[r].key # call.key
    OBVIOUS
  <2>1. CASE r < current
    BY <1>1, <1>2, <1>3, <2>1 DEF Newest
  <2>2. CASE r = current
    BY <1>1, <2>2
  <2>3. CASE r > current
    BY <1>1, <1>2, <2>3 DEF Inv, Walk
  <2> QED BY <1>1, <1>2, <2>1, <2>2, <2>3
<1>5. Walk'
  BY <1>1, <1>3, <1>4 DEF Inv, Walk, Newest, Slot
<1> QED BY <1>1, <1>2, <1>5, SameLinks DEF Inv, TypeOK, Element

(* A call that returns and leaves the list as it is.                        *)
LEMMA ReturnKeeps ==
  ASSUME Inv, NEW r \in Seq(Element), Return(r), UNCHANGED <<nodes, queue, buckets>>
  PROVE  Inv'
<1>1. Walk'
  BY DEF Walk, Return
<1> QED BY <1>1, SameLinks, NodeTypes DEF Inv, TypeOK, Return

LEMMA LookupKeeps == ASSUME Inv, Found \/ NotThere \/ Visited \/ GetEnd PROVE Inv'
<1>1. <<>> \in Seq(Element) /\ result \in Seq(Element)
  BY DEF Inv, TypeOK, Element
<1>2. /\ Value(current) \in Seq(Element) /\ Value(first) \in Seq(Element)
      /\ Value(end) \in Seq(Element)
  BY ValueType, NodeTypes DEF Inv
<1>3. CASE Found
  BY <1>1, <1>2, <1>3, ReturnKeeps DEF Found
<1>4. CASE NotThere
  BY <1>1, <1>4, ReturnKeeps DEF NotThere
<1>5. CASE Visited
  BY <1>1, <1>5, ReturnKeeps DEF Visited
<1>6. CASE GetEnd
  BY <1>2, <1>6, ReturnKeeps DEF GetEnd
<1> QED BY <1>3, <1>4, <1>5, <1>6

LEMMA VisitKeeps == ASSUME Inv, Visit PROVE Inv'
<1>1. /\ pc = "list" /\ pc' = "list" /\ call.op = "list" /\ call' = call
      /\ result' = Append(result, Content(current)) /\ current' = nodes[current].next
      /\ current \in 1 .. Len(nodes) /\ UNCHANGED <<nodes, queue, buckets>>
      /\ Len(nodes) \in Nat
  BY NodeTypes DEF Visit, Inv, Null
<1>2. Content(current) \in Element /\ result \in Seq(Element)
  BY <1>1, NodeTypes DEF Inv, TypeOK, Element
<1>3. result' \in Seq(Element) /\ current' \in 0 .. Len(nodes)
  BY <1>1, <1>2, NodeTypes, AppendProperties DEF Inv
<1>4. Len(result) = current - 1 /\ \A i \in 1 .. Len(result) : result[i] = Content(i)
  BY <1>1 DEF Inv, Walk, Null
<1>5. current' = IF current = Len(nodes) THEN Null ELSE current + 1
  BY <1>1 DEF Inv, Linked
<1>6. /\ Len(result') = current /\ result'[current] = Content(current)
      /\ \A i \in 1 .. current - 1 : result'[i] = Content(i)
  <2> HIDE DEF Element, Content
  <2> QED BY <1>1, <1>2, <1>4, AppendProperties
<1>7. \A i \in 1 .. Len(result') : result'[i] = Content(i)
  BY <1>1, <1>6
<1>8. Walk'
  <2>1. Len(result') = IF current' = Null THEN Len(nodes) ELSE current' - 1
    BY <1>1, <1>5, <1>6 DEF Null
  <2> QED BY <1>1, <1>7, <2>1 DEF Walk, Content
<1> QED BY <1>1, <1>3, <1>8, SameLinks DEF Inv, TypeOK

(* The newest node of a chain in any nodes, and with it Linked of the next   *)
(* state.                                                                   *)
NewestOf(ns, q, b, p) ==
  /\ q < p /\ (q # Null => Slot(ns[q].key) = b)
  /\ \A r \in q + 1 .. p - 1 : Slot(ns[r].key) # b

LEMMA LinkedNext ==
  ASSUME \A p \in 1 .. Len(nodes') :
           /\ NewestOf(nodes', nodes'[p].hash_next, Slot(nodes'[p].key), p)
           /\ nodes'[p].next = IF p = Len(nodes') THEN Null ELSE p + 1,
         \A b \in Slots : NewestOf(nodes', buckets'[b], b, Len(nodes') + 1),
         first' = (IF nodes' = <<>> THEN Null ELSE 1), end' = Len(nodes'), count' = Len(nodes'),
         \A p, q \in 1 .. Len(nodes') : nodes'[p].key = nodes'[q].key => p = q
  PROVE  Linked'
BY DEF Linked, Newest, NewestOf, Slot, Null, Slots

LEMMA InsertKeeps == ASSUME Inv, Insert PROVE Inv'
<1> DEFINE p == Len(nodes) + 1
           b == Slot(call.key)
<1>1. /\ nodes' \in Seq(NodeSet) /\ Len(nodes') = p /\ p \in Nat \ {0}
      /\ nodes'[p] = Node(p) /\ Node(p) \in NodeSet
      /\ \A q \in 1 .. p - 1 :
           /\ nodes'[q].key = nodes[q].key /\ nodes'[q].data = nodes[q].data
           /\ nodes'[q].hash_next = nodes[q].hash_next
           /\ nodes'[q].next = IF q = p - 1 THEN p ELSE nodes[q].next
      /\ buckets' = [buckets EXCEPT ![b] = p]
      /\ first' = 1 /\ end' = p /\ count' = p
  BY InsertNodes
<1>2. /\ pc = "find" /\ current = Null /\ call.op = "add" /\ pc' = "idle"
      /\ UNCHANGED <<call, current>> /\ result' = <<>>
  BY DEF Insert, Return
<1>3. /\ nodes'[p].key = call.key /\ nodes'[p].next = Null
      /\ nodes'[p].hash_next = buckets[b]
  BY <1>1 DEF Node
<1>4. /\ b \in Slots /\ \A c \in Slots : buckets[c] \in 0 .. p - 1
      /\ \A q \in 1 .. p - 1 : /\ nodes[q].key \in Keys /\ nodes[q].next \in 0 .. p - 1
                               /\ nodes[q].hash_next \in 0 .. p - 1
      /\ \A c \in Slots : Newest(buckets[c], c, p)
      /\ buckets \in [Slots -> Nat]
  <2>1. \A c \in Slots : Newest(buckets[c], c, p)
    BY DEF Inv, Linked
  <2>2. Len(nodes) \in Nat
    BY NodeTypes DEF Inv
  <2>3. buckets \in [Slots -> Nat]
    BY <2>2 DEF Inv, TypeOK, Pointers
  <2> QED BY SlotType, NodeTypes, <2>1, <2>2, <2>3 DEF Inv
<1>5. p - 1 = Len(nodes) /\ Len(nodes) \in Nat
  BY NodeTypes DEF Inv
<1>6. \A q \in 1 .. p - 1 : /\ Newest(nodes[q].hash_next, Slot(nodes[q].key), q)
                            /\ nodes[q].next = IF q = p - 1 THEN Null ELSE q + 1
                            /\ nodes[q].key # call.key
  BY <1>2, <1>5 DEF Inv, Linked, Walk, Null
<1>7. \A q, r \in 1 .. p - 1 : nodes[q].key = nodes[r].key => q = r
  BY <1>5 DEF Inv, Linked
<1> HIDE DEF p, b
<1>8. TypeOK'
  <2>1. \A q \in 1 .. p : nodes'[q].hash_next \in 0 .. p /\ nodes'[q].next \in 0 .. p
    <3> SUFFICES ASSUME NEW q \in 1 .. p
                 PROVE  nodes'[q].hash_next \in 0 .. p /\ nodes'[q].next \in 0 .. p
      OBVIOUS
    <3>1. CASE q = p
      BY <1>1, <1>3, <1>4, <3>1 DEF Null
    <3>2. CASE q # p
      <4>1. q \in 1 .. p - 1 /\ p \in Nat
        BY <1>5, <3>2 DEF p
      <4>2. nodes[q].hash_next \in 0 .. p - 1 /\ nodes[q].next \in 0 .. p - 1
        BY <1>4, <4>1
      <4> QED BY <1>1, <4>1, <4>2
    <3> QED BY <3>1, <3>2
  <2>2. buckets' \in [Slots -> 0 .. p]
    BY <1>1, <1>4
  <2>3. result' \in Seq(Element)
    BY <1>2
  <2>4. call' \in Calls /\ current' \in 0 .. p
    BY <1>1, <1>2 DEF Inv, TypeOK, Null
  <2>5. first' \in 0 .. p /\ end' \in 0 .. p /\ count' \in Nat /\ pc' = "idle"
    BY <1>1, <1>2
  <2>6. nodes' \in Seq([key : Keys, data : Data, hash_next : Nat, next : Nat])
    BY <1>1 DEF NodeSet
  <2> QED BY <1>1, <2>1, <2>2, <2>3, <2>4, <2>5, <2>6 DEF TypeOK, Pointers, Element
<1>9. \A q \in 1 .. p : \A c \in Slots : \A r \in 0 .. p - 1 :
        Newest(r, c, q) => NewestOf(nodes', r, c, q)
  <2> SUFFICES ASSUME NEW q \in 1 .. p, NEW c \in Slots, NEW r \in 0 .. p - 1,
                      Newest(r, c, q)
               PROVE  NewestOf(nodes', r, c, q)
    OBVIOUS
  <2>1. r # Null => nodes'[r].key = nodes[r].key
    BY <1>1 DEF Null
  <2>2. \A s \in r + 1 .. q - 1 : nodes'[s].key = nodes[s].key
    BY <1>1
  <2> QED BY <2>1, <2>2 DEF Newest, NewestOf
<1>10. \A q \in 1 .. p : /\ NewestOf(nodes', nodes'[q].hash_next, Slot(nodes'[q].key), q)
                         /\ nodes'[q].next = IF q = p THEN Null ELSE q + 1
  <2> SUFFICES ASSUME NEW q \in 1 .. p
               PROVE  /\ NewestOf(nodes', nodes'[q].hash_next, Slot(nodes'[q].key), q)
                      /\ nodes'[q].next = IF q = p THEN Null ELSE q + 1
    OBVIOUS
  <2>1. CASE q = p
    <3>1. NewestOf(nodes', buckets[b], b, p)
      BY <1>1, <1>4, <1>9
    <3> QED BY <1>3, <2>1, <3>1 DEF b
  <2>2. CASE q # p
    <3>1. q \in 1 .. p - 1
      BY <1>1, <2>2
    <3>2. Newest(nodes[q].hash_next, Slot(nodes[q].key), q)
      BY <1>6, <3>1
    <3>3. Slot(nodes[q].key) \in Slots /\ nodes[q].hash_next \in 0 .. p - 1
      BY <1>4, <3>1, SlotType
    <3>4. NewestOf(nodes', nodes[q].hash_next, Slot(nodes[q].key), q)
      BY <1>9, <3>2, <3>3
    <3>5. nodes'[q].hash_next = nodes[q].hash_next /\ nodes'[q].key = nodes[q].key
      BY <1>1, <3>1
    <3>6. nodes'[q].next = q + 1
      BY <1>1, <1>6, <2>2, <3>1
    <3> QED BY <2>2, <3>4, <3>5, <3>6
  <2> QED BY <2>1, <2>2
<1>11. \A c \in Slots : NewestOf(nodes', buckets'[c], c, p + 1)
  <2> SUFFICES ASSUME NEW c \in Slots PROVE NewestOf(nodes', buckets'[c], c, p + 1)
    OBVIOUS
  <2>1. CASE c = b
    <3>1. buckets'[c] = p /\ Slot(nodes'[p].key) = c
      BY <1>1, <1>3, <1>4, <2>1 DEF b
    <3> QED BY <1>1, <3>1 DEF NewestOf
  <2>2. CASE c # b
    <3>1. buckets'[c] = buckets[c] /\ buckets[c] \in 0 .. p - 1
      BY <1>1, <1>4, <2>2
    <3>2. NewestOf(nodes', buckets[c], c, p)
      BY <1>1, <1>4, <1>9
    <3>3. Slot(nodes'[p].key) # c
      BY <1>3, <2>2 DEF b
    <3> QED BY <1>1, <3>1, <3>2, <3>3 DEF NewestOf
  <2> QED BY <2>1, <2>2
<1>12. \A q, r \in 1 .. p : nodes'[q].key = nodes'[r].key => q = r
  BY <1>1, <1>3, <1>6, <1>7
<1>13. Linked'
  <2>1. nodes' # <<>>
    BY <1>1
  <2> QED BY <1>1, <1>10, <1>11, <1>12, <2>1, LinkedNext
<1>14. Walk'
  BY <1>2 DEF Walk
<1> QED BY <1>8, <1>13, <1>14 DEF Inv

LEMMA NextKeeps == Inv /\ [Next]_vars => Inv'
<1> SUFFICES ASSUME Inv, [Next]_vars PROVE Inv'
  OBVIOUS
<1>1. CASE Call
  BY <1>1, CallKeeps
<1>2. CASE FollowChain
  BY <1>2, FollowKeeps
<1>3. CASE Found \/ NotThere \/ Visited \/ GetEnd
  BY <1>3, LookupKeeps
<1>4. CASE Insert
  BY <1>4, InsertKeeps
<1>5. CASE Visit
  BY <1>5, VisitKeeps
<1>6. CASE Refused
  <2>1. CASE Return(<<>>)
    BY <1>6, <2>1, ReturnKeeps, EmptySeq DEF Refused
  <2>2. CASE pc' = "crashed" /\ UNCHANGED <<call, current, result>>
    <3>1. Walk'
      BY <2>2 DEF Walk
    <3> QED BY <1>6, <2>2, <3>1, SameLinks, NodeTypes DEF Refused, Inv, TypeOK, Element
  <2> QED BY <1>6, <2>1, <2>2 DEF Refused
<1>7. CASE UNCHANGED vars
  <2>1. Walk'
    BY <1>7 DEF vars, Inv, Walk, Slot, Content
  <2> QED BY <1>7, <2>1, SameLinks, NodeTypes DEF vars, Inv, TypeOK, Element
<1> QED BY <1>1, <1>2, <1>3, <1>4, <1>5, <1>6, <1>7 DEF Next, Proceed

LEMMA Invariant == Spec => []Inv
<1>1. Init => Inv
  BY InitInv
<1>2. Inv /\ [Next]_vars => Inv'
  BY NextKeeps
<1> QED BY <1>1, <1>2, PTL DEF Spec

(* The list keeps its types, and no link leaves it.                         *)
THEOREM ListTypeCorrect == Spec => []TypeOK
BY Invariant, PTL DEF Inv

(* With any hash function, chains and queue hold every node, once and in    *)
(* the order of insertion, and no key twice.                                *)
THEOREM AllLinked == Spec => []Linked
BY Invariant, PTL DEF Inv
-----------------------------------------------------------------------------
(* The refinement.                                                          *)
LEMMA KeptFacts ==
  ASSUME TypeOK
  PROVE  /\ Kept \in Seq(Element) /\ Len(Kept) = Len(nodes) /\ Len(nodes) \in Nat
         /\ \A p \in 1 .. Len(nodes) : /\ Kept[p] = Content(p) /\ Kept[p].key = nodes[p].key
                                        /\ Content(p) \in Element
         /\ Kept = <<>> <=> Len(nodes) = 0
<1>1. Len(nodes) \in Nat /\ \A p \in 1 .. Len(nodes) : Content(p) \in Element
  BY NodeTypes
<1>2. Kept \in [1 .. Len(nodes) -> Element]
  BY <1>1 DEF Kept
<1>3. Kept \in Seq(Element) /\ Len(Kept) = Len(nodes)
  <2> HIDE DEF Kept, Element
  <2> QED BY <1>1, <1>2, FunctionIsSequence
<1>4. \A p \in 1 .. Len(nodes) : Kept[p] = Content(p) /\ Kept[p].key = nodes[p].key
  BY DEF Kept, Content
<1>5. Kept = <<>> <=> Len(nodes) = 0
  <2> HIDE DEF Kept, Element
  <2> QED BY <1>3, EmptySeq
<1> QED BY <1>1, <1>3, <1>4, <1>5

LEMMA KeptUnchanged == UNCHANGED nodes => UNCHANGED Kept
BY DEF Kept, Content

LEMMA RefinementInit == Init => Abs!Init
<1> SUFFICES ASSUME Init PROVE Abs!Init
  OBVIOUS
<1>1. Kept = <<>>
  BY KeptFacts, InitInv DEF Inv, Init
<1> QED BY <1>1 DEF Init, Abs!Init

(* A call that returns what the abstract list answers.                      *)
LEMMA ReturnsAnswer ==
  ASSUME pc \in {"find", "list"}, NEW r, Return(r), UNCHANGED nodes,
         \/ call.op = "add" /\ Abs!Has(call.key) /\ r = <<>>
         \/ call.op = "get" /\ r = IF Abs!Has(call.key) THEN Abs!ValueOf(call.key) ELSE <<>>
         \/ call.op = "list" /\ r = Kept
         \/ call.op = "first" /\ r = IF Kept = <<>> THEN <<>> ELSE <<Kept[1]>>
         \/ call.op = "last" /\ r = IF Kept = <<>> THEN <<>> ELSE <<Kept[Len(Kept)]>>
         \/ /\ call.op = "add" /\ ~Abs!Has(call.key) /\ "drop" \in OnRefusal /\ r = <<>>
  PROVE  Abs!Answer
<1>1. Kept' = Kept /\ pc' = "idle" /\ result' = r /\ call' = call
  BY KeptUnchanged DEF Return
<1>2. Abs!AddAgain \/ Abs!Get \/ Abs!List \/ Abs!First \/ Abs!Last \/ Abs!Add
  BY <1>1 DEF Abs!AddAgain, Abs!Get, Abs!List, Abs!First, Abs!Last, Abs!Add
<1> QED BY <1>1, <1>2 DEF Abs!Answer

(* What the abstract list has, the nodes have.                              *)
LEMMA HasNode ==
  ASSUME Inv, NEW k
  PROVE  Abs!Has(k) <=> \E p \in 1 .. Len(nodes) : nodes[p].key = k
BY KeptFacts DEF Abs!Has, Inv

LEMMA FoundAnswers == ASSUME Inv, Found PROVE Abs!Answer
<1>1. /\ current \in 1 .. Len(nodes) /\ nodes[current].key = call.key /\ pc = "find"
      /\ call.op \in {"add", "get"} /\ UNCHANGED nodes
      /\ Return(IF call.op = "get" THEN Value(current) ELSE <<>>)
  BY NodeTypes DEF Found, Matches, Inv, Walk, Null
<1>2. Abs!Has(call.key)
  BY <1>1, HasNode
<1>3. Abs!ValueOf(call.key) = Value(current)
  <2>1. \A j \in 1 .. Len(Kept) : Kept[j].key = call.key <=> j = current
    BY <1>1, KeptFacts DEF Inv, Linked
  <2>2. (CHOOSE j \in 1 .. Len(Kept) : Kept[j].key = call.key) = current
    BY <1>1, <2>1, KeptFacts DEF Inv
  <2>3. Kept[current] = Content(current)
    BY <1>1, KeptFacts DEF Inv
  <2>4. Abs!ValueOf(call.key) = <<Kept[CHOOSE j \in 1 .. Len(Kept) : Kept[j].key = call.key]>>
    BY DEF Abs!ValueOf
  <2>5. Value(current) = <<Content(current)>>
    BY <1>1 DEF Value, Null
  <2> QED BY <2>2, <2>3, <2>4, <2>5
<1>4. CASE call.op = "get"
  <2>1. Return(Value(current))
    BY <1>1, <1>4
  <2> QED BY <1>1, <1>2, <1>3, <1>4, <2>1, ReturnsAnswer
<1>5. CASE call.op = "add"
  <2>1. Return(<<>>)
    BY <1>1, <1>5
  <2> QED BY <1>1, <1>2, <1>5, <2>1, ReturnsAnswer
<1> QED BY <1>1, <1>4, <1>5

LEMMA NotFound == ASSUME Inv, pc = "find", current = Null PROVE ~Abs!Has(call.key)
<1>1. \A r \in 1 .. Len(nodes) : nodes[r].key # call.key
  BY DEF Inv, Walk, Null
<1> QED BY <1>1, HasNode

LEMMA InsertAnswers == ASSUME Inv, Insert PROVE Abs!Answer
<1> DEFINE p == Len(nodes) + 1
           e == [key |-> call.key, data |-> call.data]
<1>1. /\ pc = "find" /\ current = Null /\ call.op = "add" /\ pc' = "idle"
      /\ UNCHANGED <<call, current>> /\ result' = <<>>
  BY DEF Insert, Return
<1>2. /\ Len(nodes') = p /\ p \in Nat \ {0} /\ nodes'[p] = Node(p)
      /\ \A q \in 1 .. p - 1 :
           nodes'[q].key = nodes[q].key /\ nodes'[q].data = nodes[q].data
  BY InsertNodes
<1>3. Kept' = [q \in 1 .. p |-> [key |-> nodes'[q].key, data |-> nodes'[q].data]]
  BY <1>2 DEF Kept, Content
<1>4. \A q \in 1 .. p - 1 : Kept'[q] = Kept[q]
  <2>1. \A q \in 1 .. p - 1 : q \in 1 .. Len(nodes) /\ q \in 1 .. p
    BY <1>2
  <2>2. \A q \in 1 .. p - 1 : Kept[q] = [key |-> nodes[q].key, data |-> nodes[q].data]
    BY <2>1 DEF Kept, Content
  <2> QED BY <1>2, <1>3, <2>1, <2>2
<1>5. nodes'[p].key = call.key /\ nodes'[p].data = call.data
  BY <1>2 DEF Node
<1>6. Kept' \in Seq(Element) /\ Len(Kept') = p /\ Kept'[p] = e
  <2>1. nodes' \in Seq(NodeSet)
    BY InsertNodes
  <2>2. \A q \in 1 .. p : nodes'[q] \in NodeSet
    BY <1>2, <2>1, ElementOfSeq
  <2>3. \A q \in 1 .. p : [key |-> nodes'[q].key, data |-> nodes'[q].data] \in Element
    BY <2>2 DEF NodeSet, Element
  <2>4. Kept' \in [1 .. p -> Element]
    BY <1>3, <2>3
  <2>5. Kept' \in Seq(Element) /\ Len(Kept') = p
    <3> HIDE DEF Kept, Element
    <3> QED BY <1>2, <2>4, FunctionIsSequence
  <2>6. Kept'[p] = e
    BY <1>2, <1>3, <1>5
  <2> QED BY <2>5, <2>6
<1>7. Kept \in Seq(Element) /\ Len(Kept) = p - 1 /\ e \in Element
  BY <1>2, KeptFacts, NodeTypes DEF Inv, Element
<1>8. Kept' = Append(Kept, e)
  <2> HIDE DEF Kept, Element, e, p
  <2>1. /\ Append(Kept, e) \in Seq(Element) /\ Len(Append(Kept, e)) = p
        /\ \A q \in 1 .. p - 1 : Append(Kept, e)[q] = Kept[q]
        /\ Append(Kept, e)[p] = e
    BY <1>2, <1>7, AppendProperties
  <2>2. \A q \in 1 .. p : Kept'[q] = Append(Kept, e)[q]
    BY <1>2, <1>4, <1>6, <2>1
  <2> QED BY <1>6, <2>1, <2>2, SeqEqual
<1>9. ~Abs!Has(call.key)
  BY <1>1, NotFound
<1> QED BY <1>1, <1>8, <1>9 DEF Abs!Answer, Abs!Add

LEMMA VisitedAnswers == ASSUME Inv, Visited PROVE Abs!Answer
<1>1. /\ pc = "list" /\ call.op = "list" /\ current = Null /\ Return(result) /\ UNCHANGED nodes
  BY DEF Visited
<1>2. Len(result) = Len(nodes) /\ \A i \in 1 .. Len(result) : result[i] = Content(i)
  BY <1>1 DEF Inv, Walk
<1>3. result \in Seq(Element)
  BY DEF Inv, TypeOK, Element
<1>4. result = Kept
  <2>1. /\ Kept \in Seq(Element) /\ Len(Kept) = Len(nodes)
        /\ \A i \in 1 .. Len(nodes) : Kept[i] = Content(i)
    BY KeptFacts DEF Inv
  <2> HIDE DEF Kept, Element
  <2> QED BY <1>2, <1>3, <2>1, SeqEqual
<1> QED BY <1>1, <1>4, ReturnsAnswer

LEMMA GetEndAnswers == ASSUME Inv, GetEnd PROVE Abs!Answer
<1>1. /\ pc = "list" /\ call.op \in {"first", "last"} /\ UNCHANGED nodes
      /\ Return(Value(IF call.op = "first" THEN first ELSE end))
  BY DEF GetEnd
<1>2. first = (IF nodes = <<>> THEN Null ELSE 1) /\ end = Len(nodes)
  BY DEF Inv, Linked
<1>3. /\ Len(Kept) = Len(nodes) /\ Len(nodes) \in Nat /\ (Kept = <<>> <=> Len(nodes) = 0)
      /\ \A p \in 1 .. Len(nodes) : Kept[p] = Content(p)
      /\ (nodes = <<>> <=> Len(nodes) = 0)
  <2>1. nodes = <<>> <=> Len(nodes) = 0
    BY EmptySeq DEF Inv, TypeOK
  <2> QED BY <2>1, KeptFacts DEF Inv
<1>4. CASE call.op = "first"
  <2>1. Value(first) = IF Kept = <<>> THEN <<>> ELSE <<Kept[1]>>
    BY <1>2, <1>3 DEF Value, Null
  <2> QED BY <1>1, <1>4, <2>1, ReturnsAnswer
<1>5. CASE call.op = "last"
  <2>1. Value(end) = IF Kept = <<>> THEN <<>> ELSE <<Kept[Len(Kept)]>>
    BY <1>2, <1>3 DEF Value, Null
  <2> QED BY <1>1, <1>5, <2>1, ReturnsAnswer
<1> QED BY <1>1, <1>4, <1>5

(* A step along a chain or the queue is none of the abstract list.          *)
LEMMA WalkStutters == ASSUME FollowChain \/ Visit \/ UNCHANGED vars PROVE UNCHANGED Abs!vars
BY KeptUnchanged DEF FollowChain, Visit, vars, Abs!vars

LEMMA RefinementNext == Inv /\ [Next]_vars => [Abs!Ask \/ Abs!Answer]_(Abs!vars)
<1> SUFFICES ASSUME Inv, [Next]_vars PROVE [Abs!Ask \/ Abs!Answer]_(Abs!vars)
  OBVIOUS
<1>1. CASE Call
  <2>1. Kept' = Kept /\ pc' # "idle" /\ pc = "idle" /\ result' = <<>> /\ call' \in Calls
    BY <1>1, KeptUnchanged DEF Call
  <2> QED BY <2>1 DEF Abs!Ask
<1>2. CASE FollowChain \/ Visit \/ UNCHANGED vars
  BY <1>2, WalkStutters
<1>3. CASE Found
  BY <1>3, FoundAnswers
<1>4. CASE NotThere
  BY <1>4, NotFound, ReturnsAnswer DEF NotThere
<1>5. CASE Insert
  BY <1>5, InsertAnswers
<1>6. CASE Visited
  BY <1>6, VisitedAnswers
<1>7. CASE GetEnd
  BY <1>7, GetEndAnswers
<1>8. CASE Refused
  <2>1. pc = "find" /\ call.op = "add" /\ UNCHANGED nodes /\ ~Abs!Has(call.key)
    BY <1>8, NotFound DEF Refused
  <2>2. CASE "drop" \in OnRefusal /\ Return(<<>>)
    BY <2>1, <2>2, ReturnsAnswer
  <2>3. CASE pc' = "crashed" /\ UNCHANGED <<call, current, result>>
    BY <2>1, <2>3, KeptUnchanged DEF Abs!vars
  <2> QED BY <1>8, <2>2, <2>3 DEF Refused
<1> QED BY <1>1, <1>2, <1>3, <1>4, <1>5, <1>6, <1>7, <1>8 DEF Next, Proceed

(* For any keys, any hash function and any number of buckets, the lists are *)
(* maps that keep the first value of a key and the order of the keys.       *)
THEOREM ListKeepsFirst == Spec => KeepsFirst
<1>1. Init => Abs!Init
  BY RefinementInit
<1>2. Inv /\ [Next]_vars => [Abs!Ask \/ Abs!Answer]_(Abs!vars)
  BY RefinementNext
<1> QED BY <1>1, <1>2, Invariant, PTL DEF Spec, KeepsFirst, Abs!Spec
-----------------------------------------------------------------------------
(* What is left of a call: the nodes its cursor can still come to, and the  *)
(* return.                                                                  *)
Left == CASE pc = "find" -> 1 + current
          [] pc = "list" -> 1 + (IF current = Null THEN 0 ELSE Len(nodes) + 1 - current)
          [] OTHER       -> 0

LEMMA LeftFalls == ASSUME Inv, Proceed \/ Refused PROVE Left' < Left
<1>1. current \in 0 .. Len(nodes) /\ Len(nodes) \in Nat
  BY NodeTypes DEF Inv
<1>2. CASE FollowChain
  <2>1. /\ pc = "find" /\ pc' = "find" /\ current' = nodes[current].hash_next
        /\ current \in 1 .. Len(nodes)
    BY <1>1, <1>2 DEF FollowChain, Null
  <2>2. current' < current /\ current' \in Nat
    BY <2>1, NodeTypes DEF Inv, Linked, Newest
  <2> QED BY <1>1, <2>1, <2>2 DEF Left
<1>3. CASE Visit
  <2>1. /\ pc = "list" /\ pc' = "list" /\ current' = nodes[current].next /\ nodes' = nodes
        /\ current \in 1 .. Len(nodes)
    BY <1>1, <1>3 DEF Visit, Null
  <2>2. current' = IF current = Len(nodes) THEN 0 ELSE current + 1
    BY <2>1 DEF Inv, Linked, Null
  <2> QED BY <1>1, <2>1, <2>2 DEF Left, Null
<1>4. CASE Found \/ NotThere \/ Insert \/ Visited \/ GetEnd \/ Refused
  <2>1. pc \in {"find", "list"} /\ pc' \in {"idle", "crashed"}
    BY <1>4 DEF Found, NotThere, Insert, Visited, GetEnd, Refused, Return
  <2>2. Left > 0 /\ Left' = 0
    BY <1>1, <2>1 DEF Left, Null
  <2> QED BY <2>2
<1> QED BY <1>2, <1>3, <1>4 DEF Proceed

(* Whatever the list holds, a call returns after one step for each node at  *)
(* the most: every step of it leaves less to do, and links never lead back  *)
(* (hash_list_find_node_priv, HashListLinearLoop).                          *)
THEOREM CallsGetOn ==
  Spec => /\ [](Left \in 0 .. Len(nodes) + 1)
          /\ [][pc # "idle" => Left' < Left]_vars
<1>1. Inv => Left \in 0 .. Len(nodes) + 1
  <2> SUFFICES ASSUME Inv PROVE Left \in 0 .. Len(nodes) + 1
    OBVIOUS
  <2>1. current \in 0 .. Len(nodes) /\ Len(nodes) \in Nat
    BY NodeTypes DEF Inv
  <2> QED BY <2>1 DEF Left, Null
<1>2. Inv /\ [Next]_vars => [pc # "idle" => Left' < Left]_vars
  BY LeftFalls DEF Next, Call
<1> QED BY <1>1, <1>2, Invariant, PTL DEF Spec
=============================================================================
