--------------------------- MODULE EventLoopProofs ---------------------------
(* The proofs about the event loop, for any number of clients, any requests *)
(* and answers, and any faults, if there are descriptors for two clients    *)
(* and a batch holds two events.                                            *)
EXTENDS EventLoop, LeastNumber, FiniteSetTheorems, SequenceTheorems, TLAPS

(* Who waits to be accepted waits once.                                     *)
Queue ==
  /\ \A i \in 1 .. Len(backlog) : conn[backlog[i]].phase = "queued"
  /\ \A i, j \in 1 .. Len(backlog) : backlog[i] = backlog[j] => i = j

(* A connection is open where one descriptor in the epoll set has it.       *)
Held ==
  /\ \A c \in Clients : conn[c].phase = "open" => \E f \in Fds : owner[f] = c
  /\ \A f \in Open : conn[owner[f]].phase = "open"
  /\ \A f, g \in Open : owner[f] = owner[g] => f = g
  /\ interest = Open

(* A batch has at most one event of a client, of the connection that is     *)
(* open at its descriptor, and one of the listener, which was reported      *)
(* together with all that were open.                                        *)
Events ==
  /\ EventIsFresh
  /\ \A i, j \in 1 .. Len(batch) : batch[i].fd = batch[j].fd => i = j
  /\ \A i, j \in 1 .. Len(batch) : batch[i].fd # Srv /\ batch[j].fd # Srv => i = j
  /\ \A i \in 1 .. Len(batch) :
       batch[i].fd = Srv => backlog # <<>> /\ Open \subseteq Reported
  /\ pc \in {"write", "close"} => Head(batch).fd # Srv

(* At most one connection was accepted in this round or, between rounds, is *)
(* open, and it has an event to report.                                     *)
Late == Open \ Reported
Turn == /\ \A f, g \in Late : f = g
        /\ Late \subseteq armed

Inv == TypeOK /\ Queue /\ Held /\ Events /\ Turn /\ StopExplained
-----------------------------------------------------------------------------
(* The descriptor that accept returns was free.                             *)
LEMMA LowestIsFree ==
  ASSUME FreeFds # {}
  PROVE  Lowest(FreeFds) \in FreeFds
<1>1. FreeFds \in SUBSET Nat
  BY EventLoopAssumption DEF FreeFds
<1>2. \E f \in FreeFds : \A g \in FreeFds : f <= g
  BY <1>1, LeastExists
<1> QED BY <1>2 DEF Lowest

(* What is left of the batch behind its first event.                        *)
LEMMA TailOfBatch ==
  ASSUME TypeOK, batch # <<>>, batch' = Tail(batch)
  PROVE  /\ batch' \in Seq([fd : Fds \cup {Srv}, who : Clients \cup {Nobody}])
         /\ Len(batch') = Len(batch) - 1
         /\ \A i \in 1 .. Len(batch') : i + 1 \in 1 .. Len(batch) /\ batch'[i] = batch[i + 1]
         /\ Head(batch) = batch[1] /\ 1 \in 1 .. Len(batch)
         /\ Head(batch) \in [fd : Fds \cup {Srv}, who : Clients \cup {Nobody}]
         /\ batch' = <<>> <=> Len(batch) = 1
<1> DEFINE E == [fd : Fds \cup {Srv}, who : Clients \cup {Nobody}]
<1>1. batch \in Seq(E)
  BY DEF TypeOK
<1> HIDE DEF E
<1>2. /\ Head(batch) \in E /\ Tail(batch) \in Seq(E)
      /\ Len(Tail(batch)) = Len(batch) - 1
      /\ \A i \in 1 .. Len(Tail(batch)) : Tail(batch)[i] = batch[i + 1]
  BY <1>1, HeadTailProperties
<1>3. Len(batch) \in Nat /\ Head(batch) = batch[1] /\ Len(batch) > 0
  BY <1>1
<1>4. Tail(batch) = <<>> <=> Len(batch) = 1
  <2>1. \A seq \in Seq(E) : seq # <<>> => Len(seq) \in Nat \ {0}
    BY EmptySeq
  <2>2. Len(Tail(batch)) = 0 <=> Tail(batch) = <<>>
    BY <1>2, <2>1
  <2> QED BY <1>2, <1>3, <2>2
<1> QED BY <1>2, <1>3, <1>4 DEF E

(* Str: a part of a sequence is one of the same kind.                       *)
LEMMA SubstrType ==
  ASSUME NEW s \in Seq(Nat), NEW a \in Int, NEW b \in Int
  PROVE  Substr(s, a, b) \in Seq(Nat)
<1> DEFINE from == IF a < 0 THEN Len(s) + a ELSE a
           to   == IF b < 0 THEN Len(s) + b ELSE b
           m    == Larger(from, 0) + 1
           n    == Smaller(to, Len(s))
<1>1. /\ m \in Int /\ n \in Int
      /\ \A i \in m .. n : i \in 1 .. Len(s)
  BY DEF Larger, Smaller
<1>2. \A i \in 1 .. Len(s) : s[i] \in Nat
  BY ElementOfSeq
<1> HIDE DEF m, n
<1>3. SubSeq(s, m, n) \in Seq(Nat)
  BY <1>1, <1>2, SubSeqProperties
<1> QED BY <1>3 DEF Substr, m, n
-----------------------------------------------------------------------------
(* Every action keeps the types.                                            *)
LEMMA InitType == Init => TypeOK
<1> SUFFICES ASSUME Init PROVE TypeOK
  OBVIOUS
<1>1. <<>> \in Seq(Nat) /\ <<>> \in Seq(Clients) /\ <<>> \in Seq(Seq(Nat))
  OBVIOUS
<1>2. <<>> \in Seq([fd : Fds \cup {Srv}, who : Clients \cup {Nobody}])
  OBVIOUS
<1>3. conn \in [Clients -> Connection]
  BY <1>1 DEF Init, Connection
<1> QED BY <1>1, <1>2, <1>3 DEF Init, TypeOK

LEMMA EdgeType ==
  ASSUME TypeOK, NEW c \in Clients, Acts(c), conn' \in [Clients -> Connection]
  PROVE  TypeOK'
BY DEF TypeOK, Acts, Edge, answer

(* A step that changes one connection leaves the others what they were.     *)
LEMMA OneConnection ==
  ASSUME conn \in [Clients -> Connection], NEW c \in Clients, NEW r \in Connection
  PROVE  [conn EXCEPT ![c] = r] \in [Clients -> Connection]
OBVIOUS

LEMMA ClientTypes ==
  ASSUME TypeOK, NEW c \in Clients, Connect(c) \/ Send(c) \/ Receive(c) \/ Leave(c)
  PROVE  TypeOK'
<1>1. CASE Connect(c)
  <2>1. conn' \in [Clients -> Connection]
    <3>1. [conn[c] EXCEPT !.phase = "queued"] \in Connection
      BY DEF TypeOK, Connection
    <3> QED BY <1>1, <3>1, OneConnection DEF TypeOK, Connect
  <2>2. backlog' \in Seq(Clients)
    BY <1>1 DEF TypeOK, Connect
  <2> QED BY <1>1, <2>1, <2>2 DEF TypeOK, Connect, answer
<1>2. CASE Send(c)
  <2>1. conn' = [conn EXCEPT ![c].sent = @ + 1] /\ conn \in [Clients -> Connection]
    BY <1>2 DEF TypeOK, Send
  <2>2. [conn[c] EXCEPT !.sent = @ + 1] \in Connection
    <3>1. conn[c] \in Connection /\ conn[c].sent + 1 \in Nat
      BY <2>1 DEF Connection
    <3> QED BY <3>1 DEF Connection
  <2>3. conn' \in [Clients -> Connection]
    BY <2>1, <2>2
  <2> QED BY <1>2, <2>3, EdgeType DEF Send
<1>3. CASE Receive(c)
  <2>1. conn[c].tx \in Seq(Nat) /\ conn[c].seen \in Seq(Nat) /\ conn[c].tx # <<>>
    BY <1>3 DEF TypeOK, Receive, Connection
  <2>2. Tail(conn[c].tx) \in Seq(Nat) /\ Append(conn[c].seen, Head(conn[c].tx)) \in Seq(Nat)
    BY <2>1
  <2>3. conn' \in [Clients -> Connection]
    <3>1. [conn[c] EXCEPT !.seen = Append(@, Head(conn[c].tx)), !.tx = Tail(@)] \in Connection
      <4>1. conn[c] \in Connection
        BY DEF TypeOK
      <4> QED BY <2>2, <4>1 DEF Connection
    <3> QED BY <1>3, <3>1, OneConnection DEF TypeOK, Receive
  <2> QED BY <1>3, <2>3, EdgeType DEF Receive
<1>4. CASE Leave(c)
  <2>1. conn' \in [Clients -> Connection]
    <3>1. [conn[c] EXCEPT !.left = TRUE] \in Connection
      BY DEF TypeOK, Connection
    <3> QED BY <1>4, <3>1, OneConnection DEF TypeOK, Leave
  <2> QED BY <1>4, <2>1, EdgeType DEF Leave
<1> QED BY <1>1, <1>2, <1>3, <1>4

LEMMA ClosedType == ASSUME NEW r \in Connection PROVE Closed(r) \in Connection
<1>1. <<>> \in Seq(Nat)
  OBVIOUS
<1> QED BY <1>1 DEF Closed, Connection

LEMMA ExitType ==
  ASSUME TypeOK, NEW reason, reason \in Faults \cup {"again", "emfile"}, Exit(reason)
  PROVE  TypeOK'
<1>1. conn' \in [Clients -> Connection]
  <2>1. ASSUME NEW c \in Clients
        PROVE  /\ Closed(conn[c]) \in Connection
               /\ [conn[c] EXCEPT !.phase = "reset"] \in Connection
               /\ conn[c] \in Connection
    <3>1. conn[c] \in Connection
      BY DEF TypeOK
    <3>2. [conn[c] EXCEPT !.phase = "reset"] \in Connection
      BY <3>1 DEF Connection
    <3> QED BY <3>1, <3>2, ClosedType
  <2> QED BY <2>1 DEF Exit
<1>2. <<>> \in Seq(Clients) /\ <<>> \in Seq(Seq(Nat))
  OBVIOUS
<1>3. <<>> \in Seq([fd : Fds \cup {Srv}, who : Clients \cup {Nobody}])
  OBVIOUS
<1> QED BY <1>1, <1>2, <1>3 DEF TypeOK, Exit

(* epoll_wait: what a batch is.                                             *)
LEMMA BatchType ==
  ASSUME TypeOK, Poll
  PROVE  \E n \in Nat : \E order \in [1 .. n -> Ready] :
           /\ n = Smaller(Cardinality(Ready), MaxEvents) /\ n > 0
           /\ \A i, j \in 1 .. n : i # j => order[i] # order[j]
           /\ Len(batch') = n
           /\ batch' \in Seq([fd : Fds \cup {Srv}, who : Clients \cup {Nobody}])
           /\ \A i \in 1 .. n :
                batch'[i] = [fd |-> order[i],
                             who |-> IF order[i] = Srv THEN Nobody ELSE owner[order[i]]]
<1> DEFINE n == Smaller(Cardinality(Ready), MaxEvents)
           E == [fd : Fds \cup {Srv}, who : Clients \cup {Nobody}]
<1>1. IsFiniteSet(Ready) /\ Ready \subseteq Fds \cup {Srv} /\ Ready # {}
  <2>1. IsFiniteSet(armed)
    BY EventLoopAssumption, FS_Subset DEF TypeOK
  <2>2. IsFiniteSet({Srv}) /\ IsFiniteSet({})
    BY FS_Singleton, FS_EmptySet
  <2> QED BY <2>1, <2>2, FS_Union DEF Ready, TypeOK, Poll
<1>2. Cardinality(Ready) \in Nat /\ Cardinality(Ready) # 0
  BY <1>1, FS_CardinalityType, FS_EmptySet
<1>3. n \in Nat /\ n > 0
  BY <1>2, EventLoopAssumption DEF Smaller
<1>4. PICK order \in [1 .. n -> Ready] :
        /\ \A i, j \in 1 .. n : i # j => order[i] # order[j]
        /\ batch' = [i \in 1 .. n |->
                       [fd |-> order[i], who |-> IF order[i] = Srv THEN Nobody ELSE owner[order[i]]]]
  BY DEF Poll, Batches
<1> HIDE DEF n
<1>5. \A i \in 1 .. n : batch'[i] \in E
  BY <1>1, <1>4 DEF TypeOK
<1>6. batch' \in [1 .. n -> E]
  BY <1>4, <1>5
<1>7. batch' \in Seq(E) /\ Len(batch') = n
  <2>1. batch' \in Seq(E)
    <3>1. Seq(E) = UNION {[1 .. k -> E] : k \in Nat}
      BY SeqDef
    <3> HIDE DEF E
    <3> QED BY <1>3, <1>6, <3>1
  <2>2. DOMAIN batch' = 1 .. Len(batch') /\ Len(batch') \in Nat
    BY <2>1, LenProperties
  <2> QED BY <1>3, <1>6, <2>1, <2>2
<1> QED BY <1>3, <1>4, <1>7 DEF n

LEMMA PollType == ASSUME TypeOK, Poll PROVE TypeOK'
<1>1. /\ batch' \in Seq([fd : Fds \cup {Srv}, who : Clients \cup {Nobody}])
      /\ Len(batch') > 0
  BY BatchType
<1>2. batch' # <<>>
  BY <1>1
<1> QED BY <1>1, <1>2 DEF TypeOK, Poll, answer

LEMMA AcceptType == ASSUME TypeOK, Accept PROVE TypeOK'
<1> DEFINE c == Head(backlog)
           f == Lowest(FreeFds)
<1>1. c \in Clients /\ Tail(backlog) \in Seq(Clients)
  BY DEF TypeOK, Accept
<1>2. f \in FreeFds /\ f \in Fds
  BY LowestIsFree DEF Accept, FreeFds
<1>3. /\ conn' = [conn EXCEPT ![c].phase = "open"] /\ owner' = [owner EXCEPT ![f] = c]
      /\ interest' = interest \cup {f} /\ armed' = armed \cup {f}
      /\ backlog' = Tail(backlog) /\ batch' = Tail(batch) /\ batch # <<>>
      /\ pc' = IF Len(batch) = 1 THEN "poll" ELSE "handle"
      /\ pc = "handle" /\ UNCHANGED <<answer, why>>
  BY DEF Accept, Watch, NextEvent, OnListener, TypeOK
<1> HIDE DEF c, f
<1>4. conn' \in [Clients -> Connection] /\ owner' \in [Fds -> Clients \cup {Nobody}]
  <2>1. [conn[c] EXCEPT !.phase = "open"] \in Connection
    BY <1>1 DEF TypeOK, Connection
  <2>2. conn' \in [Clients -> Connection]
    BY <1>1, <1>3, <2>1, OneConnection DEF TypeOK
  <2>3. owner' \in [Fds -> Clients \cup {Nobody}]
    BY <1>1, <1>2, <1>3 DEF TypeOK
  <2> QED BY <2>2, <2>3
<1> QED BY <1>1, <1>2, <1>3, <1>4, TailOfBatch DEF TypeOK, answer

LEMMA ReadType == ASSUME TypeOK, ReadRequest PROVE TypeOK'
<1> DEFINE c == owner[Head(batch).fd]
<1>1. conn' \in [Clients -> Connection]
  <2>1. c \in Clients /\ conn' = [conn EXCEPT ![c].got = conn[c].sent]
    <3>1. batch # <<>> /\ Head(batch).fd \in Fds
      <4>1. batch # <<>> /\ Head(batch).fd # Srv
        BY DEF ReadRequest, OnClient, TypeOK
      <4>2. Head(batch) \in [fd : Fds \cup {Srv}, who : Clients \cup {Nobody}]
        <5> DEFINE R == [fd : Fds \cup {Srv}, who : Clients \cup {Nobody}]
        <5>1. batch \in Seq(R)
          BY DEF TypeOK
        <5> HIDE DEF R
        <5>2. Head(batch) \in R
          BY <4>1, <5>1
        <5> QED BY <5>2 DEF R
      <4> QED BY <4>1, <4>2
    <3>2. c # Nobody /\ conn' = [conn EXCEPT ![c].got = conn[c].sent]
      BY DEF ReadRequest
    <3>3. owner \in [Fds -> Clients \cup {Nobody}]
      BY DEF TypeOK
    <3> QED BY <3>1, <3>2, <3>3
  <2> HIDE DEF c
  <2>2. [conn[c] EXCEPT !.got = conn[c].sent] \in Connection
    BY <2>1 DEF TypeOK, Connection
  <2> QED BY <2>1, <2>2, OneConnection DEF TypeOK
<1>2. parts' \in Seq(Seq(Nat))
  <2>1. Header \in Seq(Nat) /\ File \in Seq(Nat) /\ Page \in Seq(Nat)
    BY EventLoopAssumption
  <2>2. /\ <<Header, File>> \in Seq(Seq(Nat)) /\ <<Header, Page>> \in Seq(Seq(Nat))
        /\ <<Header>> \in Seq(Seq(Nat)) /\ <<>> \in Seq(Seq(Nat))
    BY <2>1
  <2>3. parts' \in {<<Header, File>>, <<Header, Page>>, <<Header>>, <<>>}
    BY DEF ReadRequest, Answers
  <2> QED BY <2>2, <2>3
<1> QED BY <1>1, <1>2 DEF ReadRequest, OnClient, TypeOK, kernel

LEMMA NextPartType ==
  ASSUME TypeOK, pc = "write", NextPart, UNCHANGED <<kernel, batch, why>>,
         conn' \in [Clients -> Connection]
  PROVE  TypeOK'
<1>1. parts # <<>> /\ parts \in Seq(Seq(Nat))
  BY DEF TypeOK
<1>2. /\ Tail(parts) \in Seq(Seq(Nat)) /\ Len(Tail(parts)) = Len(parts) - 1
      /\ Len(parts) \in Nat
  BY <1>1
<1>3. Tail(parts) = <<>> <=> Len(parts) = 1
  <2> DEFINE S == Seq(Nat)
  <2>1. \A seq \in Seq(S) : seq # <<>> => Len(seq) \in Nat \ {0}
    BY EmptySeq
  <2> HIDE DEF S
  <2>2. Tail(parts) \in Seq(S) /\ Len(Tail(parts)) = Len(parts) - 1 /\ Len(parts) \in Nat
    BY <1>2 DEF S
  <2>3. Len(Tail(parts)) = 0 <=> Tail(parts) = <<>>
    BY <2>1, <2>2
  <2> QED BY <2>2, <2>3
<1> QED BY <1>1, <1>2, <1>3 DEF TypeOK, NextPart, kernel

(* What write(2) takes.                                                     *)
LEMMA WriteTypes ==
  ASSUME TypeOK, pc = "write", NEW c \in Clients
  PROVE  /\ Slice \in Seq(Nat) /\ Head(parts) \in Seq(Nat)
         /\ Fits(c) \in Int /\ Fits(c) <= Len(Slice)
         /\ Fits(c) > 0 => SubSeq(Slice, 1, Fits(c)) \in Seq(Nat)
         /\ conn[c].tx \in Seq(Nat) /\ conn[c].seen \in Seq(Nat)
<1>1. Head(parts) \in Seq(Nat) /\ offset \in Nat
  BY DEF TypeOK
<1>2. Slice \in Seq(Nat)
  BY <1>1, SubstrType DEF Slice
<1>3. conn[c].tx \in Seq(Nat) /\ conn[c].seen \in Seq(Nat)
  BY DEF TypeOK, Connection
<1>4. Fits(c) \in Int /\ Fits(c) <= Len(Slice)
  <2>1. Len(Slice) \in Nat /\ Len(conn[c].tx) \in Nat
    BY <1>2, <1>3
  <2>2. SndBuf \in Nat
    BY EventLoopAssumption
  <2> QED BY <2>1, <2>2 DEF Fits, Smaller
<1>5. Fits(c) > 0 => SubSeq(Slice, 1, Fits(c)) \in Seq(Nat)
  <2>1. \A i \in 1 .. Fits(c) : Slice[i] \in Nat
    BY <1>2, <1>4
  <2> QED BY <2>1, <1>4, SubSeqProperties
<1> QED BY <1>1, <1>2, <1>3, <1>4, <1>5

LEMMA WriteType ==
  ASSUME TypeOK, Write, owner[Head(batch).fd] \in Clients
  PROVE  TypeOK'
<1> DEFINE c == owner[Head(batch).fd]
           n == Fits(c)
<1>1. conn' \in [Clients -> Connection]
  <2>1. conn[c].tx \o SubSeq(Slice, 1, n) \in Seq(Nat)
    BY WriteTypes, ConcatProperties DEF Write
  <2>2. (conn[c].stalled \/ n < Len(Slice)) \in BOOLEAN
    BY DEF TypeOK, Connection
  <2>3. conn' = [conn EXCEPT ![c].tx = @ \o SubSeq(Slice, 1, n),
                             ![c].stalled = @ \/ n < Len(Slice)]
    BY DEF Write
  <2>4. c \in Clients /\ conn \in [Clients -> Connection]
    BY DEF TypeOK
  <2> HIDE DEF c, n
  <2>5. [conn[c] EXCEPT !.tx = @ \o SubSeq(Slice, 1, n), !.stalled = @ \/ n < Len(Slice)]
          \in Connection
    <3> DEFINE t == conn[c].tx \o SubSeq(Slice, 1, n)
               d == conn[c].stalled \/ n < Len(Slice)
    <3>1. conn[c] \in Connection /\ t \in Seq(Nat) /\ d \in BOOLEAN
      BY <2>1, <2>2, <2>4
    <3>2. [conn[c] EXCEPT !.tx = @ \o SubSeq(Slice, 1, n), !.stalled = @ \/ n < Len(Slice)]
            = [conn[c] EXCEPT !.tx = t, !.stalled = d]
      OBVIOUS
    <3> HIDE DEF t, d
    <3>3. [conn[c] EXCEPT !.tx = t, !.stalled = d] \in Connection
      BY <3>1 DEF Connection
    <3> QED BY <3>2, <3>3
  <2> QED BY <2>3, <2>4, <2>5
<1>2. CASE offset + n < Len(Head(parts))
  <2>1. offset + n \in Nat
    <3>1. n \in Int
      BY WriteTypes DEF Write
    <3>2. n > 0 /\ offset \in Nat
      BY DEF Write, TypeOK
    <3> HIDE DEF n
    <3> QED BY <3>1, <3>2
  <2> QED BY <1>1, <1>2, <2>1 DEF Write, TypeOK, kernel
<1>3. CASE ~ (offset + n < Len(Head(parts)))
  BY <1>1, <1>3, NextPartType DEF Write
<1> QED BY <1>2, <1>3
-----------------------------------------------------------------------------
(* The rest of the invariant, action by action.                             *)
LEMMA InitInv == Init => Inv
<1> SUFFICES ASSUME Init PROVE Inv
  OBVIOUS
<1> USE DEF Init
<1>1. Open = {} /\ Reported = {}
  BY DEF Open, Reported
<1>2. Queue
  BY DEF Queue
<1>3. Held
  BY <1>1 DEF Held
<1>4. Events
  BY DEF Events, EventIsFresh
<1>5. Turn
  BY <1>1 DEF Turn, Late
<1>6. StopExplained
  BY DEF StopExplained
<1> QED BY <1>2, <1>3, <1>4, <1>5, <1>6, InitType DEF Inv

(* What a client can do to the variables of the loop.                       *)
LEMMA ClientFrame ==
  ASSUME TypeOK, NEW c \in Clients, Connect(c) \/ Send(c) \/ Receive(c) \/ Leave(c)
  PROVE  /\ UNCHANGED <<owner, interest, pc, batch, why>>
         /\ armed \subseteq armed'
         /\ \/ /\ conn[c].phase = "away" /\ backlog' = Append(backlog, c)
               /\ \A d \in Clients : conn'[d].phase = IF d = c THEN "queued" ELSE conn[d].phase
            \/ /\ backlog' = backlog
               /\ \A d \in Clients : conn'[d].phase = conn[d].phase
<1>1. CASE Connect(c)
  BY <1>1 DEF Connect, TypeOK, Connection
<1>2. CASE Send(c)
  BY <1>2 DEF Send, Acts, Edge, TypeOK, Connection
<1>3. CASE Receive(c)
  BY <1>3 DEF Receive, Acts, Edge, TypeOK, Connection
<1>4. CASE Leave(c)
  BY <1>4 DEF Leave, Acts, Edge, TypeOK, Connection
<1> QED BY <1>1, <1>2, <1>3, <1>4

LEMMA ClientKeeps ==
  ASSUME Inv, NEW c \in Clients, Connect(c) \/ Send(c) \/ Receive(c) \/ Leave(c)
  PROVE  Inv'
<1>0. /\ UNCHANGED <<owner, interest, pc, batch, why>> /\ armed \subseteq armed'
      /\ \/ /\ conn[c].phase = "away" /\ backlog' = Append(backlog, c)
            /\ \A d \in Clients : conn'[d].phase = IF d = c THEN "queued" ELSE conn[d].phase
         \/ /\ backlog' = backlog
            /\ \A d \in Clients : conn'[d].phase = conn[d].phase
  BY ClientFrame DEF Inv
<1>1. TypeOK'
  BY ClientTypes DEF Inv
<1>2. /\ \A i \in 1 .. Len(backlog) : backlog[i] \in Clients
      /\ \A f \in Open : owner[f] \in Clients
      /\ backlog \in Seq(Clients)
  BY DEF Inv, TypeOK, Open
<1>3. Queue'
  <2>1. CASE backlog' = Append(backlog, c) /\ conn[c].phase = "away"
    <3>1. /\ Len(backlog') = Len(backlog) + 1 /\ Len(backlog) \in Nat
          /\ \A i \in 1 .. Len(backlog) : backlog'[i] = backlog[i]
          /\ backlog'[Len(backlog) + 1] = c
      BY <1>2, <2>1, AppendProperties
    <3>2. \A i \in 1 .. Len(backlog) : backlog[i] # c /\ conn'[backlog[i]].phase = "queued"
      BY <1>0, <1>2, <2>1 DEF Inv, Queue
    <3>3. conn'[c].phase = "queued"
      BY <1>0, <2>1, <3>1
    <3>4. \A i \in 1 .. Len(backlog') : conn'[backlog'[i]].phase = "queued"
      BY <3>1, <3>2, <3>3
    <3>5. \A i, j \in 1 .. Len(backlog') : backlog'[i] = backlog'[j] => i = j
      BY <3>1, <3>2 DEF Inv, Queue
    <3> QED BY <3>4, <3>5 DEF Queue
  <2>2. CASE backlog' = backlog /\ \A d \in Clients : conn'[d].phase = conn[d].phase
    BY <1>2, <2>2 DEF Inv, Queue
  <2> QED BY <1>0, <2>1, <2>2
<1>4. Open' = Open /\ Reported' = Reported
  BY <1>0 DEF Open, Reported
<1>5. Held'
  <2>1. \A d \in Clients : conn'[d].phase = "open" <=> conn[d].phase = "open"
    BY <1>0
  <2> QED BY <1>0, <1>2, <1>4, <2>1 DEF Inv, Held
<1>6. Events'
  <2>1. backlog # <<>> => backlog' # <<>>
    BY <1>0, <1>2
  <2>2. EventIsFresh'
    BY <1>0 DEF Inv, Events, EventIsFresh
  <2> QED BY <1>0, <1>4, <2>1, <2>2 DEF Inv, Events
<1>7. Turn'
  BY <1>0, <1>4 DEF Inv, Turn, Late
<1>8. StopExplained'
  BY <1>0 DEF Inv, StopExplained
<1> QED BY <1>1, <1>3, <1>5, <1>6, <1>7, <1>8 DEF Inv

LEMMA ExitKeeps ==
  ASSUME Inv, NEW reason \in Faults, Exit(reason)
  PROVE  Inv'
<1>1. TypeOK'
  BY ExitType DEF Inv
<1>2. /\ owner' = [f \in Fds |-> Nobody] /\ backlog' = <<>> /\ batch' = <<>>
      /\ interest' = {} /\ armed' = {} /\ pc' = "stopped" /\ why' = reason
  BY DEF Exit
<1>3. Open' = {} /\ Reported' = {}
  BY <1>2 DEF Open, Reported
<1>4. \A c \in Clients : conn'[c].phase # "open"
  BY DEF Exit, Closed, Inv, TypeOK, Connection
<1>5. Queue' /\ Held'
  BY <1>2, <1>3, <1>4 DEF Queue, Held
<1>6. Events' /\ Turn'
  BY <1>2, <1>3 DEF Events, EventIsFresh, Turn, Late
<1>7. StopExplained'
  BY <1>2 DEF StopExplained
<1> QED BY <1>1, <1>5, <1>6, <1>7 DEF Inv

(* What the next event is about.                                            *)
LEMMA FirstEvent ==
  ASSUME Inv, batch # <<>>
  PROVE  /\ Head(batch) = batch[1] /\ 1 \in 1 .. Len(batch) /\ Len(batch) \in Nat
         /\ Head(batch).fd \in Reported
         /\ Head(batch).fd # Srv => /\ Head(batch).fd \in Open
                                    /\ owner[Head(batch).fd] \in Clients
<1>1. batch \in Seq([fd : Fds \cup {Srv}, who : Clients \cup {Nobody}])
  BY DEF Inv, TypeOK
<1>2. Head(batch) = batch[1] /\ 1 \in 1 .. Len(batch) /\ Len(batch) \in Nat
  BY <1>1
<1>3. batch[1].fd \in Fds \cup {Srv}
  <2>1. batch[1] \in [fd : Fds \cup {Srv}, who : Clients \cup {Nobody}]
    BY <1>1, <1>2, ElementOfSeq
  <2> QED BY <2>1
<1>4. batch[1].fd # Srv => owner[batch[1].fd] # Nobody
  BY <1>2 DEF Inv, Events, EventIsFresh
<1> QED BY <1>2, <1>3, <1>4 DEF Reported, Open, Inv, TypeOK

(* No arrival can make accept fail.                                         *)
LEMMA AcceptCan ==
  ASSUME Inv, OnListener
  PROVE  /\ backlog # <<>> /\ Open \subseteq Reported
         /\ \A f, g \in Open : f = g
         /\ FreeFds # {}
<1>1. batch # <<>>
  BY DEF OnListener, Inv, TypeOK
<1>2. backlog # <<>> /\ Open \subseteq Reported
  BY <1>1, FirstEvent DEF OnListener, Inv, Events
<1>3. \A f, g \in Open : f = g
  <2> SUFFICES ASSUME NEW f \in Open, NEW g \in Open
               PROVE  f = g
    OBVIOUS
  <2>1. f # Srv /\ g # Srv
    BY EventLoopAssumption DEF Open
  <2>2. PICK i \in 1 .. Len(batch) : batch[i].fd = f
    BY <1>2 DEF Reported
  <2>3. PICK j \in 1 .. Len(batch) : batch[j].fd = g
    BY <1>2 DEF Reported
  <2>4. i = j
    BY <2>1, <2>2, <2>3 DEF Inv, Events
  <2> QED BY <2>2, <2>3, <2>4
<1>4. FreeFds # {}
  BY <1>3, TwoDescriptors DEF Open, FreeFds
<1> QED BY <1>2, <1>3, <1>4

LEMMA AcceptFailsKeeps == ASSUME Inv, AcceptFails PROVE Inv'
<1>1. PICK reason \in AcceptFailures : Exit(reason)
  BY DEF AcceptFails
<1>2. reason \in Faults
  BY <1>1, AcceptCan DEF AcceptFails, AcceptFailures
<1> QED BY <1>1, <1>2, ExitKeeps

LEMMA PollKeeps == ASSUME Inv, Poll PROVE Inv'
<1>1. TypeOK'
  BY PollType DEF Inv
<1>2. /\ pc = "poll" /\ batch = <<>> /\ pc' = "handle" /\ Ready # {}
      /\ armed' = armed \ Reported' /\ UNCHANGED <<conn, backlog, owner, interest, why>>
  BY DEF Poll, Reported, Inv, TypeOK
<1>3. Reported = {} /\ Late = Open /\ Open' = Open
  BY <1>2 DEF Reported, Late, Open
<1>4. armed = Open /\ \A f, g \in armed : f = g
  BY <1>3 DEF Inv, Turn, Held, TypeOK
<1>5. PICK n \in Nat : \E order \in [1 .. n -> Ready] :
           /\ n = Smaller(Cardinality(Ready), MaxEvents) /\ n > 0
           /\ \A i, j \in 1 .. n : i # j => order[i] # order[j]
           /\ Len(batch') = n
           /\ \A i \in 1 .. n :
                batch'[i] = [fd |-> order[i],
                             who |-> IF order[i] = Srv THEN Nobody ELSE owner[order[i]]]
  BY BatchType DEF Inv
<1>6. PICK order \in [1 .. n -> Ready] :
           /\ n = Smaller(Cardinality(Ready), MaxEvents) /\ n > 0
           /\ \A i, j \in 1 .. n : i # j => order[i] # order[j]
           /\ Len(batch') = n
           /\ \A i \in 1 .. n :
                batch'[i] = [fd |-> order[i],
                             who |-> IF order[i] = Srv THEN Nobody ELSE owner[order[i]]]
  BY <1>5
<1>7. Reported' = {order[i] : i \in 1 .. n}
  BY <1>6 DEF Reported
<1>8. Srv \notin armed /\ armed \subseteq Fds
  BY EventLoopAssumption DEF Inv, TypeOK
(* At most two descriptors are ready, and a batch has room for both.        *)
<1>9. Reported' = Ready
  <2>0. 1 \in 1 .. n /\ order[1] \in Ready /\ Reported' \subseteq Ready
    BY <1>6, <1>7
  <2>1. CASE Ready = {Srv}
    BY <1>7, <2>0, <2>1
  <2>2. CASE Ready = armed
    BY <1>4, <1>7, <2>0, <2>2
  <2>3. CASE armed # {} /\ Srv \in Ready
    <3>1. PICK f : f \in armed
      BY <2>3
    <3>2. Ready = {f} \cup {Srv} /\ Srv # f
      BY <1>4, <1>8, <2>3, <3>1 DEF Ready
    <3>3. Cardinality(Ready) = 2
      <4>1. IsFiniteSet({f}) /\ Cardinality({f}) = 1
        BY FS_Singleton
      <4>2. Cardinality({f} \cup {Srv}) = Cardinality({f}) + 1
        BY <3>2, <4>1, FS_AddElement, ZenonT(60)
      <4> QED BY <3>2, <4>1, <4>2
    <3>4. n >= 2
      BY <1>6, <3>3, EventLoopAssumption DEF Smaller
    <3>5. order[1] # order[2] /\ order[1] \in Ready /\ order[2] \in Ready
      BY <1>6, <3>4
    <3> QED BY <1>7, <3>2, <3>4, <3>5
  <2> QED BY <2>1, <2>2, <2>3 DEF Ready
<1>10. /\ \A i \in 1 .. n : batch'[i].fd = order[i] /\ order[i] \in Ready
       /\ \A i \in 1 .. n : order[i] # Srv => batch'[i].who = owner[order[i]] /\ order[i] \in armed
  <2>1. Ready \subseteq armed \cup {Srv}
    BY DEF Ready
  <2>2. \A i \in 1 .. n : order[i] \in Ready
    BY <1>6
  <2>3. \A i \in 1 .. n : /\ batch'[i].fd = order[i]
                          /\ order[i] # Srv => batch'[i].who = owner[order[i]]
    BY <1>6
  <2> QED BY <2>1, <2>2, <2>3
<1>11. EventIsFresh'
  BY <1>2, <1>4, <1>6, <1>10 DEF EventIsFresh, Open
<1>12. Events'
  <2>1. \A i, j \in 1 .. n : order[i] = order[j] => i = j
    BY <1>6
  <2>2. \A i, j \in 1 .. n : order[i] # Srv /\ order[j] # Srv => i = j
    BY <1>4, <1>10, <2>1
  <2>3. Srv \in Ready => backlog # <<>>
    BY <1>8 DEF Ready
  <2>4. Open' \subseteq Reported'
    BY <1>3, <1>4, <1>9 DEF Ready
  <2> QED BY <1>2, <1>6, <1>10, <1>11, <2>1, <2>2, <2>3, <2>4 DEF Events
<1>13. Queue' /\ Held' /\ StopExplained'
  BY <1>2, <1>3 DEF Inv, Queue, Held, StopExplained
<1>14. Turn'
  BY <1>3, <1>4, <1>9 DEF Turn, Late, Ready
<1> QED BY <1>1, <1>12, <1>13, <1>14 DEF Inv

(* What handling the first event leaves of a batch.                         *)
LEMMA NextEventKeeps ==
  ASSUME Inv, batch # <<>>, batch' = Tail(batch),
         \A i \in 2 .. Len(batch) :
           batch[i].fd # Srv => owner'[batch[i].fd] = owner[batch[i].fd],
         \A i \in 2 .. Len(batch) :
           batch[i].fd = Srv => backlog' # <<>> /\ Open' \subseteq Reported',
         pc' \notin {"write", "close"}
  PROVE  Events'
<1>1. /\ Len(batch') = Len(batch) - 1 /\ Len(batch) \in Nat
      /\ \A i \in 1 .. Len(batch') :
           i + 1 \in 2 .. Len(batch) /\ i + 1 \in 1 .. Len(batch) /\ batch'[i] = batch[i + 1]
  BY TailOfBatch, FirstEvent DEF Inv
<1>2. EventIsFresh'
  BY <1>1 DEF Inv, Events, EventIsFresh
<1>3. \A i, j \in 1 .. Len(batch') : batch'[i].fd = batch'[j].fd => i = j
  BY <1>1 DEF Inv, Events
<1>4. \A i, j \in 1 .. Len(batch') : batch'[i].fd # Srv /\ batch'[j].fd # Srv => i = j
  BY <1>1 DEF Inv, Events
<1>5. \A i \in 1 .. Len(batch') :
        batch'[i].fd = Srv => backlog' # <<>> /\ Open' \subseteq Reported'
  BY <1>1
<1> QED BY <1>2, <1>3, <1>4, <1>5 DEF Events

(* What is still reported is what was, without the event just handled.      *)
LEMMA NextReported ==
  ASSUME Inv, batch # <<>>, batch' = Tail(batch)
  PROVE  Reported' = Reported \ {Head(batch).fd}
<1>1. /\ Len(batch') = Len(batch) - 1 /\ Len(batch) \in Nat
      /\ \A i \in 1 .. Len(batch') : i + 1 \in 1 .. Len(batch) /\ batch'[i] = batch[i + 1]
      /\ Head(batch) = batch[1] /\ 1 \in 1 .. Len(batch)
  BY TailOfBatch, FirstEvent DEF Inv
<1>2. ASSUME NEW f \in Reported' PROVE f \in Reported /\ f # Head(batch).fd
  <2>1. PICK i \in 1 .. Len(batch') : batch'[i].fd = f
    BY DEF Reported
  <2>2. batch[i + 1].fd = f /\ i + 1 \in 1 .. Len(batch) /\ i + 1 # 1
    BY <1>1, <2>1
  <2> QED BY <1>1, <2>2 DEF Reported, Inv, Events
<1>3. ASSUME NEW f \in Reported, f # Head(batch).fd PROVE f \in Reported'
  <2>1. PICK i \in 1 .. Len(batch) : batch[i].fd = f
    BY DEF Reported
  <2>2. i - 1 \in 1 .. Len(batch') /\ (i - 1) + 1 = i
    BY <1>1, <1>3, <2>1
  <2>3. batch'[i - 1].fd = f
    BY <1>1, <2>1, <2>2
  <2> QED BY <2>2, <2>3 DEF Reported
<1> QED BY <1>2, <1>3

LEMMA AcceptKeeps == ASSUME Inv, Accept PROVE Inv'
<1> DEFINE c == Head(backlog)
           f == Lowest(FreeFds)
<1>1. TypeOK'
  BY AcceptType DEF Inv
<1>2. OnListener /\ batch # <<>>
  BY DEF Accept, OnListener, Inv, TypeOK
<1>3. /\ backlog # <<>> /\ Open \subseteq Reported /\ (\A g, h \in Open : g = h)
      /\ f \in Fds /\ owner[f] = Nobody
  BY <1>2, AcceptCan, LowestIsFree DEF FreeFds
<1>4. /\ c \in Clients /\ conn[c].phase = "queued" /\ c # Nobody
      /\ Len(Tail(backlog)) = Len(backlog) - 1 /\ Len(backlog) \in Nat
      /\ \A i \in 1 .. Len(Tail(backlog)) :
           /\ Tail(backlog)[i] = backlog[i + 1] /\ i + 1 \in 1 .. Len(backlog)
           /\ backlog[i + 1] # c /\ backlog[i + 1] \in Clients
  <2>1. backlog \in Seq(Clients) /\ backlog # <<>>
    BY <1>3 DEF Inv, TypeOK
  <2>2. /\ c = backlog[1] /\ 1 \in 1 .. Len(backlog) /\ c \in Clients
        /\ Len(Tail(backlog)) = Len(backlog) - 1 /\ Len(backlog) \in Nat
        /\ \A i \in 1 .. Len(Tail(backlog)) : Tail(backlog)[i] = backlog[i + 1]
    BY <2>1
  <2>3. \A i \in 1 .. Len(Tail(backlog)) :
          i + 1 \in 1 .. Len(backlog) /\ i + 1 # 1
    BY <2>2
  <2>4. \A i \in 1 .. Len(backlog) : backlog[i] \in Clients
    BY <2>1, ElementOfSeq
  <2> HIDE DEF c
  <2> QED BY <2>2, <2>3, <2>4, EventLoopAssumption DEF Inv, Queue
<1>5. /\ \A d \in Clients : conn'[d].phase = IF d = c THEN "open" ELSE conn[d].phase
      /\ \A g \in Fds : owner'[g] = IF g = f THEN c ELSE owner[g]
      /\ interest' = interest \cup {f} /\ armed' = armed \cup {f}
      /\ backlog' = Tail(backlog) /\ batch' = Tail(batch) /\ why' = why
      /\ pc' \in {"poll", "handle"} /\ pc = "handle"
  <2>1. /\ conn'  = [conn EXCEPT ![c].phase = "open"] /\ owner' = [owner EXCEPT ![f] = c]
        /\ conn \in [Clients -> Connection] /\ owner \in [Fds -> Clients \cup {Nobody}]
    BY DEF Accept, Inv, TypeOK
  <2>2. /\ interest' = interest \cup {f} /\ armed' = armed \cup {f}
        /\ backlog' = Tail(backlog) /\ batch' = Tail(batch) /\ why' = why
        /\ pc' \in {"poll", "handle"} /\ pc = "handle"
    BY DEF Accept, Watch, NextEvent, OnListener
  <2> HIDE DEF c, f
  <2> QED BY <1>3, <1>4, <2>1, <2>2 DEF Connection
<1> HIDE DEF c, f
<1>6. Open' = Open \cup {f} /\ f \notin Open
  BY <1>3, <1>4, <1>5 DEF Open
<1>7. Reported' = Reported \ {Srv}
  BY <1>2, <1>5, NextReported DEF OnListener
<1>8. f \notin Reported
  <2>1. f # Srv
    BY <1>3, EventLoopAssumption
  <2> QED BY <1>3, <2>1 DEF Reported, Inv, Events, EventIsFresh
<1>9. Late' = {f}
  <2>1. Srv \notin Open
    BY EventLoopAssumption DEF Open
  <2> QED BY <1>3, <1>6, <1>7, <1>8, <2>1 DEF Late
<1>10. Queue'
  BY <1>4, <1>5 DEF Inv, Queue
<1>11. Held'
  <2>1. \A d \in Clients : conn'[d].phase = "open" => \E g \in Fds : owner'[g] = d
    <3> SUFFICES ASSUME NEW d \in Clients, conn'[d].phase = "open"
                 PROVE  \E g \in Fds : owner'[g] = d
      OBVIOUS
    <3>1. CASE d = c
      BY <1>3, <1>5, <3>1
    <3>2. CASE d # c
      <4>1. PICK g \in Fds : owner[g] = d
        BY <1>5, <3>2 DEF Inv, Held
      <4>2. g # f
        BY <1>3, <4>1, EventLoopAssumption
      <4> QED BY <1>5, <4>1, <4>2
    <3> QED BY <3>1, <3>2
  <2>2. \A g \in Open : owner[g] \in Clients /\ owner[g] # c /\ g \in Fds
    BY <1>4 DEF Inv, Held, TypeOK, Open
  <2>3. \A g \in Open' : conn'[owner'[g]].phase = "open"
    BY <1>3, <1>4, <1>5, <1>6, <2>2 DEF Inv, Held
  <2>4. \A g, h \in Open' : owner'[g] = owner'[h] => g = h
    BY <1>3, <1>5, <1>6, <2>2 DEF Inv, Held
  <2> QED BY <1>5, <1>6, <2>1, <2>3, <2>4 DEF Inv, Held
<1>12. Events'
  <2>1. /\ Head(batch) = batch[1] /\ 1 \in 1 .. Len(batch) /\ Len(batch) \in Nat
        /\ batch[1].fd = Srv
    BY <1>2, FirstEvent DEF OnListener
  <2>2. \A i \in 2 .. Len(batch) : i \in 1 .. Len(batch) /\ batch[i].fd # Srv
    BY <2>1 DEF Inv, Events
  <2>3. \A i \in 2 .. Len(batch) : owner'[batch[i].fd] = owner[batch[i].fd]
    <3> SUFFICES ASSUME NEW i \in 2 .. Len(batch)
                 PROVE  owner'[batch[i].fd] = owner[batch[i].fd]
      OBVIOUS
    <3>1. batch[i].fd # f
      BY <1>8, <2>2 DEF Reported
    <3>2. batch[i].fd \in Fds
      <4>1. batch[i] \in [fd : Fds \cup {Srv}, who : Clients \cup {Nobody}]
        BY <2>2, ElementOfSeq DEF Inv, TypeOK
      <4> QED BY <4>1, <2>2
    <3> QED BY <1>5, <3>1, <3>2
  <2> QED BY <1>2, <1>5, <2>2, <2>3, NextEventKeeps
<1>13. Turn'
  BY <1>5, <1>9 DEF Turn
<1>14. StopExplained'
  BY <1>5 DEF StopExplained
<1> QED BY <1>1, <1>10, <1>11, <1>12, <1>13, <1>14 DEF Inv

(* Reading and writing change nothing but the connection served.            *)
LEMMA AnswerKeeps ==
  ASSUME Inv, TypeOK', UNCHANGED <<kernel, batch, why>>,
         \A c \in Clients : conn'[c].phase = conn[c].phase,
         batch # <<>>, Head(batch).fd # Srv, pc' # "stopped", pc # "poll"
  PROVE  Inv'
<1>1. Open' = Open /\ Reported' = Reported /\ Late' = Late
  BY DEF Open, Reported, Late, kernel
<1>2. /\ \A i \in 1 .. Len(backlog) : backlog[i] \in Clients
      /\ \A f \in Open : owner[f] \in Clients
  BY DEF Inv, TypeOK, Open
<1>3. Queue' /\ Held'
  BY <1>1, <1>2 DEF Inv, Queue, Held, kernel
<1>4. Events'
  BY <1>1 DEF Inv, Events, EventIsFresh, kernel
<1>5. Turn' /\ StopExplained'
  BY <1>1 DEF Inv, Turn, StopExplained, kernel
<1> QED BY <1>3, <1>4, <1>5 DEF Inv

LEMMA ReadKeeps == ASSUME Inv, ReadRequest PROVE Inv'
<1>1. TypeOK'
  BY ReadType DEF Inv
<1>2. /\ UNCHANGED <<kernel, batch, why>> /\ Head(batch).fd # Srv
      /\ pc' # "stopped" /\ pc = "handle"
  BY DEF ReadRequest, OnClient
<1>3. \A c \in Clients : conn'[c].phase = conn[c].phase
  BY DEF ReadRequest, Inv, TypeOK, Connection
<1>4. batch # <<>>
  BY <1>2 DEF Inv, TypeOK
<1> QED BY <1>1, <1>2, <1>3, <1>4, AnswerKeeps

(* Where the loop writes or closes, the first event is of an open client.   *)
LEMMA Serving ==
  ASSUME Inv, pc \in {"write", "close"}
  PROVE  /\ batch # <<>> /\ Head(batch).fd # Srv
         /\ Head(batch).fd \in Open /\ owner[Head(batch).fd] \in Clients
<1>1. batch # <<>> /\ Head(batch).fd # Srv
  BY DEF Inv, TypeOK, Events
<1> QED BY <1>1, FirstEvent

LEMMA WriteKeeps == ASSUME Inv, Write PROVE Inv'
<1>1. pc = "write" /\ UNCHANGED <<kernel, batch, why>>
  BY DEF Write
<1>2. TypeOK'
  BY <1>1, Serving, WriteType DEF Inv
<1>3. pc' # "stopped"
  BY <1>1 DEF Write, NextPart
<1>4. \A c \in Clients : conn'[c].phase = conn[c].phase
  <2> DEFINE c == owner[Head(batch).fd]
             n == Fits(c)
  <2>1. conn' = [conn EXCEPT ![c].tx = @ \o SubSeq(Slice, 1, n),
                             ![c].stalled = @ \/ n < Len(Slice)]
    BY DEF Write
  <2>2. conn \in [Clients -> Connection]
    BY DEF Inv, TypeOK
  <2> HIDE DEF c, n
  <2> QED BY <2>1, <2>2 DEF Connection
<1> QED BY <1>1, <1>2, <1>3, <1>4, Serving, AnswerKeeps

LEMMA WriteStopsKeeps == ASSUME Inv, WriteStops PROVE Inv'
<1> DEFINE c == owner[Head(batch).fd]
<1>1. pc = "write" /\ UNCHANGED <<kernel, batch, why>> /\ NextPart
  BY DEF WriteStops
<1>2. c \in Clients /\ conn \in [Clients -> Connection]
  BY <1>1, Serving DEF Inv, TypeOK
<1>3. conn' = [conn EXCEPT ![c].stalled = @ \/ Fits(c) = 0]
  BY DEF WriteStops
<1> HIDE DEF c
<1>4. conn' \in [Clients -> Connection]
  <2>1. conn[c].stalled \in BOOLEAN
    BY <1>2 DEF Connection
  <2>2. (conn[c].stalled \/ Fits(c) = 0) \in BOOLEAN
    BY <2>1
  <2>3. [conn[c] EXCEPT !.stalled = @ \/ Fits(c) = 0] \in Connection
    BY <1>2, <2>2 DEF Connection
  <2> QED BY <1>2, <1>3, <2>3
<1>5. TypeOK'
  BY <1>1, <1>4, NextPartType DEF Inv
<1>6. pc' # "stopped"
  BY <1>1 DEF NextPart
<1>7. \A d \in Clients : conn'[d].phase = conn[d].phase
  BY <1>2, <1>3 DEF Connection
<1> QED BY <1>1, <1>5, <1>6, <1>7, Serving, AnswerKeeps

LEMMA CloseKeeps == ASSUME Inv, CloseClient PROVE Inv'
<1> DEFINE f == Head(batch).fd
           c == owner[f]
<1>1. /\ batch # <<>> /\ f # Srv /\ f \in Open /\ f \in Fds /\ c \in Clients /\ c # Nobody
  BY Serving, EventLoopAssumption DEF CloseClient, Open
<1>2. /\ conn' = [conn EXCEPT ![c] = Closed(@)] /\ owner' = [owner EXCEPT ![f] = Nobody]
      /\ interest' = interest \ {f} /\ armed' = armed \ {f}
      /\ batch' = Tail(batch) /\ pc' = (IF Len(batch) = 1 THEN "poll" ELSE "handle")
      /\ pc = "close" /\ UNCHANGED <<backlog, parts, offset, why>>
  BY DEF CloseClient, Unwatch, NextEvent, answer
<1>3. conn \in [Clients -> Connection] /\ owner \in [Fds -> Clients \cup {Nobody}]
  BY DEF Inv, TypeOK
<1>4. /\ batch[1].fd = f /\ 1 \in 1 .. Len(batch) /\ Len(batch) \in Nat /\ f \in Reported
  BY <1>1, FirstEvent
<1>5. conn[c].phase = "open"
  BY <1>1 DEF Inv, Held
<1> HIDE DEF f, c
<1>6. Closed(conn[c]) \in Connection /\ Closed(conn[c]).phase \notin {"open", "queued"}
  <2>1. conn[c] \in Connection
    BY <1>1, <1>3
  <2> QED BY <2>1, ClosedType DEF Closed, Connection
<1>7. /\ conn' \in [Clients -> Connection]
      /\ \A d \in Clients : d # c => conn'[d] = conn[d]
      /\ conn'[c].phase \notin {"open", "queued"}
  BY <1>1, <1>2, <1>3, <1>6
<1>8. \A g \in Fds : owner'[g] = IF g = f THEN Nobody ELSE owner[g]
  BY <1>2, <1>3
<1>9. TypeOK'
  <2>1. owner' \in [Fds -> Clients \cup {Nobody}]
    BY <1>2, <1>3
  <2> QED BY <1>1, <1>2, <1>7, <2>1, TailOfBatch DEF Inv, TypeOK
<1>10. Open' = Open \ {f}
  BY <1>8 DEF Open
<1>11. Reported' = Reported \ {f}
  BY <1>1, <1>2, NextReported DEF f
<1>12. Late' = Late
  BY <1>4, <1>10, <1>11 DEF Late
<1>13. Queue'
  <2>1. \A i \in 1 .. Len(backlog) : backlog[i] \in Clients /\ backlog[i] # c
    BY <1>5, ElementOfSeq DEF Inv, TypeOK, Queue
  <2> QED BY <1>2, <1>7, <2>1 DEF Inv, Queue
<1>14. Held'
  <2>1. ASSUME NEW d \in Clients, conn'[d].phase = "open"
        PROVE  \E g \in Fds : owner'[g] = d
    <3>1. d # c
      BY <1>7, <2>1
    <3>2. PICK g \in Fds : owner[g] = d
      BY <1>7, <2>1, <3>1 DEF Inv, Held
    <3>3. g # f
      BY <3>1, <3>2 DEF c
    <3> QED BY <1>8, <3>2, <3>3
  <2>2. \A g \in Open : g # f => owner[g] # c
    BY <1>1 DEF Inv, Held, c
  <2>3. \A g \in Open' : g \in Open /\ g # f /\ owner'[g] = owner[g] /\ owner[g] \in Clients
    BY <1>3, <1>8, <1>10 DEF Open
  <2>4. \A g \in Open' : conn'[owner'[g]].phase = "open"
    BY <1>7, <2>2, <2>3 DEF Inv, Held
  <2>5. \A g, h \in Open' : owner'[g] = owner'[h] => g = h
    BY <2>3 DEF Inv, Held
  <2> QED BY <1>2, <1>10, <2>1, <2>4, <2>5 DEF Inv, Held
<1>15. Events'
  <2>1. \A i \in 2 .. Len(batch) : i \in 1 .. Len(batch) /\ batch[i].fd # f
    BY <1>4 DEF Inv, Events
  <2>2. \A i \in 2 .. Len(batch) :
          batch[i].fd # Srv => owner'[batch[i].fd] = owner[batch[i].fd]
    <3> SUFFICES ASSUME NEW i \in 2 .. Len(batch), batch[i].fd # Srv
                 PROVE  owner'[batch[i].fd] = owner[batch[i].fd]
      OBVIOUS
    <3>1. batch[i] \in [fd : Fds \cup {Srv}, who : Clients \cup {Nobody}]
      BY <2>1, ElementOfSeq DEF Inv, TypeOK
    <3> QED BY <1>8, <2>1, <3>1
  <2>3. \A i \in 2 .. Len(batch) :
          batch[i].fd = Srv => backlog' # <<>> /\ Open' \subseteq Reported'
    BY <1>2, <1>10, <1>11, <2>1 DEF Inv, Events
  <2> QED BY <1>1, <1>2, <2>2, <2>3, NextEventKeeps
<1>16. Turn'
  BY <1>2, <1>4, <1>12 DEF Inv, Turn, Late
<1>17. StopExplained'
  BY <1>2 DEF StopExplained
<1> QED BY <1>9, <1>13, <1>14, <1>15, <1>16, <1>17 DEF Inv

LEMMA FaultKeeps == ASSUME Inv, Crash \/ PollFails \/ Interrupt PROVE Inv'
BY ExitKeeps DEF Crash, PollFails, Interrupt

LEMMA StutterKeeps == ASSUME Inv, UNCHANGED vars PROVE Inv'
BY DEF vars, kernel, answer, Inv, TypeOK, Queue, Held, Events, EventIsFresh, Turn, Late,
       Open, Reported, StopExplained

LEMMA NextKeeps == Inv /\ [Next]_vars => Inv'
<1> SUFFICES ASSUME Inv, [Next]_vars PROVE Inv'
  OBVIOUS
<1>1. CASE \E c \in Clients : Connect(c) \/ Send(c) \/ Receive(c) \/ Leave(c)
  BY <1>1, ClientKeeps
<1>2. CASE Poll
  BY <1>2, PollKeeps
<1>3. CASE Accept
  BY <1>3, AcceptKeeps
<1>4. CASE ReadRequest
  BY <1>4, ReadKeeps
<1>5. CASE Write
  BY <1>5, WriteKeeps
<1>6. CASE WriteStops
  BY <1>6, WriteStopsKeeps
<1>7. CASE CloseClient
  BY <1>7, CloseKeeps
<1>8. CASE AcceptFails
  BY <1>8, AcceptFailsKeeps
<1>9. CASE Crash \/ PollFails \/ Interrupt
  BY <1>9, FaultKeeps
<1>10. CASE Idle \/ UNCHANGED vars
  BY <1>10, StutterKeeps DEF Idle
<1> QED BY <1>1, <1>2, <1>3, <1>4, <1>5, <1>6, <1>7, <1>8, <1>9, <1>10 DEF Next, Loop

LEMMA Invariant == Spec => []Inv
<1>1. Init => Inv
  BY InitInv
<1>2. Inv /\ [Next]_vars => Inv'
  BY NextKeeps
<1> QED BY <1>1, <1>2, PTL DEF Spec

(* A set with at most one element has at most one.                          *)
LEMMA AtMostOne ==
  ASSUME NEW S, \A x, y \in S : x = y
  PROVE  IsFiniteSet(S) /\ Cardinality(S) \in 0 .. 1
<1>1. CASE S = {}
  BY <1>1, FS_EmptySet
<1>2. CASE S # {}
  <2>1. PICK x \in S : TRUE
    BY <1>2
  <2>2. S = {x}
    OBVIOUS
  <2> QED BY <2>2, FS_Singleton
<1> QED BY <1>1, <1>2

(* A batch reports one connection at most.                                  *)
LEMMA OneReported == Inv => \A f, g \in Open \cap Reported : f = g
<1> SUFFICES ASSUME Inv, NEW f \in Open \cap Reported, NEW g \in Open \cap Reported
             PROVE  f = g
  OBVIOUS
<1>1. f # Srv /\ g # Srv
  BY EventLoopAssumption DEF Open
<1>2. PICK i \in 1 .. Len(batch) : batch[i].fd = f
  BY DEF Reported
<1>3. PICK j \in 1 .. Len(batch) : batch[j].fd = g
  BY DEF Reported
<1>4. i = j
  BY <1>1, <1>2, <1>3 DEF Inv, Events
<1> QED BY <1>2, <1>3, <1>4

LEMMA Bounded == Inv => BoundedConnections
<1> SUFFICES ASSUME Inv PROVE BoundedConnections
  OBVIOUS
<1> DEFINE A == Open \cap Reported
<1>1. \A f, g \in A : f = g
  BY OneReported
<1>2. \A f, g \in Late : f = g
  BY DEF Inv, Turn
<1> HIDE DEF A
<1>3. /\ IsFiniteSet(A) /\ Cardinality(A) \in 0 .. 1
      /\ IsFiniteSet(Late) /\ Cardinality(Late) \in 0 .. 1
  BY <1>1, <1>2, AtMostOne
<1>4. Open = A \cup Late /\ A \cap Late = {}
  BY DEF A, Late
<1>5. Cardinality(Open) <= 2
  <2>1. Cardinality(A \cap Late) = 0
    BY <1>4, FS_EmptySet
  <2> QED BY <1>3, <1>4, <2>1, FS_Union
<1>6. ASSUME pc = "poll" PROVE Open = Late
  BY <1>6 DEF Inv, TypeOK, Late, Reported
<1> QED BY <1>3, <1>5, <1>6 DEF BoundedConnections

(* Every variable of the loop, the kernel and the clients stays in its type. *)
THEOREM TypeCorrect == Spec => []TypeOK
BY Invariant, PTL DEF Inv

(* The event handled is always about the connection it was reported for,    *)
(* with any number of clients that come and go and any order in a batch.    *)
THEOREM FreshEvents == Spec => []EventIsFresh
<1>1. Inv => EventIsFresh
  BY DEF Inv, Events
<1> QED BY <1>1, Invariant, PTL

(* However many clients there are, two connections are open at most, one    *)
(* while the loop waits.                                                    *)
THEOREM FewConnections == Spec => []BoundedConnections
BY Bounded, Invariant, PTL

(* Whenever the loop waits, epoll has an event to report of every accepted  *)
(* connection, and connections and descriptors correspond one to one.       *)
THEOREM NoneForgotten == Spec => []NobodyForgotten
<1>1. Inv => NobodyForgotten
  <2> SUFFICES ASSUME Inv PROVE NobodyForgotten
    OBVIOUS
  <2>1. ASSUME pc = "poll" PROVE Open = armed
    <3>1. Reported = {}
      BY <2>1 DEF Inv, TypeOK, Reported
    <3>2. Late = Open
      BY <3>1 DEF Late
    <3> QED BY <3>2 DEF Inv, TypeOK, Turn, Held
  <2> QED BY <2>1 DEF Inv, Held, NobodyForgotten
<1> QED BY <1>1, Invariant, PTL

(* No sequence of arrivals and departures ends the loop: there is a client  *)
(* in the queue and a descriptor free whenever accept is called.            *)
THEOREM StopsForAReason == Spec => []StopExplained
BY Invariant, PTL DEF Inv

-----------------------------------------------------------------------------
(* The answers.  As a write that takes only a part of what is offered marks *)
(* the client as slow, an answer to a client that is not goes out one whole *)
(* part per write.                                                          *)

Unsent(c) == conn[c].seen = <<>> /\ conn[c].tx = <<>>
Kept(c)   == ~conn[c].left /\ ~conn[c].stalled
Busy(c)   == pc \in {"write", "close"} /\ c = owner[Head(batch).fd]

\* What was written of which answer, and what is still to be written.
Halfway(c) ==
  \E ps \in Answers(Meaning[c][conn[c].got + 1]) :
     \/ parts = ps /\ Delivered(c) = <<>>
     \/ Len(ps) = 2 /\ parts = <<ps[2]>> /\ Delivered(c) = ps[1]

Answering ==
  \A c \in Clients :
    /\ conn[c].phase \in {"away", "queued", "open"} /\ ~Busy(c) => Unsent(c)
    /\ pc = "write" /\ Busy(c) /\ Kept(c) => offset = 0 /\ Halfway(c)
    /\ pc = "close" /\ Busy(c) /\ Kept(c) => Delivered(c) \in Whole(c)
    /\ pc # "stopped" /\ conn[c].phase = "done" /\ Kept(c) => Delivered(c) \in Whole(c)

LEMMA AnswerShapes ==
  ASSUME NEW r, NEW ps \in Answers(r)
  PROVE  /\ ps \in {<<Header, File>>, <<Header, Page>>, <<Header>>, <<>>}
         /\ Header \in Seq(Nat) /\ File \in Seq(Nat) /\ Page \in Seq(Nat)
         /\ Header # <<>> /\ File # <<>> /\ Page # <<>>
BY EventLoopAssumption DEF Answers

\* Neither the loop nor the connections that are busy change.
LEMMA AnswerFrame ==
  ASSUME Inv, Answering, UNCHANGED <<pc, owner, batch, parts, offset>>,
         \A c \in Clients :
           /\ conn'[c].got = conn[c].got /\ Delivered(c)' = Delivered(c)
           /\ Kept(c)' => Kept(c)
           /\ conn'[c].phase = "done" => conn[c].phase = "done"
           /\ conn'[c].phase \in {"away", "queued", "open"} =>
                conn[c].phase \in {"away", "queued", "open"}
           /\ Unsent(c) => Unsent(c)'
  PROVE  Answering'
<1> SUFFICES ASSUME NEW c \in Clients
    PROVE  /\ conn'[c].phase \in {"away", "queued", "open"} /\ ~Busy(c)' => Unsent(c)'
           /\ pc' = "write" /\ Busy(c)' /\ Kept(c)' => offset' = 0 /\ Halfway(c)'
           /\ pc' = "close" /\ Busy(c)' /\ Kept(c)' => Delivered(c)' \in Whole(c)'
           /\ pc' # "stopped" /\ conn'[c].phase = "done" /\ Kept(c)' => Delivered(c)' \in Whole(c)'
  BY DEF Answering
<1>1. Busy(c)' = Busy(c) /\ Whole(c)' = Whole(c)
  BY DEF Busy, Whole
<1>2. Halfway(c) => Halfway(c)'
  BY DEF Halfway
<1> QED BY <1>1, <1>2 DEF Answering

LEMMA ClientAnswers ==
  ASSUME Inv, Answering, NEW c \in Clients, Connect(c) \/ Send(c) \/ Receive(c) \/ Leave(c)
  PROVE  Answering'
<1>1. conn \in [Clients -> Connection] /\ conn[c] \in Connection
  BY DEF Inv, TypeOK
<1>2. UNCHANGED <<pc, owner, batch, parts, offset>>
  BY DEF Connect, Send, Receive, Leave, Acts, answer
<1>3. \A d \in Clients : d # c => conn'[d] = conn[d]
  BY <1>1 DEF Connect, Send, Receive, Leave
<1>4. \A d \in Clients : d # c =>
        Delivered(d)' = Delivered(d) /\ (Kept(d)' <=> Kept(d)) /\ (Unsent(d)' <=> Unsent(d))
  BY <1>3 DEF Delivered, Kept, Unsent
<1>5. CASE Connect(c)
  <2>1. /\ conn'[c].seen = conn[c].seen /\ conn'[c].tx = conn[c].tx /\ conn'[c].got = conn[c].got
        /\ conn'[c].left = conn[c].left /\ conn'[c].stalled = conn[c].stalled
        /\ conn[c].phase = "away" /\ conn'[c].phase = "queued"
    BY <1>1, <1>5 DEF Connect, Connection
  <2>2. Delivered(c)' = Delivered(c) /\ (Kept(c)' => Kept(c)) /\ (Unsent(c) => Unsent(c)')
    BY <2>1 DEF Delivered, Kept, Unsent
  <2> QED BY <1>2, <1>3, <1>4, <2>1, <2>2, AnswerFrame
<1>6. CASE Send(c)
  <2>1. /\ conn'[c].seen = conn[c].seen /\ conn'[c].tx = conn[c].tx /\ conn'[c].got = conn[c].got
        /\ conn'[c].left = conn[c].left /\ conn'[c].stalled = conn[c].stalled
        /\ conn'[c].phase = conn[c].phase
    BY <1>1, <1>6 DEF Send, Connection
  <2>2. Delivered(c)' = Delivered(c) /\ (Kept(c)' => Kept(c)) /\ (Unsent(c) => Unsent(c)')
    BY <2>1 DEF Delivered, Kept, Unsent
  <2> QED BY <1>2, <1>3, <1>4, <2>1, <2>2, AnswerFrame
<1>7. CASE Leave(c)
  <2>1. /\ conn'[c].seen = conn[c].seen /\ conn'[c].tx = conn[c].tx /\ conn'[c].got = conn[c].got
        /\ conn'[c].left = TRUE /\ conn'[c].phase = conn[c].phase
    BY <1>1, <1>7 DEF Leave, Connection
  <2>2. Delivered(c)' = Delivered(c) /\ (Kept(c)' => Kept(c)) /\ (Unsent(c) => Unsent(c)')
    BY <2>1 DEF Delivered, Kept, Unsent
  <2> QED BY <1>2, <1>3, <1>4, <2>1, <2>2, AnswerFrame
<1>8. CASE Receive(c)
  <2> DEFINE s == conn[c].seen
             t == conn[c].tx
  <2>1. s \in Seq(Nat) /\ t \in Seq(Nat) /\ t # <<>>
    BY <1>1, <1>8 DEF Receive, Connection
  <2>2. /\ conn'[c].seen = Append(s, Head(t)) /\ conn'[c].tx = Tail(t) /\ conn'[c].got = conn[c].got
        /\ conn'[c].left = conn[c].left /\ conn'[c].stalled = conn[c].stalled
        /\ conn'[c].phase = conn[c].phase
    BY <1>1, <1>8 DEF Receive, Connection
  <2>3. Append(s, Head(t)) \o Tail(t) = s \o t
    <3> HIDE DEF s, t
    <3>1. Head(t) \in Nat /\ Tail(t) \in Seq(Nat) /\ Append(s, Head(t)) \in Seq(Nat)
      BY <2>1
    <3>2. Append(s, Head(t)) = s \o <<Head(t)>> /\ <<Head(t)>> \in Seq(Nat)
      BY <2>1, <3>1, AppendIsConcat
    <3>3. <<Head(t)>> \o Tail(t) = t
      BY <2>1
    <3>4. (s \o <<Head(t)>>) \o Tail(t) = s \o (<<Head(t)>> \o Tail(t))
      BY <2>1, <3>1, <3>2, ConcatAssociative
    <3> QED BY <3>2, <3>3, <3>4
  <2>4. Delivered(c)' = Delivered(c) /\ (Kept(c)' => Kept(c)) /\ ~Unsent(c)
    BY <2>1, <2>2, <2>3 DEF Delivered, Kept, Unsent
  <2> QED BY <1>2, <1>3, <1>4, <2>2, <2>4, AnswerFrame
<1> QED BY <1>5, <1>6, <1>7, <1>8

\* Steps after which the loop is not busy and no connection has changed
\* that was not yet handled.
LEMMA IdleAnswers ==
  ASSUME Inv, Answering, pc' \notin {"write", "close"},
         \A c \in Clients :
           \/ conn'[c] = conn[c] /\ ~Busy(c)
           \/ conn[c].phase = "queued" /\ conn'[c] = [conn[c] EXCEPT !.phase = "open"]
           \/ conn'[c].phase = "reset"
           \/ conn'[c].phase = "done" /\ (Kept(c)' => Delivered(c)' \in Whole(c)')
           \/ conn'[c].phase = "done" /\ pc' = "stopped",
         pc = "stopped" => pc' = "stopped", \A c \in Clients : conn[c].phase = "queued" => ~Busy(c)
  PROVE  Answering'
<1> SUFFICES ASSUME NEW c \in Clients
    PROVE  /\ conn'[c].phase \in {"away", "queued", "open"} => Unsent(c)'
           /\ pc' # "stopped" /\ conn'[c].phase = "done" /\ Kept(c)' => Delivered(c)' \in Whole(c)'
  BY DEF Answering, Busy
<1>1. CASE conn'[c] = conn[c] /\ ~Busy(c)
  <2>1. /\ Unsent(c)' <=> Unsent(c)
        /\ Kept(c)' <=> Kept(c)
        /\ Delivered(c)' = Delivered(c) /\ Whole(c)' = Whole(c)
    BY <1>1 DEF Unsent, Kept, Delivered, Whole
  <2> QED BY <1>1, <2>1 DEF Answering
<1>2. CASE conn[c].phase = "queued" /\ conn'[c] = [conn[c] EXCEPT !.phase = "open"]
  <2>1. Unsent(c) /\ conn[c] \in Connection
    BY <1>2 DEF Answering, Inv, TypeOK
  <2>2. conn'[c].seen = conn[c].seen /\ conn'[c].tx = conn[c].tx /\ conn'[c].phase = "open"
    BY <1>2, <2>1 DEF Connection
  <2> QED BY <2>1, <2>2 DEF Unsent
<1>3. CASE conn'[c].phase = "reset"
  BY <1>3
<1>4. CASE conn'[c].phase = "done" /\ (Kept(c)' => Delivered(c)' \in Whole(c)')
  BY <1>4
<1>5. CASE conn'[c].phase = "done" /\ pc' = "stopped"
  BY <1>5
<1> QED BY <1>1, <1>2, <1>3, <1>4, <1>5

\* The client that is busy is open, and no other is.
LEMMA BusyIsOpen ==
  ASSUME Inv, NEW c \in Clients, Busy(c)
  PROVE  conn[c].phase = "open"
<1>1. Head(batch).fd \in Open /\ owner[Head(batch).fd] = c
  BY Serving DEF Busy
<1> QED BY <1>1 DEF Inv, Held

LEMMA ExitAnswers ==
  ASSUME Inv, Answering, NEW reason, Exit(reason)
  PROVE  Answering'
<1>1. pc' = "stopped"
  BY DEF Exit
<1>2. ASSUME NEW c \in Clients
      PROVE  \/ conn'[c] = conn[c] /\ ~Busy(c)
             \/ conn'[c].phase = "reset"
             \/ conn'[c].phase = "done"
  <2>0. conn[c] \in Connection
    BY DEF Inv, TypeOK
  <2>1. CASE conn[c].phase = "open"
    BY <2>0, <2>1 DEF Exit, Closed, Connection
  <2>2. CASE conn[c].phase = "queued"
    BY <2>0, <2>2 DEF Exit, Connection
  <2>3. CASE conn[c].phase \notin {"open", "queued"}
    BY <2>3, BusyIsOpen DEF Exit
  <2> QED BY <2>1, <2>2, <2>3
<1>3. \A c \in Clients : conn[c].phase = "queued" => ~Busy(c)
  BY BusyIsOpen
<1> QED BY <1>1, <1>2, <1>3, IdleAnswers

LEMMA PollAnswers == ASSUME Inv, Answering, Poll PROVE Answering'
<1>1. pc = "poll" /\ pc' = "handle" /\ conn' = conn
  BY DEF Poll
<1>2. \A c \in Clients : conn'[c] = conn[c] /\ ~Busy(c)
  BY <1>1 DEF Busy
<1> QED BY <1>1, <1>2, IdleAnswers

LEMMA AcceptAnswers == ASSUME Inv, Answering, Accept PROVE Answering'
<1> DEFINE c == Head(backlog)
<1>1. pc = "handle" /\ pc' \in {"poll", "handle"} /\ backlog # <<>>
  BY DEF Accept, OnListener, NextEvent
<1>2. c \in Clients /\ conn[c].phase = "queued" /\ conn \in [Clients -> Connection]
  <2>1. backlog \in Seq(Clients) /\ conn \in [Clients -> Connection]
    BY DEF Inv, TypeOK
  <2>2. 1 \in 1 .. Len(backlog) /\ c = backlog[1]
    BY <1>1, <2>1
  <2>3. backlog[1] \in Clients /\ conn[backlog[1]].phase = "queued"
    BY <2>1, <2>2, ElementOfSeq DEF Inv, Queue
  <2> QED BY <2>1, <2>2, <2>3
<1>3. conn' = [conn EXCEPT ![c].phase = "open"]
  BY DEF Accept
<1> HIDE DEF c
<1>4. \A d \in Clients : ~Busy(d)
  BY <1>1 DEF Busy
<1>5. \A d \in Clients : d # c => conn'[d] = conn[d]
  BY <1>2, <1>3
<1>6. conn'[c] = [conn[c] EXCEPT !.phase = "open"]
  BY <1>2, <1>3
<1> QED BY <1>1, <1>2, <1>4, <1>5, <1>6, IdleAnswers

LEMMA CloseAnswers == ASSUME Inv, Answering, CloseClient PROVE Answering'
<1>1. PICK c \in Clients : c = owner[Head(batch).fd]
  BY Serving DEF CloseClient
<1>2. pc = "close" /\ pc' \in {"poll", "handle"} /\ conn' = [conn EXCEPT ![c] = Closed(conn[c])]
  BY <1>1 DEF CloseClient, NextEvent
<1>3. conn \in [Clients -> Connection] /\ conn[c] \in Connection
  BY DEF Inv, TypeOK
<1>4. Busy(c) /\ \A d \in Clients : d # c => ~Busy(d) /\ conn'[d] = conn[d]
  BY <1>1, <1>2, <1>3 DEF Busy
<1>5. conn'[c] = Closed(conn[c])
  BY <1>2, <1>3
<1>6. \/ conn'[c].phase = "reset"
      \/ conn'[c].phase = "done" /\ (Kept(c)' => Delivered(c)' \in Whole(c)')
  <2>1. CASE conn[c].got < conn[c].sent
    BY <1>3, <1>5, <2>1 DEF Closed, Connection
  <2>2. CASE ~(conn[c].got < conn[c].sent)
    <3>1. /\ conn'[c].phase = "done" /\ conn'[c].got = conn[c].got
          /\ conn'[c].seen = conn[c].seen /\ conn'[c].tx = conn[c].tx
          /\ conn'[c].left = conn[c].left /\ conn'[c].stalled = conn[c].stalled
      BY <1>3, <1>5, <2>2 DEF Closed, Connection
    <3>2. (Kept(c)' <=> Kept(c)) /\ Delivered(c)' = Delivered(c) /\ Whole(c)' = Whole(c)
      BY <3>1 DEF Kept, Delivered, Whole
    <3> QED BY <1>2, <1>4, <3>1, <3>2 DEF Answering
  <2> QED BY <2>1, <2>2
<1>7. \A d \in Clients : conn[d].phase = "queued" => ~Busy(d)
  BY BusyIsOpen
<1> QED BY <1>2, <1>4, <1>6, <1>7, IdleAnswers

\* Steps on the client that is busy.
LEMMA BusyAnswers ==
  ASSUME Inv, Answering, NEW c \in Clients, c = owner[Head(batch).fd],
         pc # "stopped", pc' \in {"write", "close"}, UNCHANGED <<owner, batch>>,
         \A d \in Clients : d # c => conn'[d] = conn[d],
         conn'[c].phase = "open",
         pc' = "write" /\ Kept(c)' => offset' = 0 /\ Halfway(c)',
         pc' = "close" /\ Kept(c)' => Delivered(c)' \in Whole(c)'
  PROVE  Answering'
<1> SUFFICES ASSUME NEW d \in Clients
    PROVE  /\ conn'[d].phase \in {"away", "queued", "open"} /\ ~Busy(d)' => Unsent(d)'
           /\ pc' = "write" /\ Busy(d)' /\ Kept(d)' => offset' = 0 /\ Halfway(d)'
           /\ pc' = "close" /\ Busy(d)' /\ Kept(d)' => Delivered(d)' \in Whole(d)'
           /\ pc' # "stopped" /\ conn'[d].phase = "done" /\ Kept(d)' => Delivered(d)' \in Whole(d)'
  BY DEF Answering
<1>1. Busy(d)' <=> d = c
  BY DEF Busy
<1>2. CASE d = c
  BY <1>1, <1>2
<1>3. CASE d # c
  <2>1. conn'[d] = conn[d] /\ ~Busy(d)' /\ ~Busy(d)
    BY <1>1, <1>3 DEF Busy
  <2>2. /\ Unsent(d)' <=> Unsent(d)
        /\ Kept(d)' <=> Kept(d)
        /\ Delivered(d)' = Delivered(d) /\ Whole(d)' = Whole(d)
    BY <2>1 DEF Unsent, Kept, Delivered, Whole
  <2> QED BY <2>1, <2>2 DEF Answering
<1> QED BY <1>2, <1>3

LEMMA ReadAnswers == ASSUME Inv, Answering, ReadRequest PROVE Answering'
<1>1. /\ pc = "handle" /\ Head(batch).fd # Srv /\ batch # <<>>
      /\ UNCHANGED <<owner, batch>> /\ offset' = 0
      /\ pc' = IF parts' = <<>> THEN "close" ELSE "write"
  BY DEF ReadRequest, OnClient, Inv, TypeOK, kernel
<1>2. PICK c \in Clients : c = owner[Head(batch).fd] /\ Head(batch).fd \in Open
  BY <1>1, FirstEvent
<1>3. /\ conn' = [conn EXCEPT ![c].got = conn[c].sent]
      /\ parts' \in Answers(Meaning[c][conn[c].sent + 1])
  BY <1>2 DEF ReadRequest, Reading
<1>4. conn \in [Clients -> Connection] /\ conn[c] \in Connection /\ conn[c].phase = "open"
  BY <1>2 DEF Inv, TypeOK, Held
<1>5. /\ conn'[c].got = conn[c].sent /\ conn'[c].phase = "open"
      /\ conn'[c].seen = conn[c].seen /\ conn'[c].tx = conn[c].tx
      /\ \A d \in Clients : d # c => conn'[d] = conn[d]
  BY <1>3, <1>4 DEF Connection
<1>6. conn[c].seen = <<>> /\ conn[c].tx = <<>>
  BY <1>1, <1>4 DEF Answering, Busy, Unsent
<1>7. Delivered(c)' = <<>>
  <2>1. Delivered(c)' = <<>> \o <<>>
    BY <1>5, <1>6 DEF Delivered
  <2> QED BY <2>1
<1>8. parts' \in Answers(Meaning[c][conn'[c].got + 1])
  BY <1>3, <1>5
<1>9. Halfway(c)'
  BY <1>7, <1>8 DEF Halfway
<1>10. pc' = "close" => Delivered(c)' \in Whole(c)'
  <2> SUFFICES ASSUME pc' = "close" PROVE Delivered(c)' \in Whole(c)'
    OBVIOUS
  <2>1. parts' = <<>>
    BY <1>1
  <2>2. Concat(<<>>) = <<>>
    BY DEF Concat
  <2>3. Concat(<<>>) \in { Concat(ps) : ps \in Answers(Meaning[c][conn'[c].got + 1]) }
    BY <1>8, <2>1
  <2> QED BY <1>7, <2>2, <2>3 DEF Whole
<1> QED BY <1>1, <1>2, <1>5, <1>9, <1>10, BusyAnswers

LEMMA WriteStopsAnswers == ASSUME Inv, Answering, WriteStops PROVE Answering'
<1>1. PICK c \in Clients : c = owner[Head(batch).fd]
  BY Serving DEF WriteStops
<1>2. /\ pc = "write" /\ pc' \in {"write", "close"} /\ UNCHANGED <<owner, batch>>
      /\ Fits(c) = 0 \/ conn[c].left
      /\ conn' = [conn EXCEPT ![c].stalled = @ \/ Fits(c) = 0]
  BY <1>1 DEF WriteStops, NextPart, kernel
<1>3. conn \in [Clients -> Connection] /\ conn[c] \in Connection /\ conn[c].phase = "open"
  BY <1>1, <1>2, BusyIsOpen DEF Inv, TypeOK, Busy
<1>4. /\ conn'[c].phase = "open" /\ conn'[c].left = conn[c].left
      /\ conn'[c].stalled = (conn[c].stalled \/ Fits(c) = 0)
      /\ \A d \in Clients : d # c => conn'[d] = conn[d]
  BY <1>2, <1>3 DEF Connection
<1>5. ~ Kept(c)'
  BY <1>2, <1>4 DEF Kept
<1> QED BY <1>1, <1>2, <1>4, <1>5, BusyAnswers

\* To a client that reads as fast as it is written to, a write delivers the
\* whole part.
LEMMA WriteAnswers == ASSUME Inv, Answering, Write PROVE Answering'
<1>1. PICK c \in Clients : c = owner[Head(batch).fd]
  BY Serving DEF Write
<1> DEFINE n == Fits(c)
           p == SubSeq(Slice, 1, n)
<1>2. /\ pc = "write" /\ pc' \in {"write", "close"} /\ UNCHANGED <<owner, batch>> /\ n > 0
      /\ conn' = [conn EXCEPT ![c].tx = @ \o p, ![c].stalled = @ \/ n < Len(Slice)]
      /\ ~(offset + n < Len(Head(parts))) => NextPart
  BY <1>1 DEF Write, NextPart, kernel
<1>3. /\ conn \in [Clients -> Connection] /\ conn[c] \in Connection /\ conn[c].phase = "open" /\ Busy(c)
      /\ conn[c].stalled \in BOOLEAN
  BY <1>1, <1>2, BusyIsOpen DEF Inv, TypeOK, Busy, Connection
<1>4. /\ Slice \in Seq(Nat) /\ n \in Int /\ n <= Len(Slice) /\ p \in Seq(Nat)
      /\ conn[c].tx \in Seq(Nat) /\ conn[c].seen \in Seq(Nat) /\ Head(parts) \in Seq(Nat)
  BY <1>2, WriteTypes DEF Inv
<1> HIDE DEF n, p
<1>5. /\ conn'[c].phase = "open" /\ conn'[c].left = conn[c].left /\ conn'[c].got = conn[c].got
      /\ conn'[c].stalled = (conn[c].stalled \/ n < Len(Slice))
      /\ conn'[c].seen = conn[c].seen /\ conn'[c].tx = conn[c].tx \o p
      /\ \A d \in Clients : d # c => conn'[d] = conn[d]
  BY <1>2, <1>3 DEF Connection
<1>6. Delivered(c)' = Delivered(c) \o p
  <2>1. Delivered(c)' = conn[c].seen \o (conn[c].tx \o p)
    BY <1>5 DEF Delivered
  <2>2. (conn[c].seen \o conn[c].tx) \o p = conn[c].seen \o (conn[c].tx \o p)
    <3> DEFINE s == conn[c].seen
               t == conn[c].tx
    <3>1. s \in Seq(Nat) /\ t \in Seq(Nat) /\ p \in Seq(Nat)
      BY <1>4
    <3> HIDE DEF s, t
    <3>2. (s \o t) \o p = s \o (t \o p)
      <4>1. \A x, y, z \in Seq(Nat) : (x \o y) \o z = x \o (y \o z)
        BY ConcatAssociative, SMTT(60)
      <4> QED BY <3>1, <4>1, ZenonT(60)
    <3> QED BY <3>2 DEF s, t
  <2> QED BY <2>1, <2>2 DEF Delivered
<1>7. ASSUME Kept(c)'
      PROVE  /\ pc' = "write" => offset' = 0 /\ Halfway(c)'
             /\ pc' = "close" => Delivered(c)' \in Whole(c)'
  <2>1. Kept(c) /\ ~(n < Len(Slice))
    BY <1>3, <1>5, <1>7 DEF Kept
  <2>2. offset = 0 /\ Halfway(c)
    BY <1>2, <1>3, <2>1 DEF Answering
  <2>3. PICK ps \in Answers(Meaning[c][conn[c].got + 1]) :
           \/ parts = ps /\ Delivered(c) = <<>>
           \/ Len(ps) = 2 /\ parts = <<ps[2]>> /\ Delivered(c) = ps[1]
    BY <2>2 DEF Halfway
  <2>4. /\ ps \in {<<Header, File>>, <<Header, Page>>, <<Header>>, <<>>}
        /\ Header \in Seq(Nat) /\ File \in Seq(Nat) /\ Page \in Seq(Nat)
        /\ Header # <<>> /\ File # <<>> /\ Page # <<>>
    BY AnswerShapes
  <2>5. parts # <<>>
    BY <1>2 DEF Inv, TypeOK
  <2>6. Slice = Head(parts)
    <3>1. Head(parts) # <<>>
      BY <2>3, <2>4, <2>5
    <3>2. Len(Head(parts)) \in Nat \ {0}
      BY <1>4, <3>1, EmptySeq
    <3>3. SubSeq(Head(parts), 1, Len(Head(parts))) = Head(parts)
      BY <1>4
    <3>4. Larger(0, 0) + 1 = 1 /\ Smaller(Len(Head(parts)), Len(Head(parts))) = Len(Head(parts))
      BY <3>2 DEF Larger, Smaller
    <3>5. Slice = Substr(Head(parts), 0, Len(Head(parts)))
      BY <2>2, <3>2 DEF Slice
    <3> QED BY <3>1, <3>2, <3>3, <3>4, <3>5 DEF Substr
  <2>7. n = Len(Head(parts)) /\ p = Head(parts)
    <3>1. n = Len(Head(parts))
      BY <1>4, <2>1, <2>6
    <3>2. SubSeq(Head(parts), 1, Len(Head(parts))) = Head(parts)
      BY <1>4
    <3> QED BY <2>6, <3>1, <3>2 DEF p
  <2>8. NextPart
    BY <1>2, <1>4, <2>2, <2>7
  <2>9. Delivered(c)' = Delivered(c) \o Head(parts) /\ Whole(c)' = Whole(c)
    BY <1>5, <1>6, <2>7 DEF Whole
  <2>10. Concat(ps) \in Whole(c)
    BY <2>3 DEF Whole
  <2>11. CASE parts = ps /\ Delivered(c) = <<>> /\ Len(ps) = 2
    <3>1. ps = <<ps[1], ps[2]>> /\ ps[1] \in Seq(Nat) /\ Head(parts) = ps[1] /\ Tail(parts) = <<ps[2]>> /\ Len(parts) = 2
      <4>1. CASE ps = <<Header, File>>
        <5>1. ps[1] = Header /\ ps[2] = File
          BY <4>1
        <5>2. Head(ps) = Header /\ Tail(ps) = <<File>> /\ Len(ps) = 2
          BY <4>1
        <5> QED BY <2>4, <2>11, <4>1, <5>1, <5>2
      <4>2. CASE ps = <<Header, Page>>
        <5>1. ps[1] = Header /\ ps[2] = Page
          BY <4>2
        <5>2. Head(ps) = Header /\ Tail(ps) = <<Page>> /\ Len(ps) = 2
          BY <4>2
        <5> QED BY <2>4, <2>11, <4>2, <5>1, <5>2
      <4>3. ps # <<Header>> /\ ps # <<>>
        BY <2>11
      <4> QED BY <2>4, <4>1, <4>2, <4>3
    <3>2. Delivered(c)' = ps[1]
      BY <2>9, <2>11, <3>1, ConcatEmptySeq
    <3>3. parts' = <<ps[2]>> /\ offset' = 0 /\ pc' = "write"
      BY <2>8, <3>1 DEF NextPart
    <3> QED BY <1>5, <2>3, <2>11, <3>2, <3>3 DEF Halfway
  <2>12. CASE parts = ps /\ Delivered(c) = <<>> /\ Len(ps) # 2
    <3>1. ps = <<Header>>
      BY <2>4, <2>5, <2>12
    <3>2. Delivered(c)' = Header /\ Concat(ps) = Header
      BY <2>4, <2>9, <2>12, <3>1, ConcatEmptySeq DEF Concat
    <3>3. pc' = "close"
      BY <2>8, <2>12, <3>1 DEF NextPart
    <3> QED BY <2>9, <2>10, <3>2, <3>3
  <2>13. CASE Len(ps) = 2 /\ parts = <<ps[2]>> /\ Delivered(c) = ps[1]
    <3>1. Head(parts) = ps[2] /\ Len(parts) = 1
      BY <2>13
    <3>2. Delivered(c)' = ps[1] \o ps[2] /\ Concat(ps) = ps[1] \o ps[2]
      BY <2>9, <2>13, <3>1 DEF Concat
    <3>3. pc' = "close"
      BY <2>8, <3>1 DEF NextPart
    <3> QED BY <2>9, <2>10, <3>2, <3>3
  <2> QED BY <2>3, <2>11, <2>12, <2>13
<1> QED BY <1>1, <1>2, <1>5, <1>7, BusyAnswers

LEMMA AnsweringStep == Inv /\ Answering /\ [Next]_vars => Answering'
<1> SUFFICES ASSUME Inv, Answering, [Next]_vars PROVE Answering'
  OBVIOUS
<1>1. CASE \E c \in Clients : Connect(c) \/ Send(c) \/ Receive(c) \/ Leave(c)
  BY <1>1, ClientAnswers
<1>2. CASE AcceptFails \/ Crash \/ PollFails \/ Interrupt
  BY <1>2, ExitAnswers DEF AcceptFails, Crash, PollFails, Interrupt
<1>3. CASE Idle \/ UNCHANGED vars
  <2>1. UNCHANGED <<conn, pc, owner, batch, parts, offset>>
    BY <1>3 DEF Idle, vars, kernel, answer
  <2> QED BY <2>1, AnswerFrame DEF Delivered, Kept, Unsent
<1> QED BY <1>1, <1>2, <1>3, PollAnswers, AcceptAnswers, ReadAnswers, WriteAnswers,
           WriteStopsAnswers, CloseAnswers DEF Next, Loop

(* A client that stays and reads gets the whole answer to what was read     *)
(* from it, for answers of any length and any number of clients.            *)
THEOREM WholeAnswers == Spec => []AnswerIfRoom
<1>1. Init => Answering
  BY DEF Init, Answering, Unsent
<1>2. Answering => AnswerIfRoom
  BY DEF Answering, AnswerIfRoom, Kept
<1> QED BY <1>1, <1>2, AnsweringStep, Invariant, PTL DEF Spec
-----------------------------------------------------------------------------
(* The line of clients that the loop implements.  Its first is the client   *)
(* of the one event that is left in the batch, if there is one; then comes  *)
(* the one that was accepted since, and the kernel's queue.                 *)

LEMMA LowestOfOne == ASSUME NEW f \in Nat PROVE Lowest({f}) = f
BY DEF Lowest

(* What the owners of a set with one descriptor, or none, are.              *)
LEMMA OwnersAre ==
  /\ Owners({}) = <<>>
  /\ \A f \in Fds : Owners({f}) = << owner[f] >>
BY LowestOfOne, EventLoopAssumption DEF Owners

(* Two places before a queue, at most one of them taken ...                 *)
LEMMA OnePlace ==
  ASSUME NEW S, NEW x, NEW q \in Seq(S)
  PROVE  /\ (<<x>> \o <<>>) \o q = <<x>> \o q
         /\ (<<>> \o <<x>>) \o q = <<x>> \o q
         /\ (<<>> \o <<>>) \o q = q
<1>1. <<x>> \in Seq({x}) /\ <<>> \in Seq({x}) /\ <<>> \in Seq(S)
  OBVIOUS
<1>2. <<x>> \o <<>> = <<x>> /\ <<>> \o <<x>> = <<x>>
  BY <1>1, ConcatEmptySeq
<1>3. <<>> \o <<>> = <<>> /\ <<>> \o q = q
  BY <1>1, ConcatEmptySeq
<1> QED BY <1>2, <1>3

(* ... and what happens to the line when the first of the queue takes one,  *)
(* when its own first leaves it, and when somebody joins the queue.         *)
LEMMA PlacesMove ==
  ASSUME NEW S, NEW p \in Seq(S), NEW q \in Seq(S)
  PROVE  /\ q # <<>> => p \o q = (p \o << Head(q) >>) \o Tail(q)
         /\ \A c \in S : /\ Tail((<<c>> \o p) \o q) = p \o q
                         /\ (<<c>> \o p) \o q # <<>>
                         /\ p \o Append(q, c) = Append(p \o q, c)
<1>1. ASSUME q # <<>> PROVE p \o q = (p \o << Head(q) >>) \o Tail(q)
  <2>1. Head(q) \in S /\ Tail(q) \in Seq(S) /\ << Head(q) >> \in Seq(S)
    BY <1>1
  <2>2. << Head(q) >> \o Tail(q) = q
    BY <1>1, <2>1
  <2> QED BY <2>1, <2>2, ConcatAssociative
<1>2. ASSUME NEW c \in S
      PROVE  /\ Tail((<<c>> \o p) \o q) = p \o q
             /\ (<<c>> \o p) \o q # <<>>
             /\ p \o Append(q, c) = Append(p \o q, c)
  <2>1. <<c>> \in Seq(S) /\ p \o q \in Seq(S)
    BY ConcatProperties
  <2>2. (<<c>> \o p) \o q = <<c>> \o (p \o q)
    BY <2>1, ConcatAssociative
  <2>3. Tail(<<c>> \o (p \o q)) = p \o q /\ <<c>> \o (p \o q) # <<>>
    BY <2>1
  <2>4. p \o Append(q, c) = Append(p \o q, c)
    BY <2>1, AppendIsConcat, ConcatAssociative
  <2> QED BY <2>2, <2>3, <2>4
<1> QED BY <1>1, <1>2

(* The line does not see whose pieces are read and written.                 *)
LEMMA LineFrame ==
  ASSUME UNCHANGED <<owner, batch, backlog>>
  PROVE  AbsLine' = AbsLine
BY DEF AbsLine, Owners, Open, Reported

(* The places in front of the queue.                                        *)
LEMMA Places ==
  ASSUME Inv
  PROVE  /\ Owners(Open \cap Reported) \in Seq(Clients)
         /\ Owners(Late) \in Seq(Clients)
         /\ AbsLine = (Owners(Open \cap Reported) \o Owners(Late)) \o backlog
         /\ backlog \in Seq(Clients)
<1>1. ASSUME NEW T \in SUBSET Open, \A f, g \in T : f = g
      PROVE  Owners(T) \in Seq(Clients)
  <2>1. CASE T = {}
    BY <2>1 DEF Owners
  <2>2. CASE T # {}
    <3>1. PICK f \in T : TRUE
      BY <2>2
    <3>2. T = {f} /\ f \in Nat /\ owner[f] \in Clients
      <4>1. Fds \subseteq Nat
        BY EventLoopAssumption
      <4>2. owner \in [Fds -> Clients \cup {Nobody}] /\ Open \subseteq Fds
        BY DEF Open, Inv, TypeOK
      <4> QED BY <1>1, <4>1, <4>2 DEF Open
    <3>3. Owners(T) = << owner[f] >>
      BY <2>2, <3>2, LowestOfOne DEF Owners
    <3>4. << owner[f] >> \in Seq(Clients)
      BY <3>2
    <3> QED BY <3>3, <3>4
  <2> QED BY <2>1, <2>2
<1>2. Owners(Open \cap Reported) \in Seq(Clients)
  BY <1>1, OneReported
<1>3. Owners(Late) \in Seq(Clients)
  BY <1>1 DEF Inv, Turn, Late
<1> QED BY <1>2, <1>3 DEF AbsLine, Late, Inv, TypeOK

(* A client that connects joins the line behind all others.                 *)
LEMMA ConnectJoins ==
  ASSUME Inv, NEW c \in Clients, Connect(c)
  PROVE  Abs!Join
<1>1. AbsLine' = Append(AbsLine, c)
  <2>1. AbsLine' = (Owners(Open \cap Reported) \o Owners(Late)) \o Append(backlog, c)
    BY DEF Connect, AbsLine, Owners, Open, Reported, Late
  <2>2. Owners(Open \cap Reported) \o Owners(Late) \in Seq(Clients)
    BY Places, ConcatProperties
  <2>3. /\ AbsLine = (Owners(Open \cap Reported) \o Owners(Late)) \o backlog
        /\ backlog \in Seq(Clients)
    BY Places
  <2> HIDE DEF AbsLine
  <2>4. \A p, q \in Seq(Clients) : p \o Append(q, c) = Append(p \o q, c)
    BY PlacesMove
  <2> QED BY <2>1, <2>2, <2>3, <2>4
<1>2. pc # "stopped" /\ pc' = pc
  BY DEF Connect
<1> QED BY <1>1, <1>2 DEF Abs!Join

(* Waiting for events moves a client from one place to the other, or not.   *)
LEMMA PollKeepsLine == ASSUME Inv, Poll PROVE AbsLine' = AbsLine
<1>1. Reported = {} /\ Late = Open
  BY DEF Poll, Inv, TypeOK, Reported, Late
<1>2. Open' = Open /\ backlog' = backlog /\ owner' = owner
  BY DEF Poll, Open
<1>3. backlog \in Seq(Clients)
  BY DEF Inv, TypeOK
<1>4. CASE Open = {}
  BY <1>1, <1>2, <1>4 DEF AbsLine, Owners
<1>5. CASE Open # {}
  <2>1. PICK f \in Open : TRUE
    BY <1>5
  <2>2. Open = {f} /\ f \in Fds /\ f \in Nat
    BY <1>1, <2>1, EventLoopAssumption DEF Inv, Turn, Open
  <2>3. Lowest(Open) = f
    BY <2>2, LowestOfOne
  <2>4. AbsLine = (<<>> \o << owner[f] >>) \o backlog
    BY <1>1, <2>2, <2>3, OwnersAre DEF AbsLine
  <2>5. \/ (Open \cap Reported)' = Open /\ (Open \ Reported)' = {}
        \/ (Open \cap Reported)' = {} /\ (Open \ Reported)' = Open
    BY <1>2, <2>2
  <2>6. \/ AbsLine' = (<< owner[f] >> \o <<>>) \o backlog
        \/ AbsLine' = (<<>> \o << owner[f] >>) \o backlog
    BY <1>2, <2>2, <2>3, <2>5 DEF AbsLine, Owners
  <2> QED BY <1>3, <2>4, <2>6, OnePlace
<1> QED BY <1>4, <1>5

(* The first of the queue that is accepted keeps its place in the line.     *)
LEMMA AcceptKeepsLine == ASSUME Inv, Accept PROVE AbsLine' = AbsLine
<1> DEFINE c == Head(backlog)
           f == Lowest(FreeFds)
<1>1. OnListener /\ batch # <<>>
  BY DEF Accept, OnListener, Inv, TypeOK
<1>2. /\ backlog # <<>> /\ Open \subseteq Reported /\ (\A g, h \in Open : g = h)
      /\ f \in Fds /\ owner[f] = Nobody
  BY <1>1, AcceptCan, LowestIsFree DEF FreeFds
<1>3. /\ c \in Clients /\ c # Nobody /\ backlog \in Seq(Clients)
      /\ owner' = [owner EXCEPT ![f] = c] /\ owner \in [Fds -> Clients \cup {Nobody}]
      /\ backlog' = Tail(backlog) /\ batch' = Tail(batch)
  <2>1. backlog \in Seq(Clients) /\ owner \in [Fds -> Clients \cup {Nobody}]
    BY DEF Inv, TypeOK
  <2>2. c \in Clients
    BY <1>2, <2>1
  <2>3. owner' = [owner EXCEPT ![f] = c] /\ backlog' = Tail(backlog) /\ batch' = Tail(batch)
    BY DEF Accept, NextEvent
  <2> QED BY <2>1, <2>2, <2>3, EventLoopAssumption
<1> HIDE DEF c, f
<1>4. /\ \A g \in Fds : owner'[g] = IF g = f THEN c ELSE owner[g]
      /\ Open' = Open \cup {f} /\ f \notin Open
  BY <1>2, <1>3 DEF Open
<1>5. Reported' = Reported \ {Srv}
  BY <1>1, <1>3, NextReported DEF OnListener
<1>6. f \notin Reported /\ Srv \notin Open
  <2>1. f # Srv
    BY <1>2, EventLoopAssumption
  <2>2. Srv \notin Open
    BY EventLoopAssumption DEF Open
  <2>3. f \notin Reported
    BY <1>2, <2>1 DEF Reported, Inv, Events, EventIsFresh
  <2> QED BY <2>2, <2>3
<1>7. (Open \cap Reported)' = Open /\ (Open \ Reported)' = {f}
  BY <1>2, <1>4, <1>5, <1>6
<1>8. /\ Open \cap Reported = Open /\ Open \ Reported = {}
  BY <1>2
<1>9. AbsLine' = (Owners(Open) \o <<c>>) \o Tail(backlog)
  <2>1. Lowest({f}) = f /\ owner'[f] = c
    BY <1>2, <1>4, EventLoopAssumption, LowestOfOne
  <2>2. Open = {} \/ owner'[Lowest(Open)] = owner[Lowest(Open)]
    <3>1. CASE Open # {}
      <4>1. PICK g \in Open : TRUE
        BY <3>1
      <4>2. Open = {g} /\ g \in Fds /\ g \in Nat /\ g # f
        <5>1. Fds \subseteq Nat /\ Open \subseteq Fds
          BY EventLoopAssumption DEF Open
        <5> QED BY <1>2, <1>4, <4>1, <5>1
      <4>3. Lowest(Open) = g
        BY <4>2, LowestOfOne
      <4> QED BY <1>4, <4>2, <4>3
    <3> QED BY <3>1
  <2>3. /\ (IF (Open \ Reported)' = {} THEN <<>> ELSE << owner'[Lowest((Open \ Reported)')] >>) = <<c>>
        /\ (IF (Open \cap Reported)' = {} THEN <<>> ELSE << owner'[Lowest((Open \cap Reported)')] >>)
             = Owners(Open)
    BY <1>7, <2>1, <2>2 DEF Owners
  <2> QED BY <1>3, <2>3 DEF AbsLine, Owners
<1>10. AbsLine = Owners(Open) \o backlog /\ Owners(Open) \in Seq(Clients)
  <2>1. Owners(Late) = <<>> /\ Owners(Open \cap Reported) = Owners(Open)
    BY <1>8 DEF Owners, Late
  <2>2. Owners(Open) \in Seq(Clients)
    BY <2>1, Places
  <2>3. Owners(Open) \o <<>> = Owners(Open)
    BY <2>2, ConcatEmptySeq
  <2> QED BY <2>1, <2>2, <2>3, Places
<1>11. \A p, q \in Seq(Clients) : q # <<>> => p \o q = (p \o << Head(q) >>) \o Tail(q)
  <2> SUFFICES ASSUME NEW p \in Seq(Clients), NEW q \in Seq(Clients)
               PROVE  q # <<>> => p \o q = (p \o << Head(q) >>) \o Tail(q)
    OBVIOUS
  <2> QED BY PlacesMove, ZenonT(60)
<1> QED BY <1>2, <1>3, <1>9, <1>10, <1>11 DEF c

(* A client leaves the line when the loop has closed its connection, and it *)
(* is the first of the line that does.                                      *)
LEMMA CloseDealsWithFirst == ASSUME Inv, CloseClient PROVE Abs!DealWithFirst
<1> DEFINE f == Head(batch).fd
           c == owner[f]
<1>1. /\ batch # <<>> /\ f \in Open /\ f \in Reported /\ f \in Fds /\ f \in Nat /\ c \in Clients
  BY Serving, FirstEvent, EventLoopAssumption DEF CloseClient, Open
<1>2. /\ owner' = [owner EXCEPT ![f] = Nobody] /\ batch' = Tail(batch)
      /\ backlog' = backlog /\ pc # "stopped" /\ pc' # "stopped"
      /\ owner \in [Fds -> Clients \cup {Nobody}]
  BY DEF CloseClient, NextEvent, Inv, TypeOK
<1>3. Reported' = Reported \ {f}
  BY <1>1, <1>2, NextReported
<1> HIDE DEF f
<1>4. /\ \A g \in Fds : owner'[g] = IF g = f THEN Nobody ELSE owner[g]
      /\ Open' = Open \ {f}
  BY <1>1, <1>2 DEF Open
<1>5. Open \cap Reported = {f} /\ (Open \cap Reported)' = {} /\ (Open \ Reported)' = Late
  <2>1. Open \cap Reported = {f}
    BY <1>1, OneReported
  <2>2. Open' \cap Reported' = {} /\ Open' \ Reported' = Open \ Reported
    BY <1>3, <1>4, <2>1
  <2> QED BY <2>1, <2>2 DEF Late
<1>6. AbsLine = (<<c>> \o Owners(Late)) \o backlog
  <2>1. Owners(Open \cap Reported) = <<c>>
    BY <1>1, <1>5, LowestOfOne DEF Owners
  <2> QED BY <2>1, Places
<1>7. AbsLine' = Owners(Late) \o backlog
  <2>1. Late = {} \/ owner'[Lowest(Late)] = owner[Lowest(Late)]
    <3>1. CASE Late # {}
      <4>1. PICK g \in Late : TRUE
        BY <3>1
      <4>2. Late = {g} /\ g \in Fds /\ g \in Nat /\ g # f
        BY <1>1, <4>1, EventLoopAssumption DEF Open, Late, Inv, Turn
      <4>3. Lowest(Late) = g
        BY <4>2, LowestOfOne
      <4> QED BY <1>4, <4>2, <4>3
    <3> QED BY <3>1
  <2>2. (IF (Open \ Reported)' = {} THEN <<>> ELSE << owner'[Lowest((Open \ Reported)')] >>) = Owners(Late)
    BY <1>5, <2>1 DEF Owners
  <2>3. AbsLine' = (<<>> \o Owners(Late)) \o backlog
    BY <1>2, <1>5, <2>2 DEF AbsLine, Owners
  <2>4. Owners(Late) \in Seq(Clients)
    BY Places
  <2>5. <<>> \o Owners(Late) = Owners(Late)
    BY <2>4, ConcatEmptySeq
  <2> QED BY <2>3, <2>5
<1>8. \A p, q \in Seq(Clients) : \A d \in Clients :
        Tail((<<d>> \o p) \o q) = p \o q /\ (<<d>> \o p) \o q # <<>>
  BY PlacesMove
<1>9. AbsLine # <<>> /\ AbsLine' = Tail(AbsLine)
  BY <1>1, <1>6, <1>7, <1>8, Places
<1> QED BY <1>2, <1>9 DEF Abs!DealWithFirst

(* Whatever ends the loop sends everybody away.                             *)
LEMMA ExitShuts ==
  ASSUME pc # "stopped", NEW reason, Exit(reason)
  PROVE  Abs!Shut
<1>1. /\ owner' = [f \in Fds |-> Nobody] /\ backlog' = <<>> /\ batch' = <<>> /\ pc' = "stopped"
  BY DEF Exit
<1>2. Open' = {}
  BY <1>1 DEF Open
<1>3. AbsLine' = (<<>> \o <<>>) \o <<>>
  BY <1>1, <1>2 DEF AbsLine, Owners
<1>4. (<<>> \o <<>>) \o <<>> = <<>>
  OBVIOUS
<1> QED BY <1>1, <1>3, <1>4 DEF Abs!Shut

ServesInLine == Abs!Init /\ [][Abs!Next]_(Abs!vars)

(* The loop serves its clients in one line: whoever connects joins it       *)
(* behind all others, only its first leaves it, which is when the loop has  *)
(* closed that connection, and between the kernel's queue, the accepting in *)
(* a round, the batches and the numbers of descriptors nobody changes       *)
(* places.                                                                  *)
THEOREM OneLineOfClients == Spec => ServesInLine
<1>1. Init => Abs!Init
  <2> SUFFICES ASSUME Init PROVE Abs!Init
    OBVIOUS
  <2>1. Open = {} /\ backlog = <<>> /\ pc = "poll"
    BY DEF Init, Open
  <2>2. AbsLine = (<<>> \o <<>>) \o <<>>
    BY <2>1 DEF AbsLine, Owners
  <2>3. (<<>> \o <<>>) \o <<>> = <<>>
    OBVIOUS
  <2> QED BY <2>1, <2>2, <2>3 DEF Abs!Init
<1>2. Inv /\ [Next]_vars => [Abs!Next]_(Abs!vars)
  <2> SUFFICES ASSUME Inv, [Next]_vars PROVE Abs!Next \/ UNCHANGED Abs!vars
    OBVIOUS
  <2>1. CASE \E c \in Clients : Connect(c)
    BY <2>1, ConnectJoins DEF Abs!Next
  <2>2. CASE \/ \E c \in Clients : Send(c) \/ Receive(c) \/ Leave(c)
             \/ Idle \/ UNCHANGED vars
    <3>1. UNCHANGED <<owner, batch, backlog, pc>>
      BY <2>2 DEF Send, Receive, Leave, Acts, Idle, vars, kernel
    <3> QED BY <3>1, LineFrame DEF Abs!vars
  <2>3. CASE ReadRequest \/ Write \/ WriteStops
    <3>1. UNCHANGED <<owner, batch, backlog>> /\ pc # "stopped" /\ pc' # "stopped"
      BY <2>3 DEF ReadRequest, OnClient, Write, WriteStops, NextPart, kernel
    <3> QED BY <3>1, LineFrame DEF Abs!vars
  <2>4. CASE Poll \/ Accept
    <3>1. pc # "stopped" /\ pc' # "stopped"
      BY <2>4 DEF Poll, Accept, OnListener, NextEvent
    <3> QED BY <2>4, <3>1, PollKeepsLine, AcceptKeepsLine DEF Abs!vars
  <2>5. CASE CloseClient
    BY <2>5, CloseDealsWithFirst DEF Abs!Next
  <2>6. CASE AcceptFails \/ Crash \/ PollFails \/ Interrupt
    <3>1. pc # "stopped" /\ \E reason : Exit(reason)
      BY <2>6 DEF AcceptFails, OnListener, OnClient, Crash, PollFails, Interrupt
    <3> QED BY <3>1, ExitShuts DEF Abs!Next
  <2> QED BY <2>1, <2>2, <2>3, <2>4, <2>5, <2>6 DEF Next, Loop
<1> QED BY <1>1, <1>2, Invariant, PTL DEF Spec, ServesInLine
-----------------------------------------------------------------------------
(* Every turn ends.                                                         *)

\* What a step of the loop that does not shorten the line brings down: the
\* connections that can still be accepted before one is closed, then what is
\* to be done for the one that is handled.
Phase     == CASE pc = "poll" -> 3 [] pc = "handle" -> 2 [] pc = "write" -> 1 [] OTHER -> 0
Unwritten == IF pc = "write" THEN Len(Head(parts)) - offset ELSE 0
Work      == <<2 - Cardinality(Open), Phase, Len(parts), Unwritten>>

Less(a, b) == \E i \in 1 .. 4 : a[i] < b[i] /\ \A j \in 1 .. i - 1 : a[j] = b[j]

TurnsEnd == /\ Loop => Abs!DealWithFirst \/ (AbsLine' = AbsLine /\ Less(Work', Work))
            /\ ~Loop => pc' = "stopped" \/ Work' = Work

\* The guard of some step of the loop holds.  A write takes something or, if
\* nothing fits, stops.
CanGoOn == \/ pc = "poll" /\ Ready # {} /\ Batches # {}
           \/ OnListener /\ backlog # <<>> /\ FreeFds # {}
           \/ OnClient /\ owner[Head(batch).fd] # Nobody
           \/ pc = "write" /\ Fits(owner[Head(batch).fd]) >= 0
           \/ pc = "close"

\* What is being sent: no part is empty or written to its end, and no more
\* is in a send buffer than it holds.
Sending == /\ parts \in {<<>>, <<Header, File>>, <<Header, Page>>, <<Header>>, <<File>>, <<Page>>}
           /\ pc = "write" => offset < Len(Head(parts))
           /\ \A c \in Clients : Len(conn[c].tx) <= SndBuf

LEMMA PartsLeft ==
  ASSUME Sending, parts # <<>>
  PROVE  /\ Head(parts) \in {Header, File, Page} /\ Len(Head(parts)) \in Nat \ {0}
         /\ Len(parts) \in {1, 2}
         /\ Tail(parts) \in {<<>>, <<File>>, <<Page>>}
         /\ Len(parts) = 1 <=> Tail(parts) = <<>>
         /\ Len(Tail(parts)) = Len(parts) - 1
<1>1. \A part \in {Header, File, Page} : Len(part) \in Nat \ {0}
  <2> SUFFICES ASSUME NEW part \in {Header, File, Page} PROVE Len(part) \in Nat \ {0}
    OBVIOUS
  <2>1. part \in Seq(Nat) /\ part # <<>>
    BY EventLoopAssumption
  <2> QED BY <2>1, EmptySeq
<1>2. \/ \E x \in {File, Page} : parts = <<Header, x>>
      \/ \E x \in {Header, File, Page} : parts = <<x>>
  BY DEF Sending
<1>3. CASE \E x \in {File, Page} : parts = <<Header, x>>
  <2>1. PICK x \in {File, Page} : parts = <<Header, x>>
    BY <1>3
  <2>2. Head(parts) = Header /\ Len(parts) = 2 /\ Tail(parts) = <<x>> /\ <<x>> # <<>> /\ Len(<<x>>) = 1
    BY <2>1
  <2> QED BY <1>1, <2>1, <2>2
<1>4. CASE \E x \in {Header, File, Page} : parts = <<x>>
  <2>1. PICK x \in {Header, File, Page} : parts = <<x>>
    BY <1>4
  <2>2. Head(parts) = x /\ Len(parts) = 1 /\ Tail(parts) = <<>> /\ Len(<<>>) = 0
    BY <2>1
  <2> QED BY <1>1, <2>1, <2>2
<1> QED BY <1>2, <1>3, <1>4

(* Parts are written one after the other, each from its start.              *)
LEMMA NextPartSends ==
  ASSUME Sending, parts # <<>>, NextPart
  PROVE  /\ parts' \in {<<>>, <<File>>, <<Page>>}
         /\ pc' = "write" => offset' < Len(Head(parts'))
         /\ pc' \in {"write", "close"} /\ Len(parts') = Len(parts) - 1
<1>1. parts' = Tail(parts) /\ offset' = 0 /\ pc' = IF Len(parts) = 1 THEN "close" ELSE "write"
  BY DEF NextPart
<1>2. parts' \in {<<>>, <<File>>, <<Page>>} /\ Len(parts') = Len(parts) - 1
  BY <1>1, PartsLeft
<1>3. ASSUME pc' = "write" PROVE offset' < Len(Head(parts'))
  <2>1. PICK x \in {File, Page} : parts' = <<x>>
    BY <1>1, <1>2, <1>3, PartsLeft
  <2>2. x \in Seq(Nat) /\ x # <<>>
    BY EventLoopAssumption
  <2>3. Len(x) \in Nat \ {0}
    BY <2>2, EmptySeq
  <2>4. Head(parts') = x
    BY <2>1
  <2>5. 0 < Len(x)
    BY <2>3
  <2> QED BY <1>1, <2>4, <2>5
<1> QED BY <1>1, <1>2, <1>3

(* The connections, and the room there is for what they are sent.           *)
LEMMA Room ==
  ASSUME TypeOK, Sending
  PROVE  /\ SndBuf \in Nat \ {0}
         /\ \A c \in Clients :
              /\ conn[c] \in Connection /\ conn[c].tx \in Seq(Nat)
              /\ Len(conn[c].tx) \in Nat /\ Len(conn[c].tx) <= SndBuf
<1>1. \A c \in Clients : conn[c] \in Connection
  BY DEF TypeOK
<1>2. \A c \in Clients : conn[c].tx \in Seq(Nat)
  BY <1>1 DEF Connection
<1>3. SndBuf \in Nat \ {0}
  BY EventLoopAssumption
<1> QED BY <1>1, <1>2, <1>3 DEF Sending

LEMMA SendingStarts == Init => Sending
<1> SUFFICES ASSUME Init PROVE Sending
  OBVIOUS
<1>1. \A c \in Clients : Len(conn[c].tx) = 0
  BY DEF Init
<1>2. SndBuf \in Nat \ {0}
  BY EventLoopAssumption
<1> QED BY <1>1, <1>2 DEF Init, Sending

(* A client can only empty its buffer.                                      *)
LEMMA ClientSends ==
  ASSUME TypeOK, Sending, NEW c \in Clients, Connect(c) \/ Send(c) \/ Receive(c) \/ Leave(c)
  PROVE  Sending'
<1>1. UNCHANGED <<parts, offset, pc>>
  BY DEF Connect, Send, Receive, Leave, Acts, answer
<1>2. /\ SndBuf \in Nat
      /\ \A d \in Clients : /\ conn[d].tx \in Seq(Nat) /\ Len(conn[d].tx) \in Nat
                            /\ Len(conn[d].tx) <= SndBuf
  BY Room
<1>3. \A d \in Clients : conn'[d].tx = conn[d].tx \/ (conn[d].tx # <<>> /\ conn'[d].tx = Tail(conn[d].tx))
  <2>1. conn \in [Clients -> Connection]
    BY DEF TypeOK
  <2>2. CASE Connect(c)
    BY <2>1, <2>2 DEF Connect, Connection
  <2>3. CASE Send(c)
    BY <2>1, <2>3 DEF Send, Connection
  <2>4. CASE Receive(c)
    BY <2>1, <2>4 DEF Receive, Connection
  <2>5. CASE Leave(c)
    BY <2>1, <2>5 DEF Leave, Connection
  <2> QED BY <2>2, <2>3, <2>4, <2>5
<1>4. \A d \in Clients : Len(conn'[d].tx) <= SndBuf
  <2> TAKE d \in Clients
  <2>1. conn[d].tx # <<>> => Len(Tail(conn[d].tx)) = Len(conn[d].tx) - 1
    BY <1>2, HeadTailProperties
  <2>2. Len(conn'[d].tx) = Len(conn[d].tx) \/ Len(conn'[d].tx) = Len(conn[d].tx) - 1
    BY <1>3, <2>1
  <2> QED BY <1>2, <2>2
<1> QED BY <1>1, <1>4 DEF Sending

(* Closing, for whatever reason, adds nothing to a buffer.                  *)
LEMMA ClosedSends == ASSUME NEW r \in Connection PROVE Closed(r).tx \in {r.tx, <<>>}
BY DEF Closed, Connection

LEMMA ExitSends == ASSUME TypeOK, Sending, NEW reason, Exit(reason) PROVE Sending'
<1>1. \A c \in Clients : conn'[c].tx \in {conn[c].tx, <<>>}
  <2> TAKE c \in Clients
  <2>1. conn[c] \in Connection
    BY DEF TypeOK
  <2>2. conn'[c] \in {Closed(conn[c]), [conn[c] EXCEPT !.phase = "reset"], conn[c]}
    BY DEF Exit
  <2>3. [conn[c] EXCEPT !.phase = "reset"].tx = conn[c].tx
    BY <2>1 DEF Connection
  <2> QED BY <2>1, <2>2, <2>3, ClosedSends
<1>2. Len(<<>>) = 0
  OBVIOUS
<1>3. \A c \in Clients : Len(conn'[c].tx) <= SndBuf
  BY <1>1, <1>2, Room
<1> QED BY <1>3 DEF Exit, Sending

LEMMA CloseSends == ASSUME Inv, Sending, CloseClient PROVE Sending'
<1> DEFINE c == owner[Head(batch).fd]
<1>1. c \in Clients /\ conn \in [Clients -> Connection]
  BY Serving DEF CloseClient, Inv, TypeOK
<1>2. conn' = [conn EXCEPT ![c] = Closed(@)] /\ UNCHANGED <<parts, offset>> /\ pc' \in {"poll", "handle"}
  BY DEF CloseClient, NextEvent, answer
<1> HIDE DEF c
<1>3. \A d \in Clients : conn'[d] = IF d = c THEN Closed(conn[c]) ELSE conn[d]
  BY <1>1, <1>2
<1>4. Closed(conn[c]).tx \in {conn[c].tx, <<>>}
  BY <1>1, ClosedSends
<1>5. Len(<<>>) = 0
  OBVIOUS
<1>6. \A d \in Clients : Len(conn'[d].tx) <= SndBuf
  <2>1. SndBuf \in Nat /\ \A d \in Clients : Len(conn[d].tx) <= SndBuf
    BY Room DEF Inv
  <2> QED BY <1>1, <1>3, <1>4, <1>5, <2>1
<1> QED BY <1>2, <1>6 DEF Sending

(* The kernel takes no more than there is room for.                         *)
LEMMA WriteSends == ASSUME Inv, Sending, Write PROVE Sending'
<1> DEFINE c == owner[Head(batch).fd]
           n == Fits(c)
<1>1. c \in Clients /\ conn \in [Clients -> Connection] /\ pc = "write"
  BY Serving DEF Write, Inv, TypeOK
<1>2. /\ conn[c].tx \in Seq(Nat) /\ Slice \in Seq(Nat) /\ n \in Int /\ n <= Len(Slice) /\ n > 0
      /\ SubSeq(Slice, 1, n) \in Seq(Nat)
  BY <1>1, WriteTypes DEF Write, Inv
<1>3. n <= SndBuf - Len(conn[c].tx)
  <2>1. SndBuf \in Nat /\ Len(conn[c].tx) \in Nat /\ Len(Slice) \in Nat
    BY <1>1, <1>2, Room DEF Inv
  <2>2. \A a, b \in Int : Smaller(a, b) <= a
    BY DEF Smaller
  <2> QED BY <2>1, <2>2 DEF Fits
<1>4. /\ conn' = [conn EXCEPT ![c].tx = @ \o SubSeq(Slice, 1, n),
                              ![c].stalled = @ \/ n < Len(Slice)]
      /\ IF offset + n < Len(Head(parts))
         THEN offset' = offset + n /\ UNCHANGED <<pc, parts>>
         ELSE NextPart
  BY DEF Write
<1> HIDE DEF c, n
<1>5. /\ conn'[c].tx = conn[c].tx \o SubSeq(Slice, 1, n)
      /\ \A d \in Clients : d # c => conn'[d] = conn[d]
  BY <1>1, <1>4 DEF Connection
<1>6. Len(SubSeq(Slice, 1, n)) = n
  BY <1>2
<1>7. Len(conn'[c].tx) = Len(conn[c].tx) + n
  <2>1. \A a, b \in Seq(Nat) : Len(a \o b) = Len(a) + Len(b)
    BY ConcatProperties
  <2> QED BY <1>2, <1>5, <1>6, <2>1
<1>8. \A d \in Clients : Len(conn'[d].tx) <= SndBuf
  <2>1. SndBuf \in Nat /\ \A d \in Clients : Len(conn[d].tx) \in Nat /\ Len(conn[d].tx) <= SndBuf
    BY Room DEF Inv
  <2>2. Len(conn'[c].tx) <= SndBuf
    BY <1>1, <1>2, <1>3, <1>7, <2>1
  <2> QED BY <1>5, <2>1, <2>2
<1>9. parts # <<>>
  BY <1>1 DEF Inv, TypeOK
<1> QED BY <1>4, <1>8, <1>9, NextPartSends DEF Sending

LEMMA SendingStep == Inv /\ Sending /\ [Next]_vars => Sending'
<1> SUFFICES ASSUME Inv, Sending, [Next]_vars PROVE Sending'
  OBVIOUS
<1>1. CASE \E c \in Clients : Connect(c) \/ Send(c) \/ Receive(c) \/ Leave(c)
  BY <1>1, ClientSends DEF Inv
<1>2. CASE AcceptFails \/ Crash \/ PollFails \/ Interrupt
  BY <1>2, ExitSends DEF AcceptFails, Crash, PollFails, Interrupt, Inv
<1>3. CASE Idle \/ UNCHANGED vars
  BY <1>3 DEF Idle, vars, answer, Sending
<1>4. CASE Poll
  BY <1>4 DEF Poll, answer, Sending
<1>5. CASE Accept
  <2>1. /\ UNCHANGED <<parts, offset>> /\ pc' \in {"poll", "handle"}
        /\ conn' = [conn EXCEPT ![Head(backlog)].phase = "open"] /\ conn \in [Clients -> Connection]
    BY <1>5 DEF Accept, NextEvent, answer, Inv, TypeOK
  <2>2. \A d \in Clients : conn'[d].tx = conn[d].tx
    BY <2>1 DEF Connection
  <2> QED BY <2>1, <2>2 DEF Sending
<1>6. CASE ReadRequest
  <2>1. /\ conn \in [Clients -> Connection] /\ offset' = 0
        /\ conn' = [conn EXCEPT ![owner[Head(batch).fd]].got = conn[owner[Head(batch).fd]].sent]
        /\ parts' \in {<<Header, File>>, <<Header, Page>>, <<Header>>, <<>>}
        /\ pc' = IF parts' = <<>> THEN "close" ELSE "write"
    BY <1>6 DEF ReadRequest, Inv, TypeOK, Answers
  <2>2. \A d \in Clients : conn'[d].tx = conn[d].tx
    BY <2>1 DEF Connection
  <2>3. Header \in Seq(Nat) /\ Header # <<>>
    BY EventLoopAssumption
  <2>4. Len(Header) \in Nat \ {0}
    BY <2>3, EmptySeq
  <2>5. parts' # <<>> => Head(parts') = Header
    BY <2>1
  <2> QED BY <2>1, <2>2, <2>4, <2>5 DEF Sending
<1>7. CASE WriteStops
  <2>1. /\ conn \in [Clients -> Connection] /\ NextPart /\ parts # <<>>
        /\ conn' = [conn EXCEPT ![owner[Head(batch).fd]].stalled = @ \/ Fits(owner[Head(batch).fd]) = 0]
    BY <1>7 DEF WriteStops, Inv, TypeOK
  <2>2. \A d \in Clients : conn'[d].tx = conn[d].tx
    BY <2>1 DEF Connection
  <2> QED BY <2>1, <2>2, NextPartSends DEF Sending
<1> QED BY <1>1, <1>2, <1>3, <1>4, <1>5, <1>6, <1>7, WriteSends, CloseSends DEF Next, Loop

(* The work is counted in natural numbers.                                  *)
LEMMA WorkCounted == Inv /\ Sending => Work \in Nat \X Nat \X Nat \X Nat
<1> SUFFICES ASSUME Inv, Sending PROVE Work \in Nat \X Nat \X Nat \X Nat
  OBVIOUS
<1>1. 2 - Cardinality(Open) \in Nat
  <2>1. IsFiniteSet(Open)
    BY EventLoopAssumption, FS_Subset DEF Open
  <2>2. Cardinality(Open) \in Nat
    BY <2>1, FS_CardinalityType
  <2> QED BY <2>2, Bounded DEF BoundedConnections
<1>2. Phase \in Nat
  BY DEF Phase
<1>3. Len(parts) \in Nat
  BY DEF Inv, TypeOK
<1>4. Unwritten \in Nat
  <2>1. CASE pc = "write"
    <3>1. parts # <<>> /\ offset \in Nat /\ offset < Len(Head(parts))
      BY <2>1 DEF Inv, TypeOK, Sending
    <3>2. Len(Head(parts)) \in Nat
      BY <3>1, PartsLeft
    <3> QED BY <2>1, <3>1, <3>2 DEF Unwritten
  <2>2. CASE pc # "write"
    BY <2>2 DEF Unwritten
  <2> QED BY <2>1, <2>2
<1> QED BY <1>1, <1>2, <1>3, <1>4 DEF Work

(* What must fall for the work to get less.                                 *)
LEMMA WorkFalls ==
  ASSUME Inv, Sending, Inv', Sending',
         \/ Cardinality(Open') > Cardinality(Open)
         \/ Open' = Open /\ Phase' < Phase
         \/ Open' = Open /\ Phase' = Phase /\ Len(parts') < Len(parts)
         \/ Open' = Open /\ Phase' = Phase /\ parts' = parts /\ Unwritten' < Unwritten
  PROVE  Less(Work', Work)
<1> DEFINE a == Work'
           b == Work
<1>1. /\ a[1] = 2 - Cardinality(Open') /\ a[2] = Phase' /\ a[3] = Len(parts') /\ a[4] = Unwritten'
      /\ b[1] = 2 - Cardinality(Open)  /\ b[2] = Phase  /\ b[3] = Len(parts)  /\ b[4] = Unwritten
  BY DEF Work
<1>2. Cardinality(Open) \in Int /\ Cardinality(Open') \in Int
  <2>1. IsFiniteSet(Open) /\ IsFiniteSet(Open')
    BY EventLoopAssumption, FS_Subset DEF Open
  <2> QED BY <2>1, FS_CardinalityType
<1> HIDE DEF a, b
<1>3. \/ a[1] < b[1]
      \/ a[1] = b[1] /\ a[2] < b[2]
      \/ a[1] = b[1] /\ a[2] = b[2] /\ a[3] < b[3]
      \/ a[1] = b[1] /\ a[2] = b[2] /\ a[3] = b[3] /\ a[4] < b[4]
  BY <1>1, <1>2
<1>4. \E i \in 1 .. 4 : a[i] < b[i] /\ \A j \in 1 .. i - 1 : a[j] = b[j]
  <2>1. CASE a[1] < b[1]
    BY <2>1
  <2>2. CASE a[1] = b[1] /\ a[2] < b[2]
    BY <2>2
  <2>3. CASE a[1] = b[1] /\ a[2] = b[2] /\ a[3] < b[3]
    BY <2>3
  <2>4. CASE a[1] = b[1] /\ a[2] = b[2] /\ a[3] = b[3] /\ a[4] < b[4]
    BY <2>4
  <2> QED BY <1>3, <2>1, <2>2, <2>3, <2>4
<1> QED BY <1>4 DEF Less, a, b

(* A part that is written, or given up, leaves fewer to be written.         *)
LEMMA PartsFall ==
  ASSUME Inv, Sending, Inv', Sending', pc = "write", NextPart, Open' = Open
  PROVE  Less(Work', Work)
<1>1. parts # <<>>
  BY DEF Inv, TypeOK
<1>2. pc' \in {"write", "close"} /\ Len(parts') = Len(parts) - 1 /\ Len(parts) \in Nat
  BY <1>1, NextPartSends, PartsLeft
<1>3. Phase = 1 /\ Phase' = IF pc' = "write" THEN 1 ELSE 0
  BY <1>2 DEF Phase
<1>4. \/ Open' = Open /\ Phase' < Phase
      \/ Open' = Open /\ Phase' = Phase /\ Len(parts') < Len(parts)
  BY <1>2, <1>3
<1> QED BY <1>4, WorkFalls

LEMMA WriteAdvances ==
  ASSUME Inv, Sending, Inv', Sending', Write
  PROVE  Less(Work', Work)
<1> DEFINE n == Fits(owner[Head(batch).fd])
<1>1. owner[Head(batch).fd] \in Clients /\ pc = "write"
  BY Serving DEF Write
<1>2. n \in Int /\ n > 0
  BY <1>1, WriteTypes DEF Write, Inv
<1>3. Open' = Open
  BY DEF Write, kernel, Open
<1>4. CASE offset + n < Len(Head(parts))
  <2>1. offset' = offset + n /\ pc' = pc /\ parts' = parts
    BY <1>4 DEF Write
  <2>2. parts # <<>> /\ offset \in Nat
    BY <1>1 DEF Inv, TypeOK
  <2>3. Len(Head(parts)) \in Nat
    BY <2>2, PartsLeft
  <2> HIDE DEF n
  <2>4. Unwritten' < Unwritten /\ Phase' = Phase
    BY <1>1, <1>2, <2>1, <2>2, <2>3 DEF Unwritten, Phase
  <2> QED BY <1>3, <2>1, <2>4, WorkFalls
<1>5. CASE ~(offset + n < Len(Head(parts)))
  BY <1>1, <1>3, <1>5, PartsFall DEF Write
<1> QED BY <1>4, <1>5

LEMMA LoopAdvances ==
  ASSUME Inv, Sending, Inv', Sending', Loop
  PROVE  Abs!DealWithFirst \/ (AbsLine' = AbsLine /\ Less(Work', Work))
<1>1. CASE Poll
  <2>1. Open' = Open /\ pc = "poll" /\ pc' = "handle"
    BY <1>1 DEF Poll, Open
  <2>2. Phase' < Phase
    BY <2>1 DEF Phase
  <2> QED BY <1>1, <2>1, <2>2, PollKeepsLine, WorkFalls
<1>2. CASE Accept
  <2> DEFINE f == Lowest(FreeFds)
  <2>1. f \in Fds /\ owner[f] = Nobody
    BY <1>2, LowestIsFree DEF Accept, FreeFds
  <2>2. Head(backlog) \in Clients /\ Head(backlog) # Nobody
    <3>1. backlog \in Seq(Clients) /\ backlog # <<>>
      BY <1>2 DEF Accept, Inv, TypeOK
    <3>2. Head(backlog) \in Clients
      BY <3>1
    <3> QED BY <3>2, EventLoopAssumption
  <2>3. owner' = [owner EXCEPT ![f] = Head(backlog)] /\ owner \in [Fds -> Clients \cup {Nobody}]
    BY <1>2 DEF Accept, Inv, TypeOK
  <2> HIDE DEF f
  <2>4. Open' = Open \cup {f} /\ f \notin Open
    BY <2>1, <2>2, <2>3 DEF Open
  <2>5. IsFiniteSet(Open)
    BY EventLoopAssumption, FS_Subset DEF Open
  <2>6. Cardinality(Open') = Cardinality(Open) + 1 /\ Cardinality(Open) \in Nat
    BY <2>4, <2>5, FS_AddElement, FS_CardinalityType
  <2>7. Cardinality(Open') > Cardinality(Open)
    BY <2>6
  <2> QED BY <1>2, <2>7, AcceptKeepsLine, WorkFalls
<1>3. CASE ReadRequest
  <2>1. UNCHANGED <<owner, batch, backlog>> /\ pc = "handle" /\ pc' \in {"write", "close"}
    BY <1>3 DEF ReadRequest, OnClient, kernel
  <2>2. Open' = Open /\ Phase' < Phase
    BY <2>1 DEF Open, Phase
  <2> QED BY <2>1, <2>2, LineFrame, WorkFalls
<1>4. CASE Write
  <2>1. UNCHANGED <<owner, batch, backlog>>
    BY <1>4 DEF Write, kernel
  <2> QED BY <1>4, <2>1, LineFrame, WriteAdvances
<1>5. CASE WriteStops
  <2>1. UNCHANGED <<owner, batch, backlog>> /\ pc = "write" /\ NextPart
    BY <1>5 DEF WriteStops, kernel
  <2>2. Open' = Open
    BY <2>1 DEF Open
  <2> QED BY <2>1, <2>2, LineFrame, PartsFall
<1> QED BY <1>1, <1>2, <1>3, <1>4, <1>5, CloseDealsWithFirst DEF Loop

(* Nobody but the loop adds to its work.                                    *)
LEMMA OthersWait ==
  ASSUME Inv, [Next]_vars, ~Loop
  PROVE  pc' = "stopped" \/ Work' = Work
<1>1. CASE AcceptFails \/ Crash \/ PollFails \/ Interrupt
  BY <1>1 DEF AcceptFails, Crash, PollFails, Interrupt, Exit
<1>2. CASE \/ \E c \in Clients : Connect(c) \/ Send(c) \/ Receive(c) \/ Leave(c)
           \/ Idle \/ UNCHANGED vars
  <2>1. UNCHANGED <<owner, pc, parts, offset>>
    BY <1>2 DEF Connect, Send, Receive, Leave, Acts, Idle, vars, kernel, answer
  <2> QED BY <2>1 DEF Work, Phase, Unwritten, Open
<1> QED BY <1>1, <1>2 DEF Next

LEMMA SendingInvariant == Spec => []Sending
BY SendingStarts, SendingStep, Invariant, PTL DEF Spec

(* Every turn ends: a step of the loop closes the connection of the first   *)
(* of the line or gets closer to that, by a measure that cannot fall for    *)
(* ever, and nothing that clients do in the meantime takes it back.         *)
THEOREM EveryTurnEnds ==
  Spec => /\ [](Work \in Nat \X Nat \X Nat \X Nat)
          /\ [][TurnsEnd]_vars
<1>1. Inv /\ Sending => Work \in Nat \X Nat \X Nat \X Nat
  BY WorkCounted
<1>2. Inv /\ Sending /\ Inv' /\ Sending' /\ [Next]_vars => [TurnsEnd]_vars
  BY LoopAdvances, OthersWait DEF TurnsEnd
<1> QED BY <1>1, <1>2, Invariant, SendingInvariant, PTL DEF Spec

(* epoll_wait has something to report when a descriptor is ready.           *)
LEMMA SomeBatch == ASSUME TypeOK, Ready # {} PROVE Batches # {}
<1> DEFINE n == Smaller(Cardinality(Ready), MaxEvents)
<1>1. IsFiniteSet(Ready)
  <2>1. IsFiniteSet(armed)
    BY EventLoopAssumption, FS_Subset DEF TypeOK
  <2>2. IsFiniteSet({Srv}) /\ IsFiniteSet({})
    BY FS_Singleton, FS_EmptySet
  <2> QED BY <2>1, <2>2, FS_Union DEF Ready
<1>2. Cardinality(Ready) \in Nat /\ ExistsBijection(1 .. Cardinality(Ready), Ready)
  BY <1>1, FS_CardinalityType
<1>3. PICK o \in [1 .. Cardinality(Ready) -> Ready] :
        \A i, j \in 1 .. Cardinality(Ready) : o[i] = o[j] => i = j
  BY <1>2 DEF ExistsBijection, Bijection, Injection, IsInjective
<1>4. \A i \in 1 .. n : i \in 1 .. Cardinality(Ready)
  <2>1. MaxEvents \in Nat
    BY EventLoopAssumption
  <2> QED BY <1>2, <2>1 DEF Smaller
<1> HIDE DEF n
<1> DEFINE p == [i \in 1 .. n |-> o[i]]
<1>5. p \in [1 .. n -> Ready] /\ \A i, j \in 1 .. n : i # j => p[i] # p[j]
  BY <1>3, <1>4
<1> HIDE DEF p
<1>6. [i \in 1 .. n |-> [fd |-> p[i], who |-> IF p[i] = Srv THEN Nobody ELSE owner[p[i]]]] \in Batches
  BY <1>5 DEF Batches, n
<1> QED BY <1>6

(* The loop is never stuck while somebody is in the line: no event is lost  *)
(* with its batch, no turn waits for its client, and there is always        *)
(* another step to take.                                                    *)
THEOREM NeverStuck == Spec => [](pc # "stopped" /\ AbsLine # <<>> => CanGoOn)
<1>1. ASSUME Inv, Sending, pc # "stopped", AbsLine # <<>> PROVE CanGoOn
  <2>1. CASE pc = "poll"
    <3>1. Reported = {} /\ Late = Open
      <4>1. Reported = {}
        BY <1>1, <2>1 DEF Inv, TypeOK, Reported
      <4> QED BY <4>1 DEF Late
    <3>2. Ready # {}
      <4>1. CASE backlog # <<>>
        BY <4>1 DEF Ready
      <4>2. CASE backlog = <<>> /\ Open = {}
        <5>1. AbsLine = (<<>> \o <<>>) \o <<>>
          BY <4>2, <3>1 DEF AbsLine, Owners
        <5>2. (<<>> \o <<>>) \o <<>> = <<>>
          OBVIOUS
        <5> QED BY <1>1, <5>1, <5>2
      <4>3. CASE Open # {}
        BY <4>3, <1>1, <3>1 DEF Inv, Turn, Ready
      <4> QED BY <4>1, <4>2, <4>3
    <3> QED BY <1>1, <2>1, <3>2, SomeBatch DEF CanGoOn, Inv
  <2>2. CASE pc = "handle"
    <3>1. batch # <<>>
      BY <1>1, <2>2 DEF Inv, TypeOK
    <3>2. Head(batch).fd = Srv => backlog # <<>> /\ FreeFds # {}
      BY <1>1, <2>2, AcceptCan DEF OnListener
    <3>3. Head(batch).fd # Srv => owner[Head(batch).fd] # Nobody
      BY <1>1, <3>1, FirstEvent DEF Open
    <3> QED BY <2>2, <3>2, <3>3 DEF CanGoOn, OnListener, OnClient
  <2>3. CASE pc = "write"
    <3> DEFINE c == owner[Head(batch).fd]
    <3>1. c \in Clients
      BY <1>1, <2>3, Serving
    <3>2. Slice \in Seq(Nat)
      BY <1>1, <2>3, <3>1, WriteTypes DEF Inv
    <3> HIDE DEF c
    <3>3. /\ SndBuf \in Nat /\ Len(conn[c].tx) \in Nat /\ Len(conn[c].tx) <= SndBuf
          /\ Len(Slice) \in Nat
      BY <1>1, <3>1, <3>2, Room DEF Inv
    <3>4. Fits(c) >= 0
      BY <3>3 DEF Fits, Smaller
    <3> QED BY <2>3, <3>4 DEF CanGoOn, c
  <2>4. CASE pc = "close"
    BY <2>4 DEF CanGoOn
  <2> QED BY <1>1, <2>1, <2>2, <2>3, <2>4 DEF Inv, TypeOK
<1> QED BY <1>1, Invariant, SendingInvariant, PTL
=============================================================================
