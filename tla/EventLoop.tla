------------------------------ MODULE EventLoop ------------------------------
(***************************************************************************)
(* The event loop of code/event.c with the socket functions it calls in    *)
(* code/os_linux.c and the callback it runs, handle_client of              *)
(* code/coragem.c, against clients that connect, send, read and leave at   *)
(* any moment.                                                             *)
(*                                                                         *)
(* One thread runs the loop: wait for events, then handle the events of    *)
(* the batch one after the other.  An event of the listening socket        *)
(* accepts one client; an event of a client reads all that has arrived,    *)
(* answers it and closes the connection, whatever the callback returned.   *)
(*                                                                         *)
(* The kernel is external: the queue of connections not yet accepted, the  *)
(* table of descriptors, the epoll set with its edge-triggered sockets,    *)
(* and a send buffer per connection that a client drains as it likes.      *)
(***************************************************************************)
EXTENDS Str, FiniteSets

CONSTANTS
  Clients,    \* each connects once
  Nobody,     \* the owner of a descriptor that is not in use
  Srv,        \* the descriptor of the listening socket
  Fds,        \* the descriptors the process can have for its clients
  Backlog,    \* EB_LISTEN_BACKLOG, the queue of the listening socket
  MaxEvents,  \* .event_count, the size of a batch of events
  SndBuf,     \* the send buffer of a connection
  Meaning,    \* Meaning[c][k+1]: what the server makes of c's first k pieces
  Header, File, Page,  \* the parts answers are made of, in units
  Faults      \* what may go wrong: "poll", "accept", "ctl", "ub", "signal"

Readings == {"nothing", "noMethod", "noPath", "found", "missing", "denied"}

ASSUME EventLoopAssumption ==
  /\ Nobody \notin Clients
  /\ Fds \subseteq Nat /\ IsFiniteSet(Fds) /\ Srv \in Nat \ Fds
  /\ Backlog \in Nat /\ MaxEvents \in Nat \ {0, 1} /\ SndBuf \in Nat \ {0}
  /\ Meaning \in [Clients -> Seq(Readings) \ {<<>>}]
  /\ \A part \in {Header, File, Page} : part \in Seq(Nat) /\ part # <<>>
  /\ Faults \subseteq {"poll", "accept", "ctl", "ub", "signal"}

\* With a single descriptor the server could not accept the next client
\* before it has closed the one before it.
ASSUME TwoDescriptors == \E f, g \in Fds : f # g

VARIABLES
  conn,      \* the clients with their connections
  backlog,   \* the clients that wait to be accepted, oldest first
  owner,     \* whose connection a descriptor is
  interest,  \* the client descriptors in the epoll set
  armed,     \* those of them that have an event to report
  pc,        \* where the loop is
  batch,     \* the events still to handle; `who' is the owner reported
  parts,     \* the parts of the answer still to write
  offset,    \* the `offset' of osFullWriteToSocket in the first of them
  why        \* what ended the loop

kernel == <<backlog, owner, interest, armed>>
answer == <<parts, offset>>
vars   == <<conn, kernel, pc, batch, answer, why>>

\* A connection: how many pieces of the request were sent and read; whether
\* the client has left; what it is being sent and has received; whether the
\* send buffer was ever found full.
Connection ==
  [phase : {"away", "queued", "open", "done", "reset"}, left : BOOLEAN,
   sent : Nat, got : Nat, tx : Seq(Nat), seen : Seq(Nat), stalled : BOOLEAN]

TypeOK ==
  /\ conn \in [Clients -> Connection]
  /\ backlog \in Seq(Clients)
  /\ owner \in [Fds -> Clients \cup {Nobody}]
  /\ interest \subseteq Fds /\ armed \subseteq interest
  /\ pc \in {"poll", "handle", "write", "close", "stopped"}
  /\ batch \in Seq([fd : Fds \cup {Srv}, who : Clients \cup {Nobody}])
  /\ parts \in Seq(Seq(Nat)) /\ offset \in Nat
  /\ why \in {"running", "again", "emfile"} \cup Faults
  /\ (pc = "poll" <=> batch = <<>> /\ pc # "stopped")
  /\ (pc = "write" <=> parts # <<>>)

Init ==
  /\ conn = [c \in Clients |-> [phase |-> "away", left |-> FALSE, sent |-> 0, got |-> 0,
                                tx |-> <<>>, seen |-> <<>>, stalled |-> FALSE]]
  /\ backlog = <<>> /\ owner = [f \in Fds |-> Nobody]
  /\ interest = {} /\ armed = {}
  /\ pc = "poll" /\ batch = <<>> /\ parts = <<>> /\ offset = 0 /\ why = "running"
-----------------------------------------------------------------------------
(* The clients and the kernel.                                             *)

\* Something happened on c's connection: an edge for epoll to report.
Edge(c) == armed' = armed \cup { f \in interest : owner[f] = c }

Connect(c) ==
  /\ conn[c].phase = "away" /\ pc # "stopped" /\ Len(backlog) < Backlog
  /\ conn' = [conn EXCEPT ![c].phase = "queued"]
  /\ backlog' = Append(backlog, c)
  /\ UNCHANGED <<owner, interest, armed, pc, batch, answer, why>>

\* A client acts on a connection that is open at its end.
Acts(c) ==
  /\ ~conn[c].left
  /\ Edge(c)
  /\ UNCHANGED <<backlog, owner, interest, pc, batch, answer, why>>

Send(c) ==
  /\ conn[c].phase \in {"queued", "open"} /\ conn[c].sent + 1 < Len(Meaning[c])
  /\ conn' = [conn EXCEPT ![c].sent = @ + 1]
  /\ Acts(c)

Receive(c) ==
  /\ conn[c].tx # <<>>
  /\ conn' = [conn EXCEPT ![c].seen = Append(@, Head(conn[c].tx)), ![c].tx = Tail(@)]
  /\ Acts(c)

Leave(c) ==
  /\ conn[c].phase \in {"queued", "open", "done"}
  /\ conn' = [conn EXCEPT ![c].left = TRUE]
  /\ Acts(c)

\* close(2) on a connection with unread data resets it, and what has not
\* been delivered is lost.
Closed(r) == IF r.got < r.sent THEN [r EXCEPT !.phase = "reset", !.tx = <<>>]
                               ELSE [r EXCEPT !.phase = "done"]

\* The process is gone, and the kernel closes what it had open.
Exit(reason) ==
  /\ why' = reason /\ pc' = "stopped"
  /\ conn' = [c \in Clients |->
                CASE conn[c].phase = "open"   -> Closed(conn[c])
                  [] conn[c].phase = "queued" -> [conn[c] EXCEPT !.phase = "reset"]
                  [] OTHER                    -> conn[c]]
  /\ owner' = [f \in Fds |-> Nobody]
  /\ backlog' = <<>> /\ interest' = {} /\ armed' = {}
  /\ batch' = <<>> /\ parts' = <<>> /\ offset' = 0
-----------------------------------------------------------------------------
(* The loop.                                                               *)

Ready == armed \cup (IF backlog = <<>> THEN {} ELSE {Srv})

\* The batches epoll_wait may report: as many of the ready descriptors as
\* fit, in any order.
Batches ==
  LET n == Smaller(Cardinality(Ready), MaxEvents)
  IN { [i \in 1 .. n |->
          [fd |-> order[i], who |-> IF order[i] = Srv THEN Nobody ELSE owner[order[i]]]] :
       order \in { o \in [1 .. n -> Ready] : \A i, j \in 1 .. n : i # j => o[i] # o[j] } }

Poll ==
  /\ pc = "poll" /\ Ready # {}
  /\ batch' \in Batches
  /\ armed' = armed \ { batch'[i].fd : i \in 1 .. Len(batch') }
  /\ pc' = "handle"
  /\ UNCHANGED <<conn, backlog, owner, interest, answer, why>>

\* A timeout, an interrupted wait, or the throttling sleep.
Idle == pc = "poll" /\ UNCHANGED vars

(* Definitions marked `Fault' are wrong on purpose: each is what a mistake  *)
(* in the code would make of the definition after it, and breaks a property.*)

\* Fault: waits for events one event too late.
NextEventLate ==
  /\ batch' = Tail(batch)
  /\ pc' = IF batch = <<>> THEN "poll" ELSE "handle"

\* Go on to the next event of the batch, or back to waiting.
NextEvent ==
  /\ batch' = Tail(batch)
  /\ pc' = IF Len(batch) = 1 THEN "poll" ELSE "handle"

OnListener == pc = "handle" /\ Head(batch).fd = Srv
OnClient   == pc = "handle" /\ Head(batch).fd # Srv

FreeFds == { f \in Fds : owner[f] = Nobody }

Lowest(fds) == CHOOSE f \in fds : \A g \in fds : f <= g

\* osAddSocketToMultiplexer.  A connection that can be written to has an
\* event to report at once.
Watch(f)   == interest' = interest \cup {f} /\ armed' = armed \cup {f}

\* osRemoveSocketFromMultiplexer
Unwatch(f) == interest' = interest \ {f} /\ armed' = armed \ {f}

\* Fault: asks epoll for arriving data only, not for room to write.
AcceptForReading ==
  /\ OnListener /\ backlog # <<>> /\ FreeFds # {}
  /\ LET c == Head(backlog)
         f == Lowest(FreeFds)
     IN /\ conn'  = [conn EXCEPT ![c].phase = "open"]
        /\ owner' = [owner EXCEPT ![f] = c]
        /\ interest' = interest \cup {f}
        /\ armed'    = IF conn[c].sent = 0 THEN armed ELSE armed \cup {f}
  /\ backlog' = Tail(backlog)
  /\ NextEvent
  /\ UNCHANGED <<answer, why>>

\* Fault: accepts until accept fails, as it would be right to do if the
\* failure that ends this were told from the others.
AcceptAll ==
  /\ OnListener /\ backlog # <<>> /\ FreeFds # {}
  /\ LET c == Head(backlog)
         f == Lowest(FreeFds)
     IN /\ conn'  = [conn EXCEPT ![c].phase = "open"]
        /\ owner' = [owner EXCEPT ![f] = c]
        /\ Watch(f)
  /\ backlog' = Tail(backlog)
  /\ UNCHANGED <<pc, batch, answer, why>>

\* osSocketAcceptConnection, and the registration of what it returns.
Accept ==
  /\ OnListener /\ backlog # <<>> /\ FreeFds # {}
  /\ LET c == Head(backlog)
         f == Lowest(FreeFds)
     IN /\ conn'  = [conn EXCEPT ![c].phase = "open"]
        /\ owner' = [owner EXCEPT ![f] = c]
        /\ Watch(f)
  /\ backlog' = Tail(backlog)
  /\ NextEvent
  /\ UNCHANGED <<answer, why>>

\* What can end the loop at an event of the listening socket.  An accept
\* that fails is followed by an fcntl of descriptor -1, whose errno hides
\* EAGAIN from the loop, so that no failure is retried.
AcceptFailures ==
  (Faults \cap {"accept", "ctl"})
    \cup (IF backlog = <<>> THEN {"again"}  ELSE {})
    \cup (IF FreeFds = {}   THEN {"emfile"} ELSE {})

AcceptFails == OnListener /\ \E reason \in AcceptFailures : Exit(reason)

\* What handle_client writes for what it read.  Without a path the answer
\* depends on an uninitialized Str.
Answers(reading) ==
  CASE reading = "found"   -> {<<Header, File>>}
    [] reading = "missing" -> {<<Header, Page>>}
    [] reading = "denied"  -> {<<Header>>}
    [] reading = "noPath"  -> {<<Header, File>>, <<Header, Page>>, <<Header>>}
    [] OTHER               -> {<<>>}

Reading(c) == Meaning[c][conn[c].sent + 1]

\* osFullReadFromSocket takes all that has arrived, and the callback makes
\* the answer of it.
ReadRequest ==
  /\ OnClient
  /\ LET c == owner[Head(batch).fd]
     IN /\ c # Nobody
        /\ conn' = [conn EXCEPT ![c].got = conn[c].sent]
        /\ parts' \in Answers(Reading(c))
  /\ offset' = 0
  /\ pc' = IF parts' = <<>> THEN "close" ELSE "write"
  /\ UNCHANGED <<kernel, batch, why>>

\* Fault: an answer ends with its first part.
NextPartNever == parts' = <<>> /\ offset' = 0 /\ pc' = "close"

\* The next part of the answer, if there is one, is written from its start.
NextPart ==
  /\ parts' = Tail(parts) /\ offset' = 0
  /\ pc' = IF Len(parts) = 1 THEN "close" ELSE "write"

\* What the next write of osFullWriteToSocket offers to the kernel, and how
\* much of it fits.  The third argument is meant as a length.
Slice == Substr(Head(parts), offset, Len(Head(parts)) - offset)
Fits(c) == Smaller(SndBuf - Len(conn[c].tx), Len(Slice))

\* One write of osFullWriteToSocket that the kernel takes something of.
Write ==
  /\ pc = "write"
  /\ LET c == owner[Head(batch).fd]
         n == Fits(c)
     IN /\ n > 0
        /\ conn' = [conn EXCEPT ![c].tx = @ \o SubSeq(Slice, 1, n),
                                ![c].stalled = @ \/ n < Len(Slice)]
        /\ IF offset + n < Len(Head(parts))
           THEN offset' = offset + n /\ UNCHANGED <<pc, parts>>
           ELSE NextPart
  /\ UNCHANGED <<kernel, batch, why>>

\* One that it takes nothing of: no room, nothing offered, or EPIPE.  The
\* rest of the part is given up.
WriteStops ==
  /\ pc = "write"
  /\ LET c == owner[Head(batch).fd]
     IN /\ Fits(c) = 0 \/ conn[c].left
        /\ conn' = [conn EXCEPT ![c].stalled = @ \/ Fits(c) = 0]
  /\ NextPart
  /\ UNCHANGED <<kernel, batch, why>>

\* What the build may do instead of answering: the path of a request that
\* has none, and the arena readFile takes its buffer from, are read
\* uninitialized.
Crash ==
  /\ "ub" \in Faults
  /\ \/ OnClient /\ Reading(owner[Head(batch).fd]) = "noPath"
     \/ pc = "write" /\ Head(parts) = File /\ offset = 0
  /\ Exit("ub")

\* Fault: looks at the event again, for more to read, after the close.
CloseClientAndRetry ==
  /\ pc = "close"
  /\ LET f == Head(batch).fd
         c == owner[f]
     IN /\ conn'  = [conn EXCEPT ![c] = Closed(@)]
        /\ owner' = [owner EXCEPT ![f] = Nobody]
        /\ Unwatch(f)
  /\ pc' = "handle"
  /\ UNCHANGED <<backlog, batch, answer, why>>

\* Fault: keeps the clients the callback asks to keep.
CloseClientUnlessKept ==
  /\ pc = "close"
  /\ LET f == Head(batch).fd
         c == owner[f]
     IN IF conn[c].got = 0
        THEN UNCHANGED <<conn, owner, interest, armed>>
        ELSE /\ conn'  = [conn EXCEPT ![c] = Closed(@)]
             /\ owner' = [owner EXCEPT ![f] = Nobody]
             /\ Unwatch(f)
  /\ NextEvent
  /\ UNCHANGED <<backlog, answer, why>>

\* Whatever the callback returned, CallbackKeepClient included.
CloseClient ==
  /\ pc = "close"
  /\ LET f == Head(batch).fd
         c == owner[f]
     IN /\ conn'  = [conn EXCEPT ![c] = Closed(@)]
        /\ owner' = [owner EXCEPT ![f] = Nobody]
        /\ Unwatch(f)
  /\ NextEvent
  /\ UNCHANGED <<backlog, answer, why>>

\* epoll_wait fails for another reason than a signal.
PollFails == pc = "poll" /\ "poll" \in Faults /\ Exit("poll")

\* sigint_handler ends the process wherever it is.
Interrupt == pc # "stopped" /\ "signal" \in Faults /\ Exit("signal")

Loop == Poll \/ Accept \/ ReadRequest \/ Write \/ WriteStops \/ CloseClient

Next ==
  \/ \E c \in Clients : Connect(c) \/ Send(c) \/ Receive(c) \/ Leave(c)
  \/ Loop \/ Idle
  \/ AcceptFails \/ Crash \/ PollFails \/ Interrupt

\* The process runs as long as it has something to do.
Spec == Init /\ [][Next]_vars /\ WF_vars(Loop)
-----------------------------------------------------------------------------
(* Properties.                                                             *)

\* An event is handled on the connection it was reported for, although
\* earlier events of its batch close descriptors and accept new clients to
\* the numbers this sets free.
EventIsFresh ==
  \A i \in 1 .. Len(batch) :
     batch[i].fd # Srv => /\ batch[i].who # Nobody
                          /\ owner[batch[i].fd] = batch[i].who

Open == { f \in Fds : owner[f] # Nobody }

\* The server never holds more than two connections, and waits for events
\* with at most one.
BoundedConnections ==
  Cardinality(Open) <= 2 /\ (pc = "poll" => Cardinality(Open) <= 1)

\* When the loop waits, every accepted connection has one descriptor, and
\* epoll is going to report it: none has been forgotten in the epoll set or
\* left open beside it.
NobodyForgotten ==
  /\ \A c \in Clients : conn[c].phase = "open" => \E f \in Fds : owner[f] = c
  /\ \A f \in Open : conn[owner[f]].phase = "open"
  /\ \A f, g \in Open : owner[f] = owner[g] => f = g
  /\ pc = "poll" => Open = armed

\* The loop ends only after the kernel refused something or an
\* uninitialized value was used: no sequence of arrivals and departures
\* ends it by itself, through an accept that finds nobody or no descriptor.
StopExplained == pc = "stopped" => why \in Faults

Delivered(c) == conn[c].seen \o conn[c].tx

Concat(ps) == IF Len(ps) = 2 THEN ps[1] \o ps[2] ELSE IF ps = <<>> THEN <<>> ELSE ps[1]

Whole(c) == { Concat(ps) : ps \in Answers(Meaning[c][conn[c].got + 1]) }

\* A client whose connection was closed by the loop, with everything it had
\* sent read, gets the whole answer to what was read, unless it left or let
\* its buffer run full.
AnswerIfRoom ==
  pc # "stopped" =>
    \A c \in Clients :
       conn[c].phase = "done" /\ ~conn[c].left /\ ~conn[c].stalled =>
         Delivered(c) \in Whole(c)

\* What a client that stays gets is the beginning of an answer to what was
\* read from it, of the length that the header announced.
AnswerPrefix ==
  \A c \in Clients :
     conn[c].phase \in {"open", "done"} /\ ~conn[c].left =>
       \E whole \in Whole(c) :
          Len(Delivered(c)) <= Len(whole)
            /\ Delivered(c) = SubSeq(whole, 1, Len(Delivered(c)))

\* The loop implements one line of clients.  First in it is the client whose
\* event is being handled or about to be, then one that was accepted in this
\* round or is waited for, then the kernel's queue.
Reported == { batch[i].fd : i \in 1 .. Len(batch) }
Owners(fds) == IF fds = {} THEN <<>> ELSE << owner[Lowest(fds)] >>
AbsLine == Owners(Open \cap Reported) \o Owners(Open \ Reported) \o backlog

Abs == INSTANCE FirstCome WITH line <- AbsLine, shut <- (pc = "stopped")

FirstComeFirstServed == Abs!Spec

\* Every client in the queue is accepted and, in the end, closed, unless the
\* loop ends.
Served ==
  \A c \in Clients :
     conn[c].phase = "queued" ~> conn[c].phase \in {"done", "reset"} \/ pc = "stopped"
=============================================================================
