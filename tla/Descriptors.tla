----------------------------- MODULE Descriptors -----------------------------
(***************************************************************************)
(* Who has which descriptor, from the start of the server to its end, and  *)
(* where the bytes go that it writes.  The kernel hands out the lowest     *)
(* free number.  A background process has closed 0, 1 and 2 (code/         *)
(* os_linux.c) and opens nothing in their place, but log() and the handler *)
(* of SIGINT write to 2 all the same.                                      *)
(*                                                                         *)
(* One action per call that opens, closes or writes something.  How the    *)
(* loop comes to a client is EventLoop; that it holds two at most is       *)
(* proved there (FewConnections).  How a start can fail otherwise is       *)
(* Startup, and what opens the things that are configured is Config.       *)
(***************************************************************************)
EXTENDS Naturals, Sequences, FiniteSets

CONSTANTS
  Clients, Nobody,
  Free,        \* stands in the table for no file
  Limit,       \* RLIMIT_NOFILE
  Length,      \* of a file that fits into the buffer of readFile, in bytes
  Large,       \* of a file that does not
  Garbage,     \* how many bytes may be sent of such a file
  PageLength,  \* of NOT_FOUND_HTML
  PrintEvery,  \* 4096: how often handle_client tells what it used
  MaxStarts    \* bound: how often the server is started

Std        == <<"stdin", "stdout", "stderr">>
Configured == <<"info", "error", "request", "root", "work">>
Kept       == { Configured[i] : i \in 1 .. 5 }
Things     == Kept \cup {"stdin", "stdout", "stderr", "config", "pid", "listener", "epoll", "file"}
Fds        == 0 .. Limit - 1
Requests   == {"nothing", "noMethod", "file", "large", "folder", "missing", "denied"}
Found      == {"file", "large", "folder"}
Statuses   == {"none", "200", "404", "500"}
Texts      == {"starting", "debug", "info", "stop"}

ASSUME DescriptorsAssumption ==
  /\ Limit \in Nat \ {0, 1, 2} /\ PrintEvery \in Nat \ {0} /\ {Length, Large, PageLength, MaxStarts} \subseteq Nat
  /\ Garbage \subseteq Nat /\ Garbage # {}
  /\ Nobody \notin Clients /\ Free \notin Clients \cup Things /\ Clients \cap Things = {}

VARIABLES
  pc,
  table,       \* the open files of the process
  background,  \* whether it has become a background process
  next, kept,  \* what is to be opened next, and what could be opened
  came,        \* the clients that have connected
  current, request, status,  \* in handle_client: the client, what it asks, `ret'
  counter,     \* print_counter
  got,         \* what every client was sent: records of what it is and its length
  log,         \* the request log, which stays when the process ends
  starts

start == <<background, next, kept, starts>>
work  == <<current, request, status>>
vars  == <<pc, table, start, came, work, counter, got, log>>

TypeOK ==
  /\ pc \in {"off", "arguments", "config", "opening", "pid", "close pid", "announce",
             "listen", "epoll", "wait", "open", "debug", "header", "body",
             "close file", "log", "info", "close", "stopped"}
  /\ table \in [Fds -> Things \cup Clients \cup {Free}]
  /\ background \in BOOLEAN /\ kept \subseteq Kept
  /\ next \in 1 .. 6
  /\ came \subseteq Clients
  /\ current \in Clients \cup {Nobody} /\ request \in Requests /\ status \in Statuses
  /\ counter \in 0 .. PrintEvery
  /\ got \in [Clients -> Seq([what : Statuses \cup Texts \cup {"rest", "page", "file", "garbage"}, bytes : Nat])]
  /\ log \in Seq([who : Clients \cup {Nobody}, what : Statuses \cup Texts])
  /\ starts \in 0 .. MaxStarts
-----------------------------------------------------------------------------
(* The kernel.                                                             *)

FreeFds  == { f \in Fds : table[f] = Free }
Lowest   == CHOOSE f \in FreeFds : \A g \in FreeFds : f <= g
NoFiles  == [f \in Fds |-> Free]
Connected == { c \in Clients : \E f \in Fds : table[f] = c }

Open(thing)  == FreeFds # {} /\ table' = [table EXCEPT ![Lowest] = thing]
Close(thing) == table' = [f \in Fds |-> IF table[f] = thing THEN Free ELSE table[f]]

\* What is written to descriptor 2, by log() or by sigint_handler.
WriteText(t) ==
  LET to == table[2]
  IN /\ got' = IF to \in Clients THEN [got EXCEPT ![to] = Append(@, [what |-> t, bytes |-> 0])] ELSE got
     /\ log' = IF to = "request" THEN Append(log, [who |-> Nobody, what |-> t]) ELSE log
-----------------------------------------------------------------------------
(* The start.                                                              *)

Init ==
  /\ pc = "off" /\ table = NoFiles /\ background = FALSE /\ next = 1 /\ kept = {}
  /\ came = {} /\ current = Nobody /\ request = "nothing" /\ status = "none" /\ counter = 0
  /\ got = [c \in Clients |-> <<>>] /\ log = <<>> /\ starts = 0

Start ==
  /\ pc \in {"off", "stopped"} /\ starts < MaxStarts
  /\ starts' = starts + 1 /\ pc' = "arguments"
  /\ table' = [f \in Fds |-> IF f <= 2 THEN Std[f + 1] ELSE Free]
  /\ background' = FALSE /\ next' = 1 /\ kept' = {}
  /\ current' = Nobody /\ request' = "nothing" /\ status' = "none" /\ counter' = 0
  /\ UNCHANGED <<came, got, log>>

\* With --daemon, osAppToBackgroundProcess.
Detach ==
  /\ pc = "arguments" /\ pc' = "config"
  /\ background' = TRUE /\ table' = NoFiles
  /\ UNCHANGED <<next, kept, starts, came, work, counter, got, log>>

StayInFront ==
  /\ pc = "arguments" /\ pc' = "config"
  /\ UNCHANGED <<table, start, came, work, counter, got, log>>

\* read_config_file.  There may be none, or it cannot be opened.
OpenConfig ==
  /\ pc = "config"
  /\ \/ Open("config") /\ pc' = "opening"
     \/ pc' = "pid" /\ UNCHANGED table
  /\ UNCHANGED <<start, came, work, counter, got, log>>

(* Definitions marked `Fault' are wrong on purpose: each is what a mistake  *)
(* in the code would make of the definition after it, and breaks a property.*)

\* Fault: closes a folder as soon as it is known to be there.
OpenNextFolderBriefly ==
  /\ pc = "opening" /\ next <= 5
  /\ \/ kept' = kept /\ UNCHANGED <<table, log>>
     \/ /\ IF Configured[next] = "root" THEN UNCHANGED table ELSE Open(Configured[next])
        /\ kept' = kept \cup {Configured[next]} /\ UNCHANGED log
  /\ next' = next + 1
  /\ UNCHANGED <<pc, background, starts, came, work, counter, got>>

\* parse_config_file opens the logs and the folders that are configured, one
\* after the other.  Each may fail.  The folders stay open, too.
OpenNext ==
  /\ pc = "opening" /\ next <= 5
  /\ \/ kept' = kept /\ UNCHANGED <<table, log>>
     \/ Open(Configured[next]) /\ kept' = kept \cup {Configured[next]} /\ UNCHANGED log
  /\ next' = next + 1
  /\ UNCHANGED <<pc, background, starts, came, work, counter, got>>

\* Fault: closes the configuration on the path of the failures only.
CloseConfigIfEmpty ==
  /\ pc = "opening" /\ next \in {1, 6} /\ pc' = "pid"
  /\ IF next = 6 THEN UNCHANGED table ELSE Close("config")
  /\ UNCHANGED <<start, came, work, counter, got, log>>

\* After that, or at once if the configuration is empty.
CloseConfig ==
  /\ pc = "opening" /\ next \in {1, 6} /\ pc' = "pid"
  /\ Close("config")
  /\ UNCHANGED <<start, came, work, counter, got, log>>

\* osSetupWorkingDirectory
OpenPid ==
  /\ pc = "pid"
  /\ \/ Open("pid") /\ pc' = "close pid"
     \/ pc' = "announce" /\ UNCHANGED table
  /\ UNCHANGED <<start, came, work, counter, got, log>>

ClosePid ==
  /\ pc = "close pid" /\ pc' = "announce" /\ Close("pid")
  /\ UNCHANGED <<start, came, work, counter, got, log>>

\* "Starting server at ..."
Announce ==
  /\ pc = "announce" /\ pc' = "listen" /\ WriteText("starting")
  /\ UNCHANGED <<table, start, came, work, counter>>

\* The process ends, and the kernel closes what it had open.
Stop == pc' = "stopped" /\ table' = NoFiles

\* osSocketGetServerSocket
Listen ==
  /\ pc = "listen"
  /\ \/ Open("listener") /\ pc' = "epoll"
     \/ FreeFds = {} /\ Stop
  /\ UNCHANGED <<start, came, work, counter, got, log>>

\* osCreateMultiplexerSocket.  Its failure is noticed by the first wait.
Multiplex ==
  /\ pc = "epoll"
  /\ \/ Open("epoll") /\ pc' = "wait"
     \/ FreeFds = {} /\ Stop
  /\ UNCHANGED <<start, came, work, counter, got, log>>
-----------------------------------------------------------------------------
(* The loop.                                                               *)

Accept(c) ==
  /\ pc = "wait" /\ c \notin came /\ Cardinality(Connected) < 2
  /\ came' = came \cup {c}
  /\ \/ Open(c) /\ UNCHANGED pc
     \/ FreeFds = {} /\ Stop
  /\ UNCHANGED <<start, work, counter, got, log>>

\* handle_client has read the request r from c.  Without a line it returns
\* at once.
Handle(c, r) ==
  /\ pc = "wait" /\ c \in Connected
  /\ current' = c /\ request' = r /\ status' = "none"
  /\ pc' = CASE r = "nothing"  -> "close"
             [] r = "noMethod" -> "log"
             [] OTHER          -> "open"
  /\ UNCHANGED <<table, start, came, counter, got, log>>

\* Fault: does not initialize `ret'.
OpenFileUninitialized ==
  /\ pc = "open"
  /\ \/ request \in Found /\ Open("file") /\ status' = "200"
     \/ request = "missing" /\ FreeFds # {} /\ status' = "404" /\ UNCHANGED table
     \/ (request = "denied" \/ FreeFds = {}) /\ status' = "garbage" /\ UNCHANGED table
  /\ pc' = IF status' = "garbage" THEN "debug" ELSE "header"
  /\ UNCHANGED <<start, came, current, request, counter, got, log>>

\* openRequestedFile, and the status it gives.  The system looks for a free
\* descriptor before it looks for the file.
OpenFile ==
  /\ pc = "open"
  /\ \/ request \in Found /\ Open("file") /\ status' = "200"
     \/ request = "missing" /\ FreeFds # {} /\ status' = "404" /\ UNCHANGED table
     \/ (request = "denied" \/ FreeFds = {}) /\ status' = "500" /\ UNCHANGED table
  /\ pc' = IF status' = "500" THEN "debug" ELSE "header"
  /\ UNCHANGED <<start, came, current, request, counter, got, log>>

\* print_file_error
Debug ==
  /\ pc = "debug" /\ pc' = "header" /\ WriteText("debug")
  /\ UNCHANGED <<table, start, came, work, counter>>

Send(parts) == got' = [got EXCEPT ![current] = @ \o parts]

\* What the header says of the length, if it says anything: what fstat did.
\* Of a folder no byte is sent, so that its length is one for all.
Announced == CASE status # "200"     -> 0
               [] request = "large" -> Large
               [] OTHER             -> Length

\* The header, and what is sent with it behind its blank line: another line
\* end.
Header ==
  /\ pc = "header" /\ pc' = "body"
  /\ Send(<< [what |-> status, bytes |-> Announced], [what |-> "rest", bytes |-> 2] >>)
  /\ UNCHANGED <<table, start, came, work, counter, log>>

\* NOT_FOUND_HTML, or what readFile reads of the file: of a folder, nothing.
\* A large file runs over its buffer, and any bytes may be sent for it.
Body ==
  /\ pc = "body" /\ pc' = "close file"
  /\ \E n \in Garbage :
       Send(CASE status = "404" -> << [what |-> "page", bytes |-> PageLength] >>
              [] status = "200" /\ request = "file"  -> << [what |-> "file", bytes |-> Length] >>
              [] status = "200" /\ request = "large" -> << [what |-> "garbage", bytes |-> n] >>
              [] OTHER -> <<>>)
  /\ UNCHANGED <<table, start, came, work, counter, log>>

\* readFile takes its arena from a variable that nothing has set, and does not
\* look at the length of what it reads: whatever is found, the process may die.
BodyDies ==
  /\ pc = "body" /\ status = "200"
  /\ pc' = "off" /\ table' = NoFiles
  /\ UNCHANGED <<start, came, work, counter, got, log>>

\* Fault: closes what it could read from.
CloseFileIfRead ==
  /\ pc = "close file" /\ pc' = "log"
  /\ IF request = "file" THEN Close("file") ELSE UNCHANGED table
  /\ UNCHANGED <<start, came, work, counter, got, log>>

\* closeRequestedFile
CloseFile ==
  /\ pc = "close file" /\ pc' = "log" /\ Close("file")
  /\ UNCHANGED <<start, came, work, counter, got, log>>

\* print_counter
Count == counter' = (counter % PrintEvery) + 1

\* Fault: looks at `ret' again before it is logged, not after.
LogRequestLate ==
  /\ pc = "log"
  /\ log' = IF "request" \in kept
            THEN Append(log, [who |-> current, what |-> IF status = "none" THEN "200" ELSE status])
            ELSE log
  /\ Count
  /\ pc' = IF counter % PrintEvery = 0 THEN "info" ELSE "close"
  /\ UNCHANGED <<table, start, came, work, got>>

\* The line of the request log, if there is one.
LogRequest ==
  /\ pc = "log"
  /\ log' = IF "request" \in kept THEN Append(log, [who |-> current, what |-> status]) ELSE log
  /\ Count
  /\ pc' = IF counter % PrintEvery = 0 THEN "info" ELSE "close"
  /\ UNCHANGED <<table, start, came, work, got>>

\* "CPU time used ..."
Info ==
  /\ pc = "info" /\ pc' = "close" /\ WriteText("info")
  /\ UNCHANGED <<table, start, came, work, counter>>

CloseClient ==
  /\ pc = "close" /\ pc' = "wait"
  /\ Close(current) /\ current' = Nobody
  /\ UNCHANGED <<start, came, request, status, counter, got, log>>

\* sigint_handler, wherever the process is.
Interrupt ==
  /\ pc \notin {"off", "stopped"}
  /\ WriteText("stop")
  /\ pc' = "off" /\ table' = NoFiles
  /\ UNCHANGED <<start, came, work, counter>>

Next ==
  \/ Start \/ Detach \/ StayInFront \/ OpenConfig \/ OpenNext \/ CloseConfig
  \/ OpenPid \/ ClosePid \/ Announce \/ Listen \/ Multiplex
  \/ \E c \in Clients : Accept(c) \/ \E r \in Requests : Handle(c, r)
  \/ OpenFile \/ Debug \/ Header \/ Body \/ BodyDies \/ CloseFile \/ LogRequest \/ Info \/ CloseClient
  \/ Interrupt

Spec == Init /\ [][Next]_vars
-----------------------------------------------------------------------------
(* Properties.                                                             *)

Foreground == IF background THEN {} ELSE {"stdin", "stdout", "stderr"}

\* Whichever way the start and the requests before went, a server that waits
\* holds what it keeps, its two sockets and its clients, once each: no
\* configuration, pid file, page or client was left open.
NothingLeaks ==
  pc = "wait" =>
    /\ { table[f] : f \in Fds } \ {Free} = Foreground \cup kept \cup {"listener", "epoll"} \cup Connected
    /\ \A f, g \in Fds : table[f] = table[g] /\ table[f] # Free => f = g

IsText(part) == part.what \in Texts

\* A client is sent nothing but its answer, unless the server is in the
\* background and keeps neither a log nor a folder open: then, and only then,
\* a client gets number 2, and what the server says about itself.
OwnBytesOnly ==
  [][ \A c \in Clients :
        got'[c] # got[c] => \/ c = current /\ ~IsText(got'[c][Len(got'[c])])
                            \/ background /\ kept = {} ]_vars

\* What c was answered.
Answered(c) ==
  IF \E i \in 1 .. Len(got[c]) : got[c][i].what \in Statuses
  THEN LET i == CHOOSE j \in 1 .. Len(got[c]) : got[c][j].what \in Statuses IN got[c][i].what
  ELSE "none"

\* A line of the request log has the status that the client was sent, there is
\* one line for a client, and it is there when the connection is closed.
LogTellsTruth ==
  /\ \A i \in 1 .. Len(log) : log[i].who # Nobody => log[i].what = Answered(log[i].who)
  /\ \A i, j \in 1 .. Len(log) : log[i].who = log[j].who /\ log[i].who # Nobody => i = j
  /\ pc \in {"info", "close"} /\ request # "nothing" /\ "request" \in kept =>
       \E i \in 1 .. Len(log) : log[i].who = current

\* What a server needs: what it keeps, two sockets, two clients and a file.
Enough == Limit >= Cardinality(Foreground) + Cardinality(kept) + 2 + 2 + 1

\* As long as the process may have so many, nothing is refused for want of a
\* descriptor: no start or accept ends the server, and no page that is there
\* becomes an error.
EnoughDescriptors ==
  Enough => pc # "stopped" /\ (request \in Found => status # "500")

\* Behind its header, the client is sent as many bytes as the header announces.
ContentAsAnnounced ==
  \A c \in Clients : \A i \in 3 .. Len(got[c]) :
     got[c][i].what = "file" /\ got[c][i - 2].what = "200" =>
       got[c][i - 1].bytes + got[c][i].bytes = got[c][i - 2].bytes
=============================================================================
