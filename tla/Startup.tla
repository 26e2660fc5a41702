------------------------------- MODULE Startup -------------------------------
(***************************************************************************)
(* Starting the server, while others are started, serve, or are killed:    *)
(* init_server of code/coragem.c with the pid file of                      *)
(* osSetupWorkingDirectory and the listening socket of                     *)
(* osSocketGetServerSocket (code/os_linux.c).  All processes have the same *)
(* configuration: one pid file, and one list of addresses.                 *)
(*                                                                         *)
(* The kernel is external.  Every socket has SO_REUSEADDR, so that several *)
(* may be bound to an address as long as none of them listens.             *)
(***************************************************************************)
EXTENDS Integers, Sequences, FiniteSets

CONSTANTS
  Procs,        \* the processes, by their pids
  Digits,       \* Digits[p]: how many digits the pid of p has
  Addrs,        \* what getaddrinfo returns, a sequence of addresses
  MaxStarts     \* bound: how often a process is started

ASSUME StartupAssumption ==
  /\ Len(Addrs) \in Nat \ {0} /\ DOMAIN Addrs = 1 .. Len(Addrs)
  /\ \A i, j \in DOMAIN Addrs : Addrs[i] = Addrs[j] => i = j
  /\ Digits \in [Procs -> Nat \ {0}] /\ MaxStarts \in Nat

VARIABLES
  pc,           \* pc[p], see States
  rp,           \* rp[p]: the address p is at, `rp' in the code
  bound,        \* the processes with a socket bound to that address
  listening,    \* those of them whose socket listens
  refused,      \* refused[p]: the addresses p could not bind (history)
  pidFile,      \* the contents of the pid file, each digit by its process
  starts,       \* starts[p]: how often p was started, for the bound
  supported,    \* the addresses whose family the kernel has sockets for
  writable      \* whether the pid file can be opened for writing

vars == <<pc, rp, bound, listening, refused, pidFile, starts, supported, writable>>

States == {"off", "arguments", "open pid", "write pid", "address", "socket",
           "bind", "listen", "serve", "failed"}

TypeOK ==
  /\ pc \in [Procs -> States]
  /\ rp \in [Procs -> 1 .. Len(Addrs) + 1]
  /\ listening \subseteq bound /\ bound \subseteq Procs
  /\ refused \in [Procs -> SUBSET (1 .. Len(Addrs))]
  /\ pidFile \in Seq(Procs)
  /\ starts \in [Procs -> 0 .. MaxStarts]
  /\ writable \in BOOLEAN
-----------------------------------------------------------------------------
Addr(p) == Addrs[rp[p]]

\* The kernel refuses an address at which another process listens.
Taken(p) == \E q \in listening \ {p} : Addr(q) = Addr(p)

Go(p, state) == pc' = [pc EXCEPT ![p] = state]

Init == /\ pc = [p \in Procs |-> "off"]
        /\ rp = [p \in Procs |-> 1]
        /\ bound = {} /\ listening = {}
        /\ refused = [p \in Procs |-> {}]
        /\ pidFile = <<>>
        /\ starts = [p \in Procs |-> 0]
        /\ supported \in SUBSET {Addrs[i] : i \in DOMAIN Addrs}
        /\ writable \in BOOLEAN

\* Somebody starts the program: app_entry_point.
Start(p) ==
  /\ pc[p] \in {"off", "failed"}
  /\ starts[p] < MaxStarts
  /\ starts' = [starts EXCEPT ![p] = @ + 1]
  /\ Go(p, "arguments")
  /\ rp' = [rp EXCEPT ![p] = 1]
  /\ refused' = [refused EXCEPT ![p] = {}]
  /\ UNCHANGED <<bound, listening, pidFile, supported, writable>>

\* --config without a path, or a fork that fails, ends the start; otherwise
\* the configuration is read.
Arguments(p) ==
  /\ pc[p] = "arguments"
  /\ Go(p, "open pid") \/ Go(p, "off")
  /\ UNCHANGED <<rp, bound, listening, refused, pidFile, starts, supported, writable>>

\* osSetupWorkingDirectory opens the pid file and truncates it.  If it
\* cannot, nothing is written and nobody notices.
OpenPid(p) ==
  /\ pc[p] = "open pid"
  /\ IF writable THEN Go(p, "write pid") /\ pidFile' = <<>>
                 ELSE Go(p, "address") /\ UNCHANGED pidFile
  /\ UNCHANGED <<rp, bound, listening, refused, starts, supported, writable>>

\* Its own offset is at the start of the file, whatever others wrote.
WritePid(p) ==
  /\ pc[p] = "write pid"
  /\ Go(p, "address")
  /\ LET longer == IF Len(pidFile) > Digits[p] THEN Len(pidFile) ELSE Digits[p] IN
     pidFile' = [i \in 1 .. longer |-> IF i <= Digits[p] THEN p ELSE pidFile[i]]
  /\ UNCHANGED <<rp, bound, listening, refused, starts, supported, writable>>

\* getaddrinfo
Resolve(p) ==
  /\ pc[p] = "address"
  /\ Go(p, "socket") \/ Go(p, "off")
  /\ UNCHANGED <<rp, bound, listening, refused, pidFile, starts, supported, writable>>

\* A round of the loop over the addresses.  The option is set before the
\* socket is looked at: a family without sockets ends the start, and the
\* `continue' behind it is never taken.  Behind the last address the start
\* fails: `ret', which no address has set, is no socket, and listen fails
\* with another error than EADDRINUSE.
Socket(p) ==
  /\ pc[p] = "socket"
  /\ Go(p, IF rp[p] <= Len(Addrs) /\ Addr(p) \in supported THEN "bind" ELSE "failed")
  /\ UNCHANGED <<rp, bound, listening, refused, pidFile, starts, supported, writable>>

\* Fault: an address that is taken ends the start.
BindOnce(p) ==
  /\ pc[p] = "bind"
  /\ IF Taken(p)
     THEN Go(p, "failed") /\ UNCHANGED <<bound, rp, refused>>
     ELSE Go(p, "listen") /\ bound' = bound \cup {p} /\ UNCHANGED <<rp, refused>>
  /\ UNCHANGED <<listening, pidFile, starts, supported, writable>>

\* Fault: bind is left out, as the result is not looked at.
BindSkipped(p) ==
  /\ pc[p] = "bind"
  /\ Go(p, "listen")
  /\ UNCHANGED <<rp, bound, listening, refused, pidFile, starts, supported, writable>>

\* Fault: the round ends before `rp' is set to the next address.
BindStays(p) ==
  /\ pc[p] = "bind"
  /\ IF Taken(p)
     THEN Go(p, "socket") /\ UNCHANGED <<bound, rp, refused>>
     ELSE Go(p, "listen") /\ bound' = bound \cup {p} /\ UNCHANGED <<rp, refused>>
  /\ UNCHANGED <<listening, pidFile, starts, supported, writable>>

\* bind, and the end of the round: the first address that can be bound is
\* taken, the socket of any other closed.
Bind(p) ==
  /\ pc[p] = "bind"
  /\ IF Taken(p)
     THEN /\ Go(p, "socket")
          /\ rp' = [rp EXCEPT ![p] = @ + 1]
          /\ refused' = [refused EXCEPT ![p] = @ \cup {rp[p]}]
          /\ UNCHANGED bound
     ELSE Go(p, "listen") /\ bound' = bound \cup {p} /\ UNCHANGED <<rp, refused>>
  /\ UNCHANGED <<listening, pidFile, starts, supported, writable>>

\* Fault: a failure of listen is not told from success.
ListenOnce(p) ==
  /\ pc[p] = "listen"
  /\ Go(p, "serve")
  /\ listening' = IF Taken(p) THEN listening ELSE listening \cup {p}
  /\ UNCHANGED <<rp, bound, refused, pidFile, starts, supported, writable>>

\* listen.  With EADDRINUSE the loop tries again at once (a step that
\* changes nothing).
Listen(p) ==
  /\ pc[p] = "listen"
  /\ ~Taken(p)
  /\ Go(p, "serve")
  /\ listening' = listening \cup {p}
  /\ UNCHANGED <<rp, bound, refused, pidFile, starts, supported, writable>>

\* SIGINT, SIGKILL, or the end of the event loop; the kernel closes the
\* socket, and the pid file stays.
Die(p) ==
  /\ pc[p] \notin {"off", "failed"}
  /\ Go(p, "off")
  /\ bound' = bound \ {p}
  /\ listening' = listening \ {p}
  /\ UNCHANGED <<rp, refused, pidFile, starts, supported, writable>>

Step(p) == \/ Arguments(p) \/ OpenPid(p) \/ WritePid(p) \/ Resolve(p)
           \/ Socket(p) \/ Bind(p) \/ Listen(p)

Next == \E p \in Procs : Start(p) \/ Step(p) \/ Die(p)

\* A started process goes on; nothing makes anybody start or die.
Spec == Init /\ [][Next]_vars /\ \A p \in Procs : WF_vars(Step(p))
-----------------------------------------------------------------------------
\* Whoever serves has a listening socket, and nobody else serves at its
\* address: the race between bind and listen of several starts is settled
\* by listen (osSocketGetServerSocket).
OneServer ==
  \A p \in Procs : pc[p] = "serve" =>
    /\ p \in listening
    /\ \A q \in Procs \ {p} : pc[q] = "serve" => Addr(q) # Addr(p)

\* A start whose addresses all have sockets fails only after every one of
\* them was refused (osSocketGetServerSocket).
FailedForCause ==
  \A p \in Procs :
    pc[p] = "failed" =>
      \/ refused[p] = 1 .. Len(Addrs)
      \/ Addr(p) \notin supported

\* A process that needs nothing more to happen: it has ended, it serves, or
\* it stands by for another that serves at its address.
Settled(p) ==
  \/ pc[p] \in {"off", "failed", "serve"}
  \/ /\ pc[p] = "listen"
     /\ \E q \in Procs \ {p} : pc[q] = "serve" /\ Addr(q) = Addr(p)

\* Every start settles, whatever the others do, and one that stood by does so
\* again when its server dies: neither the loop over the addresses nor the one
\* around listen goes round for ever, unless somebody serves meanwhile, and
\* starts that race for an address do not keep each other from it.
StartsSettle == \A p \in Procs : []<>Settled(p)

\* The pid file, if it can be written, names a process that serves when one
\* does and every other start has failed.
PidFileNamesServer ==
  /\ writable
  /\ \E p \in Procs : pc[p] = "serve"
  /\ \A p \in Procs : pc[p] \in {"serve", "failed"} \/ starts[p] = 0
  => \E p \in Procs : pc[p] = "serve" /\ pidFile = [i \in 1 .. Digits[p] |-> p]
=============================================================================
