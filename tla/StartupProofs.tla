---------------------------- MODULE StartupProofs ----------------------------
(* The proofs that starts get along with each other, for any number of      *)
(* processes, addresses and starts.                                         *)
EXTENDS Startup, TLAPS

(* Who has a socket is told by where it is; the addresses behind it were    *)
(* all refused; and no two listen at one address.                           *)
Sockets ==
  \A p \in Procs :
    /\ pc[p] \in {"bind", "listen", "serve"} => rp[p] \in 1 .. Len(Addrs)
    /\ p \in bound     <=> pc[p] \in {"listen", "serve"}
    /\ p \in listening <=> pc[p] = "serve"
    /\ refused[p] = 1 .. rp[p] - 1
    /\ pc[p] = "failed" => rp[p] = Len(Addrs) + 1 \/ Addr(p) \notin supported

Apart == \A p, q \in listening : Addr(p) = Addr(q) => p = q

Inv == TypeOK /\ Sockets /\ Apart

LEMMA InitInv == Init => Inv
<1> SUFFICES ASSUME Init PROVE Inv
  OBVIOUS
<1> USE StartupAssumption
<1>1. TypeOK
  BY DEF Init, TypeOK, States
<1>2. Sockets
  BY DEF Init, Sockets
<1>3. Apart
  BY DEF Init, Apart
<1> QED BY <1>1, <1>2, <1>3 DEF Inv

(* A step that only moves p on to a place without a socket.                 *)
LEMMA Moves ==
  ASSUME Inv, NEW p \in Procs, NEW s \in States,
         pc[p] \notin {"listen", "serve"}, s \notin {"listen", "serve", "failed"},
         s = "bind" => rp[p] \in 1 .. Len(Addrs),
         Go(p, s), pidFile' \in Seq(Procs),
         UNCHANGED <<rp, bound, listening, refused, starts, supported, writable>>
  PROVE  Inv'
<1>1. TypeOK'
  BY DEF Inv, TypeOK, Go
<1>2. Sockets'
  BY DEF Inv, Sockets, TypeOK, Go, Addr
<1>3. Apart'
  BY DEF Inv, Apart, Addr
<1> QED BY <1>1, <1>2, <1>3 DEF Inv

LEMMA StartKeeps == ASSUME Inv, NEW p \in Procs, Start(p) PROVE Inv'
<1> USE StartupAssumption
<1>1. TypeOK'
  <2>1. starts' \in [Procs -> 0 .. MaxStarts]
    BY DEF Inv, TypeOK, Start
  <2>2. rp' \in [Procs -> 1 .. Len(Addrs) + 1]
    BY DEF Inv, TypeOK, Start
  <2>3. /\ pc' \in [Procs -> States]
        /\ refused' \in [Procs -> SUBSET (1 .. Len(Addrs))]
    BY DEF Inv, TypeOK, Start, Go, States
  <2> QED BY <2>1, <2>2, <2>3 DEF Inv, TypeOK, Start
<1>2. Sockets'
  BY DEF Inv, Sockets, TypeOK, Start, Go, Addr
<1>3. Apart'
  <2>1. p \notin listening
    BY DEF Inv, Sockets, Start
  <2>2. \A q \in listening : Addr(q)' = Addr(q)
    BY <2>1 DEF Inv, TypeOK, Start, Addr
  <2> QED BY <2>2 DEF Inv, Apart, Start
<1> QED BY <1>1, <1>2, <1>3 DEF Inv

LEMMA WriteType ==
  ASSUME Inv, NEW p \in Procs, WritePid(p)
  PROVE  pidFile' \in Seq(Procs)
<1> DEFINE longer == IF Len(pidFile) > Digits[p] THEN Len(pidFile) ELSE Digits[p]
<1>1. /\ longer \in Nat /\ pidFile \in Seq(Procs)
      /\ \A i \in 1 .. longer : Digits[p] < i => i \in 1 .. Len(pidFile)
  BY StartupAssumption DEF Inv, TypeOK
<1>2. pidFile' = [i \in 1 .. longer |-> IF i <= Digits[p] THEN p ELSE pidFile[i]]
  BY DEF WritePid
<1>3. Digits[p] \in Nat
  BY StartupAssumption
<1> HIDE DEF longer
<1> QED BY <1>1, <1>2, <1>3

(* The steps on the way to the socket.                                      *)
LEMMA PreparationKeeps ==
  ASSUME Inv, NEW p \in Procs, Arguments(p) \/ OpenPid(p) \/ WritePid(p) \/ Resolve(p)
  PROVE  Inv'
<1>1. CASE Arguments(p)
  BY <1>1, Moves DEF Arguments, States, Inv, TypeOK
<1>2. CASE OpenPid(p)
  <2>1. CASE writable
    <3>1. pidFile' = <<>>
      BY <1>2, <2>1 DEF OpenPid
    <3> <<>> \in Seq(Procs)
      OBVIOUS
    <3>2. /\ Go(p, "write pid") /\ pc[p] = "open pid"
          /\ UNCHANGED <<rp, bound, listening, refused, starts, supported, writable>>
      BY <1>2, <2>1 DEF OpenPid
    <3>3. pidFile' \in Seq(Procs)
      BY <3>1
    <3> QED BY <3>2, <3>3, Moves DEF States
  <2>2. CASE ~ writable
    BY <1>2, <2>2, Moves DEF OpenPid, States, Inv, TypeOK
  <2> QED BY <2>1, <2>2
<1>3. CASE WritePid(p)
  BY <1>3, Moves, WriteType DEF WritePid, States
<1>4. CASE Resolve(p)
  BY <1>4, Moves DEF Resolve, States, Inv, TypeOK
<1> QED BY <1>1, <1>2, <1>3, <1>4

LEMMA SocketKeeps == ASSUME Inv, NEW p \in Procs, Socket(p) PROVE Inv'
<1> USE StartupAssumption
<1>1. rp[p] \in 1 .. Len(Addrs) + 1
  BY DEF Inv, TypeOK
<1>2. CASE rp[p] <= Len(Addrs) /\ Addr(p) \in supported
  <2>1. /\ Go(p, "bind") /\ pc[p] = "socket" /\ rp[p] \in 1 .. Len(Addrs)
        /\ UNCHANGED <<rp, bound, listening, refused, pidFile, starts, supported, writable>>
    BY <1>1, <1>2 DEF Socket
  <2>2. pidFile' \in Seq(Procs)
    BY <2>1 DEF Inv, TypeOK
  <2> QED BY <2>1, <2>2, Moves DEF States
<1>3. CASE ~ (rp[p] <= Len(Addrs) /\ Addr(p) \in supported)
  <2>1. rp[p] = Len(Addrs) + 1 \/ Addr(p) \notin supported
    BY <1>1, <1>3
  <2>2. /\ pc' = [pc EXCEPT ![p] = "failed"] /\ pc[p] = "socket"
        /\ UNCHANGED <<rp, bound, listening, refused, pidFile, starts, supported, writable>>
    BY <1>3 DEF Socket, Go
  <2>3. TypeOK'
    BY <2>2 DEF Inv, TypeOK, States
  <2>4. Sockets'
    BY <2>1, <2>2 DEF Inv, Sockets, TypeOK, Addr
  <2>5. Apart'
    BY <2>2 DEF Inv, Apart, Addr
  <2> QED BY <2>3, <2>4, <2>5 DEF Inv
<1> QED BY <1>2, <1>3

(* An address that is taken is the next of those that were refused.         *)
LEMMA BindKeeps == ASSUME Inv, NEW p \in Procs, Bind(p) PROVE Inv'
<1> USE StartupAssumption
<1>1. /\ pc[p] = "bind" /\ rp[p] \in 1 .. Len(Addrs)
      /\ p \notin listening /\ p \notin bound
  BY DEF Inv, Sockets, Bind
<1>2. CASE Taken(p)
  <2>1. /\ pc' = [pc EXCEPT ![p] = "socket"]
        /\ rp' = [rp EXCEPT ![p] = @ + 1]
        /\ refused' = [refused EXCEPT ![p] = @ \cup {rp[p]}]
        /\ UNCHANGED <<bound, listening, pidFile, starts, supported, writable>>
    BY <1>2 DEF Bind, Go
  <2>2. refused'[p] = 1 .. rp'[p] - 1
    <3>1. refused[p] = 1 .. rp[p] - 1
      BY DEF Inv, Sockets
    <3> QED BY <1>1, <2>1, <3>1 DEF Inv, TypeOK
  <2>3. TypeOK'
    <3>1. refused'[p] \in SUBSET (1 .. Len(Addrs))
      BY <1>1, <2>1, <2>2 DEF Inv, TypeOK
    <3>2. rp' \in [Procs -> 1 .. Len(Addrs) + 1]
      BY <1>1, <2>1 DEF Inv, TypeOK
    <3>3. refused' \in [Procs -> SUBSET (1 .. Len(Addrs))]
      BY <2>1, <3>1 DEF Inv, TypeOK
    <3> QED BY <2>1, <3>2, <3>3 DEF Inv, TypeOK, States
  <2>4. Sockets'
    BY <1>1, <2>1, <2>2 DEF Inv, Sockets, TypeOK, Addr
  <2>5. Apart'
    BY <1>1, <2>1 DEF Inv, Apart, Addr, TypeOK
  <2> QED BY <2>3, <2>4, <2>5 DEF Inv
<1>3. CASE ~ Taken(p)
  <2>1. /\ pc' = [pc EXCEPT ![p] = "listen"]
        /\ bound' = bound \cup {p}
        /\ UNCHANGED <<rp, listening, refused, pidFile, starts, supported, writable>>
    BY <1>3 DEF Bind, Go
  <2>2. TypeOK'
    BY <2>1 DEF Inv, TypeOK, States
  <2>3. Sockets'
    BY <1>1, <2>1 DEF Inv, Sockets, TypeOK, Addr
  <2>4. Apart'
    BY <2>1 DEF Inv, Apart, Addr
  <2> QED BY <2>2, <2>3, <2>4 DEF Inv
<1> QED BY <1>2, <1>3

(* Whoever listens finds nobody else at its address.                        *)
LEMMA ListenKeeps == ASSUME Inv, NEW p \in Procs, Listen(p) PROVE Inv'
<1>1. /\ pc[p] = "listen" /\ ~ Taken(p)
      /\ pc' = [pc EXCEPT ![p] = "serve"]
      /\ listening' = listening \cup {p}
      /\ UNCHANGED <<rp, bound, refused, pidFile, starts, supported, writable>>
  BY DEF Listen, Go
<1>2. TypeOK'
  <2>1. p \in bound
    BY <1>1 DEF Inv, Sockets
  <2> QED BY <1>1, <2>1 DEF Inv, TypeOK, States
<1>3. Sockets'
  BY <1>1 DEF Inv, Sockets, TypeOK, Addr
<1>4. Apart'
  BY <1>1 DEF Inv, Apart, Taken, Addr
<1> QED BY <1>2, <1>3, <1>4 DEF Inv

LEMMA DieKeeps == ASSUME Inv, NEW p \in Procs, Die(p) PROVE Inv'
<1>1. TypeOK'
  BY DEF Inv, TypeOK, Die, Go, States
<1>2. Sockets'
  BY DEF Inv, Sockets, TypeOK, Die, Go, Addr
<1>3. Apart'
  BY DEF Inv, Apart, Die, Addr
<1> QED BY <1>1, <1>2, <1>3 DEF Inv

(* The invariant holds in every state, whoever starts and dies when.        *)
THEOREM StartupInvariant == Spec => []Inv
<1>1. Inv /\ [Next]_vars => Inv'
  <2> SUFFICES ASSUME Inv, [Next]_vars PROVE Inv'
    OBVIOUS
  <2>1. CASE UNCHANGED vars
    BY <2>1 DEF vars, Inv, TypeOK, Sockets, Apart, Addr
  <2>2. ASSUME NEW p \in Procs, Start(p) PROVE Inv'
    BY <2>2, StartKeeps
  <2>3. ASSUME NEW p \in Procs, Step(p) PROVE Inv'
    BY <2>3, PreparationKeeps, SocketKeeps, BindKeeps, ListenKeeps DEF Step
  <2>4. ASSUME NEW p \in Procs, Die(p) PROVE Inv'
    BY <2>4, DieKeeps
  <2> QED BY <2>1, <2>2, <2>3, <2>4 DEF Next
<1> QED BY <1>1, InitInv, PTL DEF Spec

(* Every variable of the starts keeps its type.                             *)
THEOREM StartupTypeCorrect == Spec => []TypeOK
<1>1. Inv => TypeOK
  BY DEF Inv
<1> QED BY <1>1, StartupInvariant, PTL

(* However many are started at once, and whoever dies in between, nobody    *)
(* serves without a listening socket or at an address of another.           *)
THEOREM OneServerEach == Spec => []OneServer
<1>1. Inv => OneServer
  BY DEF Inv, Sockets, Apart, OneServer
<1> QED BY <1>1, StartupInvariant, PTL

(* A start fails for want of a free address or of a kind of socket only.    *)
THEOREM FailuresHaveCauses == Spec => []FailedForCause
<1>1. Inv => FailedForCause
  BY StartupAssumption DEF Inv, Sockets, TypeOK, FailedForCause
<1> QED BY <1>1, StartupInvariant, PTL
-----------------------------------------------------------------------------
(* The steps a start has before it serves, has failed or is over, from a    *)
(* state and the address it is at.                                          *)
Steps(state, at) ==
  LET all  == Len(Addrs) + Len(Addrs)
      left == all + 2 - at - at
  IN CASE state = "arguments" -> all + 6
       [] state = "open pid"  -> all + 5
       [] state = "write pid" -> all + 4
       [] state = "address"   -> all + 3
       [] state = "socket"    -> left + 2
       [] state = "bind"      -> left + 1
       [] state = "listen"    -> 1
       [] OTHER               -> 0

Togo(p) == Steps(pc[p], rp[p])

StartsGetOn ==
  \A p \in Procs : /\ Step(p) => Togo(p)' < Togo(p)
                   /\ ~Step(p) /\ ~Start(p) => Togo(p)' \in {0, Togo(p)}

LEMMA StepsFall ==
  ASSUME NEW at \in 1 .. Len(Addrs) + 1
  PROVE  /\ Steps("open pid", at)  < Steps("arguments", at)
         /\ Steps("off", at)       < Steps("arguments", at)
         /\ Steps("write pid", at) < Steps("open pid", at)
         /\ Steps("address", at)   < Steps("open pid", at)
         /\ Steps("address", at)   < Steps("write pid", at)
         /\ Steps("socket", at)    < Steps("address", at)
         /\ Steps("off", at)       < Steps("address", at)
         /\ Steps("bind", at)      < Steps("socket", at)
         /\ Steps("failed", at)    < Steps("socket", at)
         /\ Steps("serve", at)     < Steps("listen", at)
         /\ at <= Len(Addrs) => /\ Steps("socket", at + 1) < Steps("bind", at)
                                /\ Steps("listen", at)     < Steps("bind", at)
         /\ \A state \in States : Steps(state, at) \in Nat
<1> DEFINE n == Len(Addrs)
<1>1. n \in Nat
  BY StartupAssumption
<1>2. /\ Steps("arguments", at) = n + n + 6
      /\ Steps("open pid", at)  = n + n + 5
      /\ Steps("write pid", at) = n + n + 4
      /\ Steps("address", at)   = n + n + 3
      /\ Steps("socket", at)    = n + n + 2 - at - at + 2
      /\ Steps("bind", at)      = n + n + 2 - at - at + 1
      /\ Steps("listen", at)    = 1
      /\ Steps("off", at) = 0 /\ Steps("serve", at) = 0 /\ Steps("failed", at) = 0
  BY DEF Steps
<1>3. Steps("socket", at + 1) = n + n + 2 - (at + 1) - (at + 1) + 2
  BY DEF Steps
<1>4. at \in 1 .. n + 1
  OBVIOUS
<1> HIDE DEF n
<1>5. \A state \in States : Steps(state, at) \in Nat
  <2>1. n + n + 2 - at - at + 1 \in Nat /\ n + n + 2 - at - at + 2 \in Nat
    BY <1>1, <1>4
  <2>2. n + n + 3 \in Nat /\ n + n + 4 \in Nat /\ n + n + 5 \in Nat /\ n + n + 6 \in Nat
    BY <1>1
  <2>3. n + n + 2 - at - at + 2 \in Nat /\ 0 \in Nat /\ 1 \in Nat
    BY <2>1
  <2>4. /\ Steps("arguments", at) \in Nat /\ Steps("open pid", at) \in Nat
        /\ Steps("write pid", at) \in Nat /\ Steps("address", at) \in Nat
        /\ Steps("socket", at) \in Nat /\ Steps("bind", at) \in Nat
        /\ Steps("listen", at) \in Nat /\ Steps("off", at) \in Nat
        /\ Steps("serve", at) \in Nat /\ Steps("failed", at) \in Nat
    BY <1>2, <2>1, <2>2, <2>3
  <2> QED BY <2>4 DEF States
<1>6. at <= n => /\ Steps("socket", at + 1) < Steps("bind", at)
                 /\ Steps("listen", at)     < Steps("bind", at)
  <2>1. ASSUME at <= n
        PROVE  /\ n + n + 2 - (at + 1) - (at + 1) + 2 < n + n + 2 - at - at + 1
               /\ 1 < n + n + 2 - at - at + 1
    BY <1>1, <1>4, <2>1
  <2> QED BY <1>2, <1>3, <2>1
<1>7. /\ Steps("open pid", at)  < Steps("arguments", at)
      /\ Steps("off", at)       < Steps("arguments", at)
      /\ Steps("write pid", at) < Steps("open pid", at)
      /\ Steps("address", at)   < Steps("open pid", at)
      /\ Steps("address", at)   < Steps("write pid", at)
      /\ Steps("off", at)       < Steps("address", at)
      /\ Steps("serve", at)     < Steps("listen", at)
  <2>1. /\ n + n + 5 < n + n + 6 /\ 0 < n + n + 6 /\ n + n + 4 < n + n + 5
        /\ n + n + 3 < n + n + 5 /\ n + n + 3 < n + n + 4 /\ 0 < n + n + 3 /\ 0 < 1
    BY <1>1
  <2> QED BY <1>2, <2>1
<1>8. /\ Steps("socket", at)    < Steps("address", at)
      /\ Steps("bind", at)      < Steps("socket", at)
      /\ Steps("failed", at)    < Steps("socket", at)
  <2>1. /\ n + n + 2 - at - at + 2 < n + n + 3
        /\ n + n + 2 - at - at + 1 < n + n + 2 - at - at + 2
        /\ 0 < n + n + 2 - at - at + 2
    BY <1>1, <1>4
  <2> QED BY <1>2, <2>1
<1> QED BY <1>5, <1>6, <1>7, <1>8 DEF n

LEMMA TogoCounted == Inv => \A p \in Procs : Togo(p) \in Nat
<1> SUFFICES ASSUME Inv, NEW p \in Procs PROVE Togo(p) \in Nat
  OBVIOUS
<1>1. Len(Addrs) \in Nat /\ rp[p] \in 1 .. Len(Addrs) + 1
  BY StartupAssumption DEF Inv, TypeOK
<1>2. pc[p] \in States
  BY DEF Inv, TypeOK
<1> QED BY <1>1, <1>2, StepsFall DEF Togo

LEMMA StepFalls == ASSUME Inv, NEW p \in Procs, Step(p) PROVE Togo(p)' < Togo(p)
<1>1. /\ Len(Addrs) \in Nat \ {0} /\ rp[p] \in 1 .. Len(Addrs) + 1
      /\ pc \in [Procs -> States] /\ rp \in [Procs -> 1 .. Len(Addrs) + 1]
  BY StartupAssumption DEF Inv, TypeOK
<1>2. CASE Arguments(p) \/ OpenPid(p) \/ WritePid(p) \/ Resolve(p)
  <2>1. rp' = rp
    BY <1>2 DEF Arguments, OpenPid, WritePid, Resolve
  <2>2. \/ pc[p] = "arguments" /\ pc'[p] \in {"open pid", "off"}
        \/ pc[p] = "open pid"  /\ pc'[p] \in {"write pid", "address"}
        \/ pc[p] = "write pid" /\ pc'[p] = "address"
        \/ pc[p] = "address"   /\ pc'[p] \in {"socket", "off"}
    BY <1>1, <1>2 DEF Arguments, OpenPid, WritePid, Resolve, Go
  <2> QED BY <1>1, <2>1, <2>2, StepsFall DEF Togo
<1>3. CASE Socket(p)
  <2>1. pc[p] = "socket" /\ pc'[p] \in {"bind", "failed"} /\ rp' = rp
    BY <1>1, <1>3 DEF Socket, Go
  <2> QED BY <1>1, <2>1, StepsFall DEF Togo
<1>4. CASE Bind(p)
  <2>1. pc[p] = "bind" /\ rp[p] \in 1 .. Len(Addrs)
    BY <1>4 DEF Bind, Inv, Sockets
  <2>2. pc[p] = "bind" /\ rp[p] <= Len(Addrs) /\ rp[p] \in 1 .. Len(Addrs) + 1
    BY <1>1, <2>1
  <2> DEFINE at == rp[p]
  <2> HIDE DEF at
  <2>3. /\ Steps("socket", at + 1) < Steps("bind", at)
        /\ Steps("listen", at)     < Steps("bind", at)
    <3>1. at \in 1 .. Len(Addrs) + 1 /\ at <= Len(Addrs)
      BY <2>2 DEF at
    <3> QED BY <3>1, StepsFall
  <2>4. CASE Taken(p)
    <3>1. pc'[p] = "socket" /\ rp'[p] = rp[p] + 1
      BY <1>1, <1>4, <2>4 DEF Bind, Go
    <3> QED BY <2>2, <2>3, <3>1 DEF Togo, at
  <2>5. CASE ~Taken(p)
    <3>1. pc'[p] = "listen" /\ rp' = rp
      BY <1>1, <1>4, <2>5 DEF Bind, Go
    <3> QED BY <2>2, <2>3, <3>1 DEF Togo, at
  <2> QED BY <2>4, <2>5
<1>5. CASE Listen(p)
  <2>1. pc[p] = "listen" /\ pc'[p] = "serve" /\ rp' = rp
    BY <1>1, <1>5 DEF Listen, Go
  <2> QED BY <1>1, <2>1, StepsFall DEF Togo
<1> QED BY <1>2, <1>3, <1>4, <1>5 DEF Step

(* What one process does does not touch where another is.                   *)
LEMMA OthersStay ==
  ASSUME Inv, NEW p \in Procs, NEW q \in Procs, p # q, Start(q) \/ Step(q) \/ Die(q)
  PROVE  Togo(p)' = Togo(p)
<1>1. pc \in [Procs -> States] /\ rp \in [Procs -> 1 .. Len(Addrs) + 1]
  BY DEF Inv, TypeOK
<1>2. pc'[p] = pc[p] /\ rp'[p] = rp[p]
  BY <1>1 DEF Start, Step, Die, Arguments, OpenPid, WritePid, Resolve, Socket, Bind, Listen, Go
<1> QED BY <1>2 DEF Togo

(* Every start ends: each of its steps brings it nearer to serving or to    *)
(* its failure, for any number of addresses, and no other process can set   *)
(* it back (app_entry_point, osSocketGetServerSocket).                      *)
THEOREM EveryStartEnds ==
  Spec => /\ [](\A p \in Procs : Togo(p) \in Nat)
          /\ [][StartsGetOn]_vars
<1>1. Inv /\ [Next]_vars => [StartsGetOn]_vars
  <2> SUFFICES ASSUME Inv, Next, NEW p \in Procs
               PROVE  /\ Step(p) => Togo(p)' < Togo(p)
                      /\ ~Step(p) /\ ~Start(p) => Togo(p)' \in {0, Togo(p)}
    BY DEF StartsGetOn
  <2>1. Step(p) => Togo(p)' < Togo(p)
    BY StepFalls
  <2>2. ASSUME ~Step(p), ~Start(p) PROVE Togo(p)' \in {0, Togo(p)}
    <3>1. PICK q \in Procs : Start(q) \/ Step(q) \/ Die(q)
      BY DEF Next
    <3>2. CASE q # p
      BY <3>1, <3>2, OthersStay
    <3>3. CASE q = p
      <4>1. pc'[p] = "off"
        BY <2>2, <3>1, <3>3 DEF Die, Go, Inv, TypeOK
      <4> QED BY <4>1 DEF Togo, Steps
    <3> QED BY <3>2, <3>3
  <2> QED BY <2>1, <2>2
<1> QED BY <1>1, TogoCounted, StartupInvariant, PTL DEF Spec

(* A start whose listen is refused waits for a process that serves, and     *)
(* never for another start, so that starts do not wait in a circle          *)
(* (the loop around listen in osSocketGetServerSocket).                     *)
THEOREM WaitsForServers ==
  Spec => [](\A p \in Procs : pc[p] = "listen" /\ Taken(p) =>
               \E q \in Procs : pc[q] = "serve" /\ Addr(q) = Addr(p))
<1>1. Inv => \A p \in Procs : pc[p] = "listen" /\ Taken(p) =>
               \E q \in Procs : pc[q] = "serve" /\ Addr(q) = Addr(p)
  BY DEF Inv, TypeOK, Sockets, Taken
<1> QED BY <1>1, StartupInvariant, PTL
=============================================================================
