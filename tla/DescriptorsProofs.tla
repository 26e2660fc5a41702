-------------------------- MODULE DescriptorsProofs --------------------------
(* The proofs about the descriptors, for any number of clients, starts and  *)
(* descriptors.                                                             *)
EXTENDS Descriptors, LeastNumber, SequenceTheorems, TLAPS

Part == [what : Statuses \cup Texts \cup {"rest", "page", "file", "garbage"}, bytes : Nat]
Line == [who : Clients \cup {Nobody}, what : Statuses \cup Texts]

Loop    == {"wait", "open", "debug", "header", "body", "close file", "log", "info", "close"}
Ended   == {"off", "stopped"}
Handled == Loop \ {"wait"}

Has(tab, t) == \E f \in Fds : tab[f] = t
Once(tab)   == \A f, g \in Fds : tab[f] = tab[g] /\ tab[f] # Free => f = g

(* What the process has open, apart from its clients, where it is.          *)
Expected ==
  IF pc \in Ended THEN {}
  ELSE Foreground \cup kept
         \cup (IF pc = "opening"   THEN {"config"} ELSE {})
         \cup (IF pc = "close pid" THEN {"pid"} ELSE {})
         \cup (IF pc \in Loop \cup {"epoll"} THEN {"listener"} ELSE {})
         \cup (IF pc \in Loop THEN {"epoll"} ELSE {})
         \cup (IF pc \in {"header", "body", "close file"} /\ status = "200" THEN {"file"} ELSE {})

Present ==
  /\ Once(table)
  /\ \A t \in Things : Has(table, t) <=> t \in Expected
  /\ \A c \in Clients : Has(table, c) => c \in came /\ pc \in Loop

(* What is still to be opened has not been opened.                          *)
Progress ==
  /\ pc \in {"arguments", "config"} => kept = {} /\ next = 1
  /\ pc = "opening" => kept \subseteq { Configured[i] : i \in 1 .. next - 1 }
  /\ pc \in Handled => current \in Clients
  /\ pc = "debug" => status = "500"

(* Who has number 2: in the foreground, stderr; in the background nobody    *)
(* but the server itself, if it keeps something open, as number 0 was the   *)
(* configuration and then the listener, and number 1 is what was opened     *)
(* first of all that is kept.                                               *)
Second ==
  /\ pc \notin Ended /\ ~background => table[2] = "stderr"
  /\ pc = "opening" /\ background => table[0] = "config"
  /\ background /\ kept # {} =>
       /\ pc \in {"opening", "pid", "close pid", "announce", "listen", "epoll"} => table[1] \in kept
       /\ pc \in {"pid", "announce", "listen"} => table[0] = Free
       /\ pc = "close pid" => table[0] = "pid"
       /\ pc = "epoll" => table[0] = "listener"
       /\ pc \in Loop => table[2] \in kept \cup {"epoll"}

Inv == TypeOK /\ Present /\ Progress /\ Second
-----------------------------------------------------------------------------
LEMMA KeptThings ==
  /\ Kept = {"info", "error", "request", "root", "work"}
  /\ \A i \in 1 .. 5 : Configured[i] \in Kept
  /\ \A i, j \in 1 .. 5 : Configured[i] = Configured[j] => i = j
  /\ Kept \subseteq Things
<1>1. /\ Configured[1] = "info" /\ Configured[2] = "error" /\ Configured[3] = "request"
      /\ Configured[4] = "root" /\ Configured[5] = "work"
  BY DEF Configured
<1>2. \A i \in 1 .. 5 : i \in {1, 2, 3, 4, 5}
  OBVIOUS
<1>3. 1 \in 1 .. 5 /\ 2 \in 1 .. 5 /\ 3 \in 1 .. 5 /\ 4 \in 1 .. 5 /\ 5 \in 1 .. 5
  OBVIOUS
<1>4. Kept = {"info", "error", "request", "root", "work"}
  <2>1. ASSUME NEW t \in Kept
        PROVE  t \in {"info", "error", "request", "root", "work"}
    BY <1>1, <1>2 DEF Kept
  <2>2. ASSUME NEW t \in {"info", "error", "request", "root", "work"}
        PROVE  t \in Kept
    BY <1>1, <1>3 DEF Kept
  <2> QED BY <2>1, <2>2
<1> QED BY <1>1, <1>2, <1>4 DEF Things, Kept

LEMMA LowestIsFree ==
  ASSUME FreeFds # {}
  PROVE  /\ Lowest \in Fds /\ table[Lowest] = Free
         /\ \A g \in Fds : table[g] = Free => Lowest <= g
<1>1. FreeFds \in SUBSET Nat
  BY DescriptorsAssumption DEF FreeFds, Fds
<1>2. \E f \in FreeFds : \A g \in FreeFds : f <= g
  BY <1>1, LeastExists
<1>3. Lowest \in FreeFds /\ \A g \in FreeFds : Lowest <= g
  BY <1>2 DEF Lowest
<1> QED BY <1>3 DEF FreeFds

(* What opening and closing do to the table.                                *)
LEMMA OpenEffect ==
  ASSUME TypeOK, Once(table), NEW t \in Things \cup Clients, ~Has(table, t), Open(t)
  PROVE  /\ table' \in [Fds -> Things \cup Clients \cup {Free}]
         /\ Once(table')
         /\ \A u \in Things \cup Clients : Has(table', u) <=> Has(table, u) \/ u = t
         /\ Lowest \in Fds /\ table[Lowest] = Free /\ table'[Lowest] = t
         /\ \A g \in Fds : table[g] = Free => Lowest <= g
         /\ \A g \in Fds : g # Lowest => table'[g] = table[g]
<1>1. FreeFds # {} /\ table' = [table EXCEPT ![Lowest] = t]
  BY DEF Open
<1>2. /\ Lowest \in Fds /\ table[Lowest] = Free
      /\ \A g \in Fds : table[g] = Free => Lowest <= g
  BY <1>1, LowestIsFree
<1>3. table \in [Fds -> Things \cup Clients \cup {Free}] /\ Free \notin Things \cup Clients
  BY DescriptorsAssumption DEF TypeOK
<1>4. /\ table' \in [Fds -> Things \cup Clients \cup {Free}]
      /\ table'[Lowest] = t /\ \A g \in Fds : g # Lowest => table'[g] = table[g]
  BY <1>1, <1>2, <1>3
<1>5. Once(table')
  BY <1>2, <1>4 DEF Once, Has
<1>6. \A u \in Things \cup Clients : Has(table', u) <=> Has(table, u) \/ u = t
  BY <1>2, <1>3, <1>4 DEF Has
<1> QED BY <1>2, <1>4, <1>5, <1>6

LEMMA CloseEffect ==
  ASSUME TypeOK, Once(table), NEW t \in Things \cup Clients, Close(t)
  PROVE  /\ table' \in [Fds -> Things \cup Clients \cup {Free}]
         /\ Once(table')
         /\ \A u \in Things \cup Clients : Has(table', u) <=> Has(table, u) /\ u # t
         /\ \A g \in Fds : table'[g] = IF table[g] = t THEN Free ELSE table[g]
<1>1. \A g \in Fds : table'[g] = IF table[g] = t THEN Free ELSE table[g]
  BY DEF Close
<1>2. table \in [Fds -> Things \cup Clients \cup {Free}] /\ Free \notin Things \cup Clients
  BY DescriptorsAssumption DEF TypeOK
<1>3. table' \in [Fds -> Things \cup Clients \cup {Free}]
  BY <1>2 DEF Close
<1>4. Once(table')
  BY <1>1 DEF Once
<1>5. \A u \in Things \cup Clients : Has(table', u) <=> Has(table, u) /\ u # t
  BY <1>1, <1>2 DEF Has
<1> QED BY <1>1, <1>3, <1>4, <1>5

LEMMA EmptyTable ==
  /\ NoFiles \in [Fds -> Things \cup Clients \cup {Free}] /\ Once(NoFiles)
  /\ \A u \in Things \cup Clients : ~Has(NoFiles, u)
  /\ \A f \in Fds : NoFiles[f] = Free
BY DescriptorsAssumption DEF NoFiles, Once, Has

LEMMA LowFds == 0 \in Fds /\ 1 \in Fds /\ 2 \in Fds
BY DescriptorsAssumption DEF Fds

(* Nothing else is in the table before there are clients.                   *)
LEMMA Others ==
  ASSUME TypeOK, Present, NEW f \in Fds, table[f] # Free, pc \notin Loop
  PROVE  table[f] \in Expected /\ table[f] \in Things
<1>1. table[f] \in Things \cup Clients /\ Has(table, table[f])
  BY DEF TypeOK, Has
<1> QED BY <1>1 DEF Present
-----------------------------------------------------------------------------
(* Types.                                                                   *)

TableType == [Fds -> Things \cup Clients \cup {Free}]

LEMMA OpenType ==
  ASSUME TypeOK, NEW t \in Things \cup Clients, Open(t)
  PROVE  table' \in TableType
<1>1. Lowest \in Fds /\ table' = [table EXCEPT ![Lowest] = t]
  BY LowestIsFree DEF Open
<1>2. table \in TableType
  BY DEF TypeOK, TableType
<1> QED BY <1>1, <1>2 DEF TableType

LEMMA CloseType ==
  ASSUME TypeOK, NEW t, Close(t)
  PROVE  table' \in TableType
BY DEF TypeOK, TableType, Close

LEMMA StopType == NoFiles \in TableType
BY EmptyTable DEF TableType

LEMMA TextType ==
  ASSUME TypeOK, NEW t \in Texts, WriteText(t)
  PROVE  got' \in [Clients -> Seq(Part)] /\ log' \in Seq(Line)
<1>1. [what |-> t, bytes |-> 0] \in Part /\ [who |-> Nobody, what |-> t] \in Line
  BY DEF Part, Line
<1>2. got \in [Clients -> Seq(Part)] /\ log \in Seq(Line)
  BY DEF TypeOK, Part, Line
<1> HIDE DEF Part, Line
<1>3. log' \in Seq(Line)
  BY <1>1, <1>2, AppendProperties DEF WriteText
<1>4. got' \in [Clients -> Seq(Part)]
  <2>1. CASE table[2] \in Clients
    <3>1. Append(got[table[2]], [what |-> t, bytes |-> 0]) \in Seq(Part)
      BY <2>1, <1>1, <1>2, AppendProperties
    <3> QED BY <2>1, <3>1, <1>2 DEF WriteText
  <2>2. CASE table[2] \notin Clients
    BY <2>2, <1>2 DEF WriteText
  <2> QED BY <2>1, <2>2
<1> QED BY <1>3, <1>4

LEMMA SendType ==
  ASSUME TypeOK, NEW parts \in Seq(Part), Send(parts)
  PROVE  got' \in [Clients -> Seq(Part)]
<1>1. got \in [Clients -> Seq(Part)]
  BY DEF TypeOK, Part
<1> HIDE DEF Part
<1>2. \A c \in Clients : got[c] \o parts \in Seq(Part)
  BY <1>1, ConcatProperties
<1> QED BY <1>1, <1>2 DEF Send

(* What Header and Body send.                                               *)
HeaderParts == << [what |-> status, bytes |-> Announced], [what |-> "rest", bytes |-> 2] >>

LEMMA HeaderTypes ==
  ASSUME TypeOK
  PROVE  /\ HeaderParts \in Seq(Part) /\ Len(HeaderParts) = 2
         /\ HeaderParts[1].what = status /\ HeaderParts[2].what = "rest"
<1>1. status \in Statuses /\ Announced \in Nat
  BY DescriptorsAssumption DEF TypeOK, Announced
<1>2. [what |-> status, bytes |-> Announced] \in Part /\ [what |-> "rest", bytes |-> 2] \in Part
  BY <1>1 DEF Part
<1> QED BY <1>2 DEF HeaderParts

LEMMA BodySends ==
  ASSUME TypeOK, Body
  PROVE  \E parts \in Seq(Part) :
           /\ Send(parts) /\ Len(parts) \in {0, 1}
           /\ Len(parts) = 1 => parts[1].what \in {"page", "file", "garbage"}
<1> DEFINE parts(n) ==
             CASE status = "404" -> << [what |-> "page", bytes |-> PageLength] >>
               [] status = "200" /\ request = "file"  -> << [what |-> "file", bytes |-> Length] >>
               [] status = "200" /\ request = "large" -> << [what |-> "garbage", bytes |-> n] >>
               [] OTHER -> <<>>
<1>1. PICK n \in Garbage : Send(parts(n))
  BY DEF Body
<1>2. /\ [what |-> "page", bytes |-> PageLength] \in Part
      /\ [what |-> "file", bytes |-> Length] \in Part
      /\ [what |-> "garbage", bytes |-> n] \in Part
  BY DescriptorsAssumption DEF Part
<1>3. ASSUME NEW p \in Part, p.what \in {"page", "file", "garbage"}, parts(n) = << p >>
      PROVE  /\ parts(n) \in Seq(Part) /\ Len(parts(n)) \in {0, 1}
             /\ Len(parts(n)) = 1 => parts(n)[1].what \in {"page", "file", "garbage"}
  <2>1. << p >> \in Seq(Part) /\ Len(<< p >>) = 1 /\ << p >>[1] = p
    OBVIOUS
  <2> QED BY <1>3, <2>1
<1>4. /\ parts(n) \in Seq(Part) /\ Len(parts(n)) \in {0, 1}
      /\ Len(parts(n)) = 1 => parts(n)[1].what \in {"page", "file", "garbage"}
  <2>1. CASE status = "404"
    BY <2>1, <1>2, <1>3
  <2>2. CASE status = "200" /\ request = "file"
    BY <2>2, <1>2, <1>3
  <2>3. CASE status = "200" /\ request = "large"
    BY <2>3, <1>2, <1>3
  <2>4. CASE status # "404" /\ ~(status = "200" /\ request \in {"file", "large"})
    <3>1. parts(n) = <<>>
      BY <2>4
    <3> QED BY <3>1
  <2> QED BY <2>1, <2>2, <2>3, <2>4
<1> HIDE DEF parts
<1> QED BY <1>1, <1>4

LEMMA CountType ==
  ASSUME TypeOK, Count
  PROVE  counter' \in 0 .. PrintEvery
<1>1. counter \in Nat /\ PrintEvery \in Nat \ {0}
  <2>1. PrintEvery \in Nat \ {0}
    BY DescriptorsAssumption
  <2>2. counter \in 0 .. PrintEvery
    BY DEF TypeOK
  <2> QED BY <2>1, <2>2
<1>2. counter % PrintEvery \in 0 .. PrintEvery - 1
  BY <1>1
<1> QED BY <1>1, <1>2 DEF Count

LEMMA TypeStep ==
  ASSUME TypeOK, [Next]_vars
  PROVE  TypeOK'
<1> USE DEF TableType, Part, Line
<1>1. CASE Start
  <2>1. table' \in TableType
    <3>1. Std[1] \in Things /\ Std[2] \in Things /\ Std[3] \in Things
      BY DEF Std, Things
    <3>2. \A f \in Fds : f <= 2 => f + 1 \in {1, 2, 3}
      BY DescriptorsAssumption DEF Fds
    <3> QED BY <1>1, <3>1, <3>2 DEF Start
  <2>2. starts' \in 0 .. MaxStarts
    <3>1. MaxStarts \in Nat
      BY DescriptorsAssumption
    <3>2. starts \in 0 .. MaxStarts
      BY DEF TypeOK
    <3> QED BY <1>1, <3>1, <3>2 DEF Start
  <2>3. counter' \in 0 .. PrintEvery /\ next' \in 1 .. 6
    BY <1>1, DescriptorsAssumption DEF Start
  <2>4. request' \in Requests /\ status' \in Statuses
    BY <1>1 DEF Start, Requests, Statuses
  <2> QED BY <1>1, <2>1, <2>2, <2>3, <2>4 DEF Start, TypeOK
<1>2. CASE Detach
  BY <1>2, StopType DEF Detach, work, TypeOK
<1>3. CASE StayInFront
  BY <1>3 DEF StayInFront, start, work, TypeOK
<1>4. CASE OpenConfig
  <2>1. table' \in TableType
    <3>1. "config" \in Things
      BY DEF Things
    <3> QED BY <1>4, <3>1, OpenType DEF OpenConfig, TypeOK
  <2> QED BY <1>4, <2>1 DEF OpenConfig, start, work, TypeOK
<1>5. CASE OpenNext
  <2>1. next \in 1 .. 5 /\ Configured[next] \in Kept /\ Configured[next] \in Things
    BY <1>5, KeptThings DEF OpenNext, TypeOK
  <2>2. table' \in TableType
    BY <1>5, <2>1, OpenType DEF OpenNext, TypeOK
  <2>3. kept' \subseteq Kept /\ next' \in 1 .. 6 /\ log' = log
    BY <1>5, <2>1 DEF OpenNext, TypeOK
  <2> QED BY <1>5, <2>2, <2>3 DEF OpenNext, work, TypeOK
<1>6. CASE CloseConfig
  BY <1>6, CloseType DEF CloseConfig, start, work, TypeOK
<1>7. CASE OpenPid
  <2>1. table' \in TableType
    <3>1. "pid" \in Things
      BY DEF Things
    <3> QED BY <1>7, <3>1, OpenType DEF OpenPid, TypeOK
  <2> QED BY <1>7, <2>1 DEF OpenPid, start, work, TypeOK
<1>8. CASE ClosePid
  BY <1>8, CloseType DEF ClosePid, start, work, TypeOK
<1>9. CASE Announce
  <2>1. "starting" \in Texts
    BY DEF Texts
  <2> QED BY <1>9, <2>1, TextType DEF Announce, start, work, TypeOK
<1>10. CASE Listen
  <2>1. table' \in TableType
    <3>1. "listener" \in Things
      BY DEF Things
    <3> QED BY <1>10, <3>1, OpenType, StopType DEF Listen, Stop, TypeOK
  <2> QED BY <1>10, <2>1 DEF Listen, Stop, start, work, TypeOK
<1>11. CASE Multiplex
  <2>1. table' \in TableType
    <3>1. "epoll" \in Things
      BY DEF Things
    <3> QED BY <1>11, <3>1, OpenType, StopType DEF Multiplex, Stop, TypeOK
  <2> QED BY <1>11, <2>1 DEF Multiplex, Stop, start, work, TypeOK
<1>12. ASSUME NEW c \in Clients, Accept(c)
       PROVE  TypeOK'
  <2>1. table' \in TableType
    BY <1>12, OpenType, StopType DEF Accept, Stop, TypeOK
  <2>2. pc' \in {pc, "stopped"}
    BY <1>12 DEF Accept, Stop
  <2>3. came' \subseteq Clients
    BY <1>12 DEF Accept, TypeOK
  <2> QED BY <1>12, <2>1, <2>2, <2>3 DEF Accept, start, work, TypeOK
<1>13. ASSUME NEW c \in Clients, NEW r \in Requests, Handle(c, r)
       PROVE  TypeOK'
  <2>1. pc' \in {"close", "log", "open"}
    BY <1>13 DEF Handle
  <2> QED BY <1>13, <2>1 DEF Handle, start, TypeOK, Statuses
<1>14. CASE OpenFile
  <2>1. table' \in TableType
    <3>1. "file" \in Things
      BY DEF Things
    <3> QED BY <1>14, <3>1, OpenType DEF OpenFile, TypeOK
  <2>2. status' \in Statuses /\ pc' \in {"debug", "header"}
    BY <1>14 DEF OpenFile, Statuses
  <2> QED BY <1>14, <2>1, <2>2 DEF OpenFile, start, TypeOK
<1>15. CASE Debug
  <2>1. "debug" \in Texts
    BY DEF Texts
  <2> QED BY <1>15, <2>1, TextType DEF Debug, start, work, TypeOK
<1>16. CASE Header
  <2>1. got' \in [Clients -> Seq(Part)]
    BY <1>16, HeaderTypes, SendType DEF Header, HeaderParts
  <2> QED BY <1>16, <2>1 DEF Header, start, work, TypeOK
<1>17. CASE Body
  <2>1. got' \in [Clients -> Seq(Part)]
    BY <1>17, BodySends, SendType
  <2> QED BY <1>17, <2>1 DEF Body, start, work, TypeOK
<1>18. CASE CloseFile
  BY <1>18, CloseType DEF CloseFile, start, work, TypeOK
<1>19. CASE LogRequest
  <2>1. log' \in Seq(Line)
    <3>1. [who |-> current, what |-> status] \in Line /\ log \in Seq(Line)
      BY DEF TypeOK
    <3> HIDE DEF Line
    <3> QED BY <1>19, <3>1, AppendProperties DEF LogRequest
  <2>2. counter' \in 0 .. PrintEvery
    BY <1>19, CountType DEF LogRequest
  <2>3. pc' \in {"info", "close"}
    BY <1>19 DEF LogRequest
  <2> QED BY <1>19, <2>1, <2>2, <2>3 DEF LogRequest, start, work, TypeOK
<1>20. CASE Info
  <2>1. "info" \in Texts
    BY DEF Texts
  <2> QED BY <1>20, <2>1, TextType DEF Info, start, work, TypeOK
<1>21. CASE CloseClient
  BY <1>21, CloseType DEF CloseClient, start, TypeOK
<1>22. CASE Interrupt
  <2>1. "stop" \in Texts
    BY DEF Texts
  <2> QED BY <1>22, <2>1, TextType, StopType DEF Interrupt, start, work, TypeOK
<1>23. CASE BodyDies
  BY <1>23, StopType DEF BodyDies, start, work, TypeOK
<1>24. CASE UNCHANGED vars
  BY <1>24 DEF vars, start, work, TypeOK
<1> QED BY <1>1, <1>2, <1>3, <1>4, <1>5, <1>6, <1>7, <1>8, <1>9, <1>10, <1>11, <1>12, <1>13,
           <1>14, <1>15, <1>16, <1>17, <1>18, <1>19, <1>20, <1>21, <1>22, <1>23, <1>24 DEF Next
-----------------------------------------------------------------------------
(* The invariant.                                                           *)

Rest == Present /\ Progress /\ Second

LEMMA Initially == Init => Inv
<1> SUFFICES ASSUME Init PROVE Inv
  OBVIOUS
<1>1. TypeOK
  <2>1. NoFiles \in TableType /\ MaxStarts \in Nat /\ PrintEvery \in Nat \ {0}
    BY StopType, DescriptorsAssumption
  <2>2. starts \in 0 .. MaxStarts /\ counter \in 0 .. PrintEvery /\ next \in 1 .. 6
    BY <2>1 DEF Init
  <2>3. got \in [Clients -> Seq(Part)] /\ log \in Seq(Line)
    BY DEF Init
  <2> QED BY <2>1, <2>2, <2>3 DEF Init, TypeOK, TableType, Requests, Statuses, Part, Line
<1>2. Present
  BY EmptyTable DEF Init, Present, Expected, Ended
<1> QED BY <1>1, <1>2 DEF Init, Inv, Progress, Second, Handled, Loop, Ended

LEMMA StartKeeps ==
  ASSUME Inv, Start
  PROVE  Rest'
<1>1. /\ pc' = "arguments" /\ background' = FALSE /\ kept' = {} /\ next' = 1
      /\ \A f \in Fds : table'[f] = IF f <= 2 THEN Std[f + 1] ELSE Free
  BY DEF Start
<1>2. Std[0 + 1] = "stdin" /\ Std[1 + 1] = "stdout" /\ Std[2 + 1] = "stderr"
  BY DEF Std
<1>3. \A f \in Fds : f <= 2 => f \in {0, 1, 2}
  BY DescriptorsAssumption DEF Fds
<1>4. Free \notin Things \cup Clients /\ Clients \cap Things = {}
  BY DescriptorsAssumption
<1>5. table'[0] = "stdin" /\ table'[1] = "stdout" /\ table'[2] = "stderr"
  BY <1>1, <1>2, LowFds
<1>6. \A f \in Fds : f \notin {0, 1, 2} => table'[f] = Free
  BY <1>1, DescriptorsAssumption DEF Fds
<1>7. Once(table')
  BY <1>3, <1>5, <1>6 DEF Once
<1>8. Expected' = {"stdin", "stdout", "stderr"}
  BY <1>1 DEF Expected, Foreground, Ended, Loop
<1>9. {"stdin", "stdout", "stderr"} \subseteq Things
  BY DEF Things
<1>10. \A t \in Things : Has(table', t) <=> t \in Expected'
  BY <1>4, <1>5, <1>6, <1>8, <1>9, LowFds DEF Has
<1>11. \A c \in Clients : ~Has(table', c)
  BY <1>4, <1>5, <1>6, <1>9 DEF Has
<1>12. Present'
  BY <1>7, <1>10, <1>11 DEF Present
<1> QED BY <1>1, <1>5, <1>12 DEF Rest, Progress, Second, Handled, Loop

LEMMA DetachKeeps ==
  ASSUME Inv, Detach
  PROVE  Rest'
<1>1. pc = "arguments" /\ pc' = "config" /\ background' = TRUE /\ table' = NoFiles
  BY DEF Detach
<1>2. kept' = {} /\ next' = 1 /\ UNCHANGED came
  BY <1>1 DEF Inv, Progress, Detach
<1>3. Expected' = {}
  BY <1>1, <1>2 DEF Expected, Foreground, Ended, Loop
<1>4. Present'
  BY <1>1, <1>3, EmptyTable DEF Present
<1> QED BY <1>1, <1>2, <1>4 DEF Rest, Progress, Second, Handled, Loop

(* The process ends.                                                        *)
LEMMA EndKeeps ==
  ASSUME Inv, table' = NoFiles, pc' \in Ended
  PROVE  Rest'
<1>1. Expected' = {}
  BY DEF Expected
<1>2. Present'
  BY <1>1, EmptyTable DEF Present
<1> QED BY <1>2 DEF Rest, Progress, Second, Handled, Loop, Ended

(* What leaves the table and the start alone.                               *)
LEMMA StayInFrontKeeps ==
  ASSUME Inv, StayInFront
  PROVE  Rest'
<1>1. /\ pc = "arguments" /\ pc' = "config"
      /\ UNCHANGED <<table, background, next, kept, came, current, status>>
  BY DEF StayInFront, start, work
<1>2. Expected' = Expected
  BY <1>1 DEF Expected, Foreground, Ended, Loop
<1>3. Present'
  BY <1>1, <1>2 DEF Inv, Present, Loop
<1> QED BY <1>1, <1>3 DEF Inv, Rest, Progress, Second, Handled, Loop, Ended

LEMMA AnnounceKeeps ==
  ASSUME Inv, Announce
  PROVE  Rest'
<1>1. /\ pc = "announce" /\ pc' = "listen"
      /\ UNCHANGED <<table, background, next, kept, came, current, status>>
  BY DEF Announce, start, work
<1>2. Expected' = Expected
  BY <1>1 DEF Expected, Foreground, Ended, Loop
<1>3. Present'
  BY <1>1, <1>2 DEF Inv, Present, Loop
<1> QED BY <1>1, <1>3 DEF Inv, Rest, Progress, Second, Handled, Loop, Ended

LEMMA WithinLoop ==
  ASSUME Inv, pc \in Loop, pc' \in Loop, current' \in Clients, UNCHANGED <<table, start, came>>,
         pc' = "debug" => status' = "500",
         (pc' \in {"header", "body", "close file"} /\ status' = "200")
           <=> (pc \in {"header", "body", "close file"} /\ status = "200")
  PROVE  Rest'
<1>1. UNCHANGED <<table, background, next, kept, came>>
  BY DEF start
<1>2. Expected' = Expected
  <2>1. Foreground' = Foreground
    BY <1>1 DEF Foreground
  <2> QED BY <1>1, <2>1 DEF Expected, Ended, Loop
<1>3. Present'
  BY <1>1, <1>2 DEF Inv, Present
<1> QED BY <1>1, <1>3 DEF Inv, Rest, Progress, Second, Handled, Loop, Ended
LEMMA AnswerKeeps ==
  ASSUME Inv, Debug \/ Header \/ Body \/ LogRequest \/ Info
  PROVE  Rest'
<1>1. UNCHANGED <<table, start, came, current, status>>
  BY DEF Debug, Header, Body, LogRequest, Info, work
<1>2. /\ pc \in Handled /\ pc' \in Handled /\ pc' # "debug"
      /\ pc = "debug" => status = "500"
      /\ \/ {pc, pc'} \subseteq {"header", "body", "close file"}
         \/ {pc, pc'} \cap {"header", "body", "close file"} = {}
         \/ pc = "debug"
  BY DEF Debug, Header, Body, LogRequest, Info, Handled, Loop, Inv, Progress
<1>3. current' \in Clients
  BY <1>1, <1>2 DEF Inv, Progress
<1> QED BY <1>1, <1>2, <1>3, WithinLoop DEF Handled

LEMMA HandleKeeps ==
  ASSUME Inv, NEW c \in Clients, NEW r \in Requests, Handle(c, r)
  PROVE  Rest'
<1>1. /\ UNCHANGED <<table, start, came>> /\ current' = c
      /\ pc = "wait" /\ pc' \in {"close", "log", "open"}
  BY DEF Handle
<1> QED BY <1>1, WithinLoop DEF Loop

LEMMA OpenFileKeeps ==
  ASSUME Inv, OpenFile
  PROVE  Rest'
<1>1. /\ pc = "open" /\ UNCHANGED <<start, came, current>> /\ current \in Clients
      /\ pc' = IF status' = "500" THEN "debug" ELSE "header"
  BY DEF OpenFile, Inv, Progress, Handled, Loop
<1>2. CASE Open("file") /\ status' = "200"
  <2>1. "file" \in Things /\ "file" \notin Kept
    BY KeptThings DEF Things
  <2>2. "file" \notin Expected
    BY <1>1, <2>1 DEF Expected, Foreground, Inv, TypeOK
  <2>3. ~Has(table, "file") /\ Once(table) /\ TypeOK
    BY <2>1, <2>2 DEF Inv, Present
  <2>4. /\ Once(table')
        /\ \A u \in Things \cup Clients : Has(table', u) <=> Has(table, u) \/ u = "file"
        /\ \A g \in Fds : table[g] # Free => table'[g] = table[g]
    BY <1>2, <2>1, <2>3, OpenEffect
  <2>5. pc' = "header" /\ UNCHANGED <<background, next, kept, came>>
    BY <1>1, <1>2 DEF start
  <2>6. Expected' = Expected \cup {"file"}
    BY <1>1, <1>2, <2>5 DEF Expected, Foreground, Ended, Loop
  <2>7. Present'
    BY <1>1, <2>1, <2>4, <2>5, <2>6, DescriptorsAssumption DEF Inv, Present, Loop
  <2>8. table[2] # Free => table'[2] = table[2]
    BY <2>4, LowFds
  <2>9. Free \notin Things /\ kept \cup {"epoll", "stderr"} \subseteq Things
    BY KeptThings, DescriptorsAssumption DEF Inv, TypeOK, Things
  <2> QED BY <1>1, <2>5, <2>7, <2>8, <2>9
          DEF Inv, Rest, Progress, Second, Handled, Loop, Ended
<1>3. CASE status' # "200" /\ UNCHANGED table
  BY <1>1, <1>3, WithinLoop DEF Loop
<1> QED BY <1>2, <1>3 DEF OpenFile

LEMMA CloseFileKeeps ==
  ASSUME Inv, CloseFile
  PROVE  Rest'
<1>1. /\ pc = "close file" /\ pc' = "log" /\ Close("file")
      /\ UNCHANGED <<background, next, kept, came, current, status>> /\ current \in Clients
  BY DEF CloseFile, start, work, Inv, Progress, Handled, Loop
<1>2. "file" \in Things /\ "file" \notin Kept
  BY KeptThings DEF Things
<1>3. /\ Once(table')
      /\ \A u \in Things \cup Clients : Has(table', u) <=> Has(table, u) /\ u # "file"
      /\ \A g \in Fds : table'[g] = IF table[g] = "file" THEN Free ELSE table[g]
  BY <1>1, <1>2, CloseEffect DEF Inv, Present
<1>4. Expected' = Expected \ {"file"}
  <2>1. "file" \notin Foreground \cup kept \cup {"listener", "epoll"}
    BY <1>2 DEF Foreground, Inv, TypeOK
  <2>2. Foreground' = Foreground
    BY <1>1 DEF Foreground
  <2> QED BY <1>1, <2>1, <2>2 DEF Expected, Ended, Loop
<1>5. Present'
  BY <1>1, <1>2, <1>3, <1>4 DEF Inv, Present, Loop
<1>6. "file" \notin kept \cup {"epoll", "stderr"}
  BY <1>2 DEF Inv, TypeOK
<1> QED BY <1>1, <1>3, <1>5, <1>6, LowFds
        DEF Inv, Rest, Progress, Second, Handled, Loop, Ended
LEMMA AcceptKeeps ==
  ASSUME Inv, NEW c \in Clients, Accept(c)
  PROVE  Rest'
<1>1. CASE Stop
  BY <1>1, EndKeeps DEF Stop, Ended
<1>2. CASE Open(c) /\ UNCHANGED pc
  <2>1. /\ pc = "wait" /\ pc' = "wait" /\ came' = came \cup {c} /\ c \notin came
        /\ UNCHANGED <<background, next, kept, current, status>>
    BY <1>2 DEF Accept, start, work
  <2>2. ~Has(table, c) /\ Once(table) /\ TypeOK
    BY <2>1 DEF Inv, Present
  <2>3. /\ Once(table')
        /\ \A u \in Things \cup Clients : Has(table', u) <=> Has(table, u) \/ u = c
        /\ \A g \in Fds : table[g] # Free => table'[g] = table[g]
    BY <1>2, <2>2, OpenEffect
  <2>4. Expected' = Expected
    BY <2>1 DEF Expected, Foreground, Ended, Loop
  <2>5. Present'
    BY <2>1, <2>3, <2>4, DescriptorsAssumption DEF Inv, Present, Loop
  <2>6. table[2] # Free => table'[2] = table[2]
    BY <2>3, LowFds
  <2>7. Free \notin Things /\ kept \cup {"epoll", "stderr"} \subseteq Things
    BY KeptThings, DescriptorsAssumption DEF Inv, TypeOK, Things
  <2> QED BY <2>1, <2>5, <2>6, <2>7 DEF Inv, Rest, Progress, Second, Handled, Loop, Ended
<1> QED BY <1>1, <1>2 DEF Accept

LEMMA CloseClientKeeps ==
  ASSUME Inv, CloseClient
  PROVE  Rest'
<1>1. /\ pc = "close" /\ pc' = "wait" /\ Close(current) /\ current \in Clients
      /\ UNCHANGED <<background, next, kept, came, status>>
  BY DEF CloseClient, start, Inv, Progress, Handled, Loop
<1>2. /\ Once(table')
      /\ \A u \in Things \cup Clients : Has(table', u) <=> Has(table, u) /\ u # current
      /\ \A g \in Fds : table'[g] = IF table[g] = current THEN Free ELSE table[g]
  BY <1>1, CloseEffect DEF Inv, Present
<1>3. Expected' = Expected
  BY <1>1 DEF Expected, Foreground, Ended, Loop
<1>4. Present'
  BY <1>1, <1>2, <1>3, DescriptorsAssumption DEF Inv, Present, Loop
<1>5. current \notin kept \cup {"epoll", "stderr"}
  <2>1. kept \cup {"epoll", "stderr"} \subseteq Things
    BY KeptThings DEF Inv, TypeOK, Things
  <2> QED BY <1>1, <2>1, DescriptorsAssumption
<1> QED BY <1>1, <1>2, <1>4, <1>5, LowFds
        DEF Inv, Rest, Progress, Second, Handled, Loop, Ended

LEMMA OpenConfigKeeps ==
  ASSUME Inv, OpenConfig
  PROVE  Rest'
<1>1. /\ pc = "config" /\ kept = {} /\ next = 1
      /\ UNCHANGED <<background, next, kept, came, current, status>>
  BY DEF OpenConfig, start, work, Inv, Progress
<1>2. CASE pc' = "pid" /\ UNCHANGED table
  <2>1. Expected' = Expected
    BY <1>1, <1>2 DEF Expected, Foreground, Ended, Loop
  <2>2. Present'
    BY <1>1, <1>2, <2>1 DEF Inv, Present, Loop
  <2> QED BY <1>1, <1>2, <2>2 DEF Inv, Rest, Progress, Second, Handled, Loop, Ended
<1>3. CASE pc' = "opening" /\ Open("config")
  <2>1. "config" \in Things
    BY DEF Things
  <2>2. "config" \notin Expected
    BY <1>1 DEF Expected, Foreground
  <2>3. ~Has(table, "config") /\ Once(table) /\ TypeOK
    BY <2>1, <2>2 DEF Inv, Present
  <2>4. /\ Once(table')
        /\ \A u \in Things \cup Clients : Has(table', u) <=> Has(table, u) \/ u = "config"
        /\ Lowest \in Fds /\ table'[Lowest] = "config"
        /\ \A g \in Fds : table[g] = Free => Lowest <= g
        /\ \A g \in Fds : table[g] # Free => table'[g] = table[g]
    BY <1>3, <2>1, <2>3, OpenEffect
  <2>5. Expected' = Expected \cup {"config"}
    BY <1>1, <1>3 DEF Expected, Foreground, Ended, Loop
  <2>6. Present'
    BY <1>1, <1>3, <2>1, <2>4, <2>5, DescriptorsAssumption DEF Inv, Present, Loop
  <2>7. background => table'[0] = "config"
    <3>1. ASSUME background PROVE table[0] = Free
      <4>1. Expected = {}
        BY <3>1, <1>1 DEF Expected, Foreground, Ended, Loop
      <4> QED BY <1>1, <4>1, Others, LowFds DEF Inv, Loop
    <3>2. background => Lowest <= 0
      BY <3>1, <2>4, LowFds
    <3>3. background => Lowest = 0
      BY <3>2, <2>4, DescriptorsAssumption DEF Fds
    <3> QED BY <3>3, <2>4
  <2>8. ~background => table'[2] = "stderr"
    <3>1. "stderr" # Free
      BY DescriptorsAssumption DEF Things
    <3> QED BY <1>1, <3>1, <2>4, LowFds DEF Inv, Second, Ended
  <2> QED BY <1>1, <1>3, <2>6, <2>7, <2>8 DEF Inv, Rest, Progress, Second, Handled, Loop, Ended
<1> QED BY <1>2, <1>3 DEF OpenConfig
LEMMA OpenNextKeeps ==
  ASSUME Inv, OpenNext
  PROVE  Rest'
<1> DEFINE t == Configured[next]
<1>1. /\ pc = "opening" /\ pc' = "opening" /\ next \in 1 .. 5 /\ next' = next + 1
      /\ UNCHANGED <<background, came, current, status>>
  BY DEF OpenNext, work, Inv, TypeOK
<1>2. t \in Kept /\ t \in Things /\ t \notin {"config", "stdin", "stdout", "stderr"}
  BY <1>1, KeptThings
<1>3. kept \subseteq { Configured[i] : i \in 1 .. next - 1 }
  BY <1>1 DEF Inv, Progress
<1>4. t \notin kept
  <2>1. \A i \in 1 .. next - 1 : Configured[i] # t
    BY <1>1, KeptThings
  <2> QED BY <1>3, <2>1
<1>5. kept' \subseteq kept \cup {t} => kept' \subseteq { Configured[i] : i \in 1 .. next' - 1 }
  <2>1. \A i \in 1 .. next - 1 : i \in 1 .. next' - 1
    BY <1>1
  <2>2. next \in 1 .. next' - 1
    BY <1>1
  <2> QED BY <1>3, <2>1, <2>2
<1> HIDE DEF t
<1>6. CASE kept' = kept /\ UNCHANGED table
  <2>1. Expected' = Expected
    BY <1>1, <1>6 DEF Expected, Foreground, Ended, Loop
  <2>2. Present'
    BY <1>1, <1>6, <2>1 DEF Inv, Present, Loop
  <2> QED BY <1>1, <1>5, <1>6, <2>2 DEF Inv, Rest, Progress, Second, Handled, Loop, Ended
<1>7. CASE Open(t) /\ kept' = kept \cup {t}
  <2>1. t \notin Expected
    BY <1>1, <1>2, <1>4 DEF Expected, Foreground, Ended, Loop
  <2>2. ~Has(table, t) /\ Once(table) /\ TypeOK
    BY <1>2, <2>1 DEF Inv, Present
  <2>3. /\ Once(table')
        /\ \A u \in Things \cup Clients : Has(table', u) <=> Has(table, u) \/ u = t
        /\ Lowest \in Fds /\ table'[Lowest] = t /\ table[Lowest] = Free
        /\ \A g \in Fds : table[g] = Free => Lowest <= g
        /\ \A g \in Fds : table[g] # Free => table'[g] = table[g]
    BY <1>7, <1>2, <2>2, OpenEffect
  <2>4. Expected' = Expected \cup {t}
    BY <1>1, <1>7 DEF Expected, Foreground, Ended, Loop
  <2>5. Present'
    BY <1>1, <1>2, <2>3, <2>4, DescriptorsAssumption DEF Inv, Present, Loop
  <2>6. Free \notin Things /\ {"config", "stderr"} \subseteq Things /\ kept \subseteq Things
    BY KeptThings, DescriptorsAssumption DEF Inv, TypeOK, Things
  <2>7. ASSUME background, kept = {}
        PROVE  table'[1] = t
    <3>1. table[0] = "config"
      BY <1>1, <2>7 DEF Inv, Second
    <3>2. Expected = {"config"}
      BY <1>1, <2>7 DEF Expected, Foreground, Ended, Loop
    <3>3. table[1] = Free
      <4>1. SUFFICES ASSUME table[1] # Free PROVE FALSE
        OBVIOUS
      <4>2. table[1] = "config"
        BY <4>1, <1>1, <3>2, Others, LowFds DEF Inv, Loop
      <4> QED BY <4>1, <4>2, <3>1, LowFds DEF Inv, Present, Once
    <3>4. Lowest # 0 /\ Lowest <= 1
      BY <3>1, <3>3, <2>3, <2>6, LowFds
    <3>5. Lowest = 1
      BY <3>4, <2>3, DescriptorsAssumption DEF Fds
    <3> QED BY <3>5, <2>3
  <2>8. background => table'[0] = "config" /\ table'[1] \in kept'
    BY <1>1, <1>7, <2>3, <2>6, <2>7, LowFds DEF Inv, Second
  <2>9. ~background => table'[2] = "stderr"
    BY <1>1, <2>3, <2>6, LowFds DEF Inv, Second, Ended
  <2> QED BY <1>1, <1>5, <1>7, <2>5, <2>8, <2>9 DEF Rest, Progress, Second, Handled, Loop, Ended
<1> QED BY <1>6, <1>7 DEF OpenNext, t

LEMMA CloseConfigKeeps ==
  ASSUME Inv, CloseConfig
  PROVE  Rest'
<1>1. /\ pc = "opening" /\ pc' = "pid" /\ Close("config")
      /\ UNCHANGED <<background, next, kept, came, current, status>>
  BY DEF CloseConfig, start, work
<1>2. "config" \in Things /\ "config" \notin kept
  BY KeptThings DEF Inv, TypeOK, Things
<1>3. /\ Once(table')
      /\ \A u \in Things \cup Clients : Has(table', u) <=> Has(table, u) /\ u # "config"
      /\ \A g \in Fds : table'[g] = IF table[g] = "config" THEN Free ELSE table[g]
  BY <1>1, <1>2, CloseEffect DEF Inv, Present
<1>4. Expected' = Expected \ {"config"}
  BY <1>1, <1>2 DEF Expected, Foreground, Ended, Loop
<1>5. Present'
  BY <1>1, <1>2, <1>3, <1>4 DEF Inv, Present, Loop
<1> QED BY <1>1, <1>2, <1>3, <1>5, LowFds
        DEF Inv, Rest, Progress, Second, Handled, Loop, Ended

LEMMA ClosePidKeeps ==
  ASSUME Inv, ClosePid
  PROVE  Rest'
<1>1. /\ pc = "close pid" /\ pc' = "announce" /\ Close("pid")
      /\ UNCHANGED <<background, next, kept, came, current, status>>
  BY DEF ClosePid, start, work
<1>2. "pid" \in Things /\ "pid" \notin kept
  BY KeptThings DEF Inv, TypeOK, Things
<1>3. /\ Once(table')
      /\ \A u \in Things \cup Clients : Has(table', u) <=> Has(table, u) /\ u # "pid"
      /\ \A g \in Fds : table'[g] = IF table[g] = "pid" THEN Free ELSE table[g]
  BY <1>1, <1>2, CloseEffect DEF Inv, Present
<1>4. Expected' = Expected \ {"pid"}
  BY <1>1, <1>2 DEF Expected, Foreground, Ended, Loop
<1>5. Present'
  BY <1>1, <1>2, <1>3, <1>4 DEF Inv, Present, Loop
<1> QED BY <1>1, <1>2, <1>3, <1>5, LowFds
        DEF Inv, Rest, Progress, Second, Handled, Loop, Ended

(* What the pid file, the listener and the epoll set have in common.        *)
LEMMA OpenThing ==
  ASSUME Inv, NEW t \in {"pid", "listener", "epoll"}, Open(t), t \notin Expected,
         UNCHANGED <<background, kept, came>>, Expected' = Expected \cup {t},
         pc \notin Loop
  PROVE  /\ Present'
         /\ table[0] = Free => table'[0] = t
         /\ \A g \in Fds : table[g] # Free => table'[g] = table[g]
         /\ table[0] # Free /\ table[1] # Free /\ table[2] = Free => table'[2] = t
<1>1. t \in Things
  BY DEF Things
<1>2. ~Has(table, t) /\ Once(table) /\ TypeOK
  BY <1>1 DEF Inv, Present
<1>3. /\ Once(table')
      /\ \A u \in Things \cup Clients : Has(table', u) <=> Has(table, u) \/ u = t
      /\ Lowest \in Fds /\ table'[Lowest] = t /\ table[Lowest] = Free
      /\ \A g \in Fds : table[g] = Free => Lowest <= g
      /\ \A g \in Fds : table[g] # Free => table'[g] = table[g]
  BY <1>1, <1>2, OpenEffect
<1>4. Present'
  BY <1>1, <1>3, DescriptorsAssumption DEF Inv, Present
<1>5. Lowest \in Nat
  BY <1>3, DescriptorsAssumption DEF Fds
<1>6. table[0] = Free => Lowest = 0
  BY <1>3, <1>5, LowFds
<1>7. table[0] # Free /\ table[1] # Free /\ table[2] = Free => Lowest = 2
  BY <1>3, <1>5, LowFds
<1> QED BY <1>3, <1>4, <1>6, <1>7

LEMMA OpenPidKeeps ==
  ASSUME Inv, OpenPid
  PROVE  Rest'
<1>1. /\ pc = "pid"
      /\ UNCHANGED <<background, next, kept, came, current, status>>
  BY DEF OpenPid, start, work
<1>2. CASE pc' = "announce" /\ UNCHANGED table
  <2>1. Expected' = Expected
    BY <1>1, <1>2 DEF Expected, Foreground, Ended, Loop
  <2>2. Present'
    BY <1>1, <1>2, <2>1 DEF Inv, Present, Loop
  <2> QED BY <1>1, <1>2, <2>2 DEF Inv, Rest, Progress, Second, Handled, Loop, Ended
<1>3. CASE pc' = "close pid" /\ Open("pid")
  <2>1. "pid" \notin Expected /\ Expected' = Expected \cup {"pid"}
    BY <1>1, <1>3, KeptThings DEF Expected, Foreground, Ended, Loop, Inv, TypeOK
  <2>2. /\ Present'
        /\ table[0] = Free => table'[0] = "pid"
        /\ \A g \in Fds : table[g] # Free => table'[g] = table[g]
    BY <1>1, <1>3, <2>1, OpenThing DEF Loop
  <2>3. Free \notin kept \cup {"stderr"}
    BY KeptThings, DescriptorsAssumption DEF Inv, TypeOK, Things
  <2> QED BY <1>1, <1>3, <2>2, <2>3, LowFds
          DEF Inv, Rest, Progress, Second, Handled, Loop, Ended
<1> QED BY <1>2, <1>3 DEF OpenPid

LEMMA ListenKeeps ==
  ASSUME Inv, Listen
  PROVE  Rest'
<1>1. /\ pc = "listen"
      /\ UNCHANGED <<background, next, kept, came, current, status>>
  BY DEF Listen, start, work
<1>2. CASE Stop
  BY <1>2, EndKeeps DEF Stop, Ended
<1>3. CASE pc' = "epoll" /\ Open("listener")
  <2>1. "listener" \notin Expected /\ Expected' = Expected \cup {"listener"}
    BY <1>1, <1>3, KeptThings DEF Expected, Foreground, Ended, Loop, Inv, TypeOK
  <2>2. /\ Present'
        /\ table[0] = Free => table'[0] = "listener"
        /\ \A g \in Fds : table[g] # Free => table'[g] = table[g]
    BY <1>1, <1>3, <2>1, OpenThing DEF Loop
  <2>3. Free \notin kept \cup {"stderr"}
    BY KeptThings, DescriptorsAssumption DEF Inv, TypeOK, Things
  <2> QED BY <1>1, <1>3, <2>2, <2>3, LowFds
          DEF Inv, Rest, Progress, Second, Handled, Loop, Ended
<1> QED BY <1>2, <1>3 DEF Listen

LEMMA MultiplexKeeps ==
  ASSUME Inv, Multiplex
  PROVE  Rest'
<1>1. /\ pc = "epoll"
      /\ UNCHANGED <<background, next, kept, came, current, status>>
  BY DEF Multiplex, start, work
<1>2. CASE Stop
  BY <1>2, EndKeeps DEF Stop, Ended
<1>3. CASE pc' = "wait" /\ Open("epoll")
  <2>1. "epoll" \notin Expected /\ Expected' = Expected \cup {"epoll"}
    BY <1>1, <1>3, KeptThings DEF Expected, Foreground, Ended, Loop, Inv, TypeOK
  <2>2. /\ Present'
        /\ \A g \in Fds : table[g] # Free => table'[g] = table[g]
        /\ table[0] # Free /\ table[1] # Free /\ table[2] = Free => table'[2] = "epoll"
    BY <1>1, <1>3, <2>1, OpenThing DEF Loop
  <2>3. Free \notin kept \cup {"stderr", "listener"}
    BY KeptThings, DescriptorsAssumption DEF Inv, TypeOK, Things
  <2>4. ASSUME background, kept # {}
        PROVE  table'[2] \in kept \cup {"epoll"}
    <3>1. table[0] = "listener" /\ table[1] \in kept
      BY <1>1, <2>4 DEF Inv, Second
    <3>2. CASE table[2] = Free
      BY <3>1, <3>2, <2>2, <2>3
    <3>3. CASE table[2] # Free
      <4>1. Expected = kept \cup {"listener"}
        BY <1>1, <2>4 DEF Expected, Foreground, Ended, Loop
      <4>2. table[2] \in kept \cup {"listener"}
        BY <1>1, <3>3, <4>1, Others, LowFds DEF Inv, Loop
      <4>3. table[2] # table[0]
        BY <3>3, LowFds DEF Inv, Present, Once
      <4> QED BY <4>2, <4>3, <3>1, <3>3, <2>2, LowFds
    <3> QED BY <3>2, <3>3
  <2> QED BY <1>1, <1>3, <2>2, <2>3, <2>4, LowFds
          DEF Inv, Rest, Progress, Second, Handled, Loop, Ended
<1> QED BY <1>2, <1>3 DEF Multiplex

LEMMA InterruptKeeps ==
  ASSUME Inv, Interrupt \/ BodyDies
  PROVE  Rest'
BY EndKeeps DEF Interrupt, BodyDies, Ended

LEMMA StutterKeeps ==
  ASSUME Inv, UNCHANGED vars
  PROVE  Rest'
<1>1. UNCHANGED <<pc, table, background, next, kept, came, current, status>>
  BY DEF vars, start, work
<1>2. Expected' = Expected
  BY <1>1 DEF Expected, Foreground
<1> QED BY <1>1, <1>2 DEF Inv, Rest, Present, Progress, Second

LEMMA StepKeeps == Inv /\ [Next]_vars => Inv'
<1> SUFFICES ASSUME Inv, [Next]_vars PROVE Inv'
  OBVIOUS
<1>1. TypeOK'
  BY TypeStep DEF Inv
<1>2. Rest'
  BY StartKeeps, DetachKeeps, StayInFrontKeeps, OpenConfigKeeps, OpenNextKeeps, CloseConfigKeeps,
     OpenPidKeeps, ClosePidKeeps, AnnounceKeeps, ListenKeeps, MultiplexKeeps, AcceptKeeps,
     HandleKeeps, OpenFileKeeps, AnswerKeeps, CloseFileKeeps, CloseClientKeeps, InterruptKeeps,
     StutterKeeps DEF Next
<1> QED BY <1>1, <1>2 DEF Inv, Rest

LEMMA Invariance == Spec => []Inv
BY Initially, StepKeeps, PTL DEF Spec

(* The types, with them the bound of print_counter.                         *)
THEOREM DescriptorTypes == Spec => []TypeOK
<1>1. Inv => TypeOK
  BY DEF Inv
<1> QED BY Invariance, <1>1, PTL

(* A server that waits has open what it keeps and no more, whatever it was  *)
(* asked and whatever failed.                                               *)
THEOREM NothingIsLeaked == Spec => []NothingLeaks
<1>1. Inv => NothingLeaks
  <2> SUFFICES ASSUME Inv, pc = "wait" PROVE NothingLeaks
    BY DEF NothingLeaks
  <2>1. Expected = Foreground \cup kept \cup {"listener", "epoll"}
    BY DEF Expected, Ended, Loop
  <2>2. Expected \subseteq Things
    BY <2>1, KeptThings DEF Inv, TypeOK, Foreground, Things
  <2>3. ASSUME NEW t \in { table[f] : f \in Fds } \ {Free}
        PROVE  t \in Expected \cup Connected
    <3>1. Has(table, t) /\ t \in Things \cup Clients
      BY <2>3 DEF Inv, TypeOK, Has
    <3> QED BY <3>1 DEF Inv, Present, Has, Connected
  <2>4. ASSUME NEW t \in Expected \cup Connected
        PROVE  t \in { table[f] : f \in Fds } \ {Free}
    <3>1. Has(table, t)
      BY <2>2, <2>4 DEF Inv, Present, Connected, Has
    <3>2. t # Free
      BY <2>2, <2>4, DescriptorsAssumption DEF Connected
    <3> QED BY <3>1, <3>2 DEF Has
  <2>5. { table[f] : f \in Fds } \ {Free} = Expected \cup Connected
    BY <2>3, <2>4
  <2> QED BY <2>1, <2>5 DEF NothingLeaks, Inv, Present, Once
<1> QED BY Invariance, <1>1, PTL

(* Who has number 2 is written to.                                          *)
LEMMA TextReaches ==
  ASSUME Inv, pc \notin Ended, NEW t \in Texts, WriteText(t), NEW c \in Clients, got'[c] # got[c]
  PROVE  background /\ kept = {}
<1>1. table[2] = c
  BY DEF WriteText, Inv, TypeOK
<1>2. Has(table, c) /\ pc \in Loop
  BY <1>1, LowFds DEF Has, Inv, Present
<1>3. kept \cup {"epoll", "stderr"} \subseteq Things
  BY KeptThings DEF Inv, TypeOK, Things
<1> QED BY <1>1, <1>2, <1>3, DescriptorsAssumption DEF Inv, Second

LEMMA SendReaches ==
  ASSUME Inv, NEW parts \in Seq(Part), Send(parts), NEW c \in Clients, got'[c] # got[c],
         parts # <<>> => ~IsText(parts[Len(parts)])
  PROVE  c = current /\ ~IsText(got'[c][Len(got'[c])])
<1>1. got \in [Clients -> Seq(Part)]
  BY DEF Inv, TypeOK, Part
<1> HIDE DEF Part
<1>2. c = current /\ got'[c] = got[c] \o parts
  BY <1>1 DEF Send
<1>3. parts # <<>> /\ Len(parts) \in Nat \ {0}
  <2>1. CASE parts = <<>>
    BY <2>1, <1>1, <1>2, ConcatEmptySeq
  <2>2. CASE parts # <<>>
    BY <2>2, EmptySeq, LenProperties
  <2> QED BY <2>1, <2>2
<1>4. got'[c][Len(got'[c])] = parts[Len(parts)]
  <2>1. Len(got[c]) \in Nat /\ Len(got'[c]) = Len(got[c]) + Len(parts)
    BY <1>1, <1>2, <1>3, ConcatProperties, LenProperties
  <2> QED BY <2>1, <1>1, <1>2, <1>3, ConcatProperties
<1> QED BY <1>2, <1>3, <1>4

(* A client gets its answer and nothing else, unless the server is in the   *)
(* background and keeps nothing.                                            *)
THEOREM OnlyOwnBytes == Spec => OwnBytesOnly
<1> DEFINE Own == \A c \in Clients :
        got'[c] # got[c] => \/ c = current /\ ~IsText(got'[c][Len(got'[c])])
                            \/ background /\ kept = {}
<1>1. Inv /\ [Next]_vars => [Own]_vars
  <2> SUFFICES ASSUME Inv, [Next]_vars, NEW c \in Clients, got'[c] # got[c]
               PROVE  \/ c = current /\ ~IsText(got'[c][Len(got'[c])])
                      \/ background /\ kept = {}
    OBVIOUS
  <2>1. {"starting", "debug", "info", "stop"} \subseteq Texts
    BY DEF Texts
  <2>2. CASE Announce
    BY <2>1, <2>2, TextReaches DEF Announce, Ended
  <2>3. CASE Debug
    BY <2>1, <2>3, TextReaches DEF Debug, Ended
  <2>4. CASE Info
    BY <2>1, <2>4, TextReaches DEF Info, Ended
  <2>5. CASE Interrupt
    BY <2>1, <2>5, TextReaches DEF Interrupt, Ended
  <2>6. CASE Header
    <3>1. Send(HeaderParts)
      BY <2>6 DEF Header, HeaderParts
    <3>2. HeaderParts \in Seq(Part) /\ ~IsText(HeaderParts[Len(HeaderParts)])
      BY HeaderTypes DEF Inv, IsText, Texts
    <3> QED BY <3>1, <3>2, SendReaches
  <2>7. CASE Body
    <3>1. PICK parts \in Seq(Part) :
            /\ Send(parts) /\ Len(parts) \in {0, 1}
            /\ Len(parts) = 1 => parts[1].what \in {"page", "file", "garbage"}
      BY <2>7, BodySends DEF Inv
    <3>2. parts # <<>> => Len(parts) = 1
      BY <3>1, EmptySeq
    <3>3. parts # <<>> => ~IsText(parts[Len(parts)])
      BY <3>1, <3>2 DEF IsText, Texts
    <3> QED BY <3>1, <3>3, SendReaches
  <2>8. CASE UNCHANGED vars
    BY <2>8 DEF vars
  <2>9. CASE UNCHANGED got
    BY <2>9
  <2> QED BY <2>2, <2>3, <2>4, <2>5, <2>6, <2>7, <2>8, <2>9
          DEF Next, Start, Detach, StayInFront, OpenConfig, OpenNext, CloseConfig, OpenPid,
              ClosePid, Listen, Multiplex, Accept, Handle, OpenFile, BodyDies, CloseFile,
              LogRequest, CloseClient
<1> QED BY Invariance, <1>1, PTL DEF Spec, OwnBytesOnly
-----------------------------------------------------------------------------
(* Enough descriptors: the server never needs more than two clients and a   *)
(* file beside what it keeps.                                               *)

Room ==
  /\ IsFiniteSet(Connected) /\ Cardinality(Connected) <= 2
  /\ pc \notin Loop \cup Ended => status = "none"
  /\ EnoughDescriptors

LEMMA FewThings ==
  ASSUME TypeOK
  PROVE  /\ IsFiniteSet(Foreground) /\ IsFiniteSet(kept)
         /\ Cardinality(Foreground) \in Nat /\ Cardinality(kept) \in Nat
<1>1. IsFiniteSet({"stdin", "stdout", "stderr"})
  <2>1. IsFiniteSet({} \cup {"stdin"})
    BY FS_EmptySet, FS_AddElement
  <2>2. IsFiniteSet({} \cup {"stdin"} \cup {"stdout"})
    BY <2>1, FS_AddElement
  <2>3. IsFiniteSet({} \cup {"stdin"} \cup {"stdout"} \cup {"stderr"})
    BY <2>2, FS_AddElement
  <2>4. {"stdin", "stdout", "stderr"} = {} \cup {"stdin"} \cup {"stdout"} \cup {"stderr"}
    OBVIOUS
  <2> QED BY <2>3, <2>4
<1>2. IsFiniteSet(Foreground)
  BY <1>1, FS_EmptySet DEF Foreground
<1>4. IsFiniteSet(Kept)
  <2>1. IsFiniteSet({} \cup {"info"})
    BY FS_EmptySet, FS_AddElement
  <2>2. IsFiniteSet({} \cup {"info"} \cup {"error"})
    BY <2>1, FS_AddElement
  <2>3. IsFiniteSet({} \cup {"info"} \cup {"error"} \cup {"request"})
    BY <2>2, FS_AddElement
  <2>4. IsFiniteSet({} \cup {"info"} \cup {"error"} \cup {"request"} \cup {"root"})
    BY <2>3, FS_AddElement
  <2>5. IsFiniteSet({} \cup {"info"} \cup {"error"} \cup {"request"} \cup {"root"} \cup {"work"})
    BY <2>4, FS_AddElement
  <2>6. Kept = {} \cup {"info"} \cup {"error"} \cup {"request"} \cup {"root"} \cup {"work"}
    BY KeptThings
  <2> QED BY <2>5, <2>6
<1>5. IsFiniteSet(kept)
  BY <1>4, FS_Subset DEF TypeOK
<1> QED BY <1>2, <1>5, FS_CardinalityType

(* As long as there may be so many descriptors, one is free when the        *)
(* server opens something.                                                  *)
LEMMA OneIsFree ==
  ASSUME Inv, Room, Enough, pc \in {"listen", "epoll", "wait", "open"}
  PROVE  FreeFds # {}
<1> SUFFICES ASSUME FreeFds = {} PROVE FALSE
  OBVIOUS
<1> DEFINE A == Foreground \cup kept
           B == A \cup {"listener"}
           C == B \cup {"epoll"}
           D == C \cup Connected
<1>1. /\ IsFiniteSet(Foreground) /\ IsFiniteSet(kept)
      /\ Cardinality(Foreground) \in Nat /\ Cardinality(kept) \in Nat
  BY FewThings DEF Inv
<1>2. IsFiniteSet(A) /\ Cardinality(A) <= Cardinality(Foreground) + Cardinality(kept) /\ Cardinality(A) \in Nat
  <2>1. IsFiniteSet(Foreground \cap kept)
    BY <1>1, FS_Subset
  <2>2. Cardinality(Foreground \cap kept) \in Nat
    BY <2>1, FS_CardinalityType
  <2>3. IsFiniteSet(A) /\ Cardinality(A) = Cardinality(Foreground) + Cardinality(kept) - Cardinality(Foreground \cap kept)
    BY <1>1, FS_Union
  <2>4. Cardinality(A) \in Nat
    BY <2>3, FS_CardinalityType
  <2> HIDE DEF A
  <2> QED BY <1>1, <2>2, <2>3, <2>4
<1> HIDE DEF A
<1>3. IsFiniteSet(B) /\ Cardinality(B) <= Cardinality(A) + 1 /\ Cardinality(B) \in Nat
  <2>1. IsFiniteSet(B) /\ Cardinality(B) = IF "listener" \in A THEN Cardinality(A) ELSE Cardinality(A) + 1
    BY <1>2, FS_AddElement
  <2> HIDE DEF B
  <2> QED BY <1>2, <2>1
<1> HIDE DEF B
<1>4. IsFiniteSet(C) /\ Cardinality(C) <= Cardinality(B) + 1 /\ Cardinality(C) \in Nat
  <2>1. IsFiniteSet(C) /\ Cardinality(C) = IF "epoll" \in B THEN Cardinality(B) ELSE Cardinality(B) + 1
    BY <1>3, FS_AddElement
  <2> HIDE DEF C
  <2> QED BY <1>3, <2>1
<1> HIDE DEF C
<1>5. IsFiniteSet(D) /\ Cardinality(D) <= Cardinality(C) + 2 /\ Cardinality(D) \in Nat
  <2>1. IsFiniteSet(Connected) /\ Cardinality(Connected) <= 2 /\ Cardinality(Connected) \in Nat
    BY FS_CardinalityType DEF Room
  <2>2. IsFiniteSet(C \cap Connected)
    BY <1>4, FS_Subset
  <2>3. Cardinality(C \cap Connected) \in Nat
    BY <2>2, FS_CardinalityType
  <2>4. IsFiniteSet(D) /\ Cardinality(D) = Cardinality(C) + Cardinality(Connected) - Cardinality(C \cap Connected)
    BY <1>4, <2>1, FS_Union
  <2>5. Cardinality(D) \in Nat
    BY <2>4, FS_CardinalityType
  <2> HIDE DEF D
  <2> QED BY <1>4, <2>1, <2>3, <2>4, <2>5
<1>6. \A f \in Fds : table[f] \in D
  <2> SUFFICES ASSUME NEW f \in Fds PROVE table[f] \in D
    OBVIOUS
  <2>1. table[f] \in Things \cup Clients /\ Has(table, table[f])
    BY DEF FreeFds, Inv, TypeOK, Has
  <2>2. CASE table[f] \in Clients
    BY <2>2 DEF Connected
  <2>3. CASE table[f] \in Things
    BY <2>1, <2>3 DEF Inv, Present, Expected, Loop, Ended, A, B, C
  <2> QED BY <2>1, <2>2, <2>3
<1> HIDE DEF D
<1>7. table \in Injection(Fds, D)
  <2>1. table \in [Fds -> D]
    BY <1>6 DEF Inv, TypeOK
  <2>2. \A f, g \in Fds : table[f] = table[g] => f = g
    BY DEF FreeFds, Inv, Present, Once
  <2> QED BY <2>1, <2>2 DEF Injection, IsInjective
<1>8. Cardinality(Fds) <= Cardinality(D)
  BY <1>5, <1>7, FS_Injection
<1>9. Cardinality(Fds) = Limit /\ Limit \in Nat
  BY FS_Interval, DescriptorsAssumption DEF Fds
<1> QED BY <1>1, <1>2, <1>3, <1>4, <1>5, <1>8, <1>9 DEF Enough

(* What opening and closing mean for the clients.                           *)
LEMMA OpenConnects ==
  ASSUME TypeOK, NEW t, Open(t)
  PROVE  Connected' \subseteq Connected \cup {t}
<1>1. \A f \in Fds : table'[f] \in {table[f], t}
  BY DEF Open, TypeOK
<1> QED BY <1>1 DEF Connected

LEMMA OpenThingConnects ==
  ASSUME TypeOK, NEW t \in Things, Open(t)
  PROVE  Connected' \subseteq Connected
BY OpenConnects, DescriptorsAssumption DEF Connected

LEMMA CloseConnects ==
  ASSUME TypeOK, NEW t, Close(t)
  PROVE  Connected' \subseteq Connected
BY DescriptorsAssumption DEF Close, Connected

LEMMA NobodyConnected ==
  ASSUME table' = NoFiles
  PROVE  Connected' = {}
BY DescriptorsAssumption DEF NoFiles, Connected

LEMMA SameConnected ==
  ASSUME UNCHANGED table
  PROVE  Connected' = Connected
BY DEF Connected

(* Fewer clients, and what they are asked for.                              *)
LEMMA RoomIsKept ==
  ASSUME Inv, Room, Connected' \subseteq Connected,
         UNCHANGED <<request, status>>, pc' = "stopped" => ~Enough',
         \/ pc \in Loop \cup Ended /\ pc' \in Loop \cup Ended /\ UNCHANGED <<background, kept>>
         \/ status = "none"
  PROVE  Room'
<1>1. IsFiniteSet(Connected') /\ Cardinality(Connected') <= 2
  <2>1. IsFiniteSet(Connected) /\ Cardinality(Connected) <= 2 /\ Cardinality(Connected) \in Nat
    BY FS_CardinalityType DEF Room
  <2>2. IsFiniteSet(Connected') /\ Cardinality(Connected') <= Cardinality(Connected)
    BY <2>1, FS_Subset
  <2>3. Cardinality(Connected') \in Nat
    BY <2>2, FS_CardinalityType
  <2> QED BY <2>1, <2>2, <2>3
<1> QED BY <1>1 DEF Room, EnoughDescriptors, Enough, Foreground

LEMMA RoomStep == Inv /\ Inv' /\ Room /\ [Next]_vars => Room'
<1> SUFFICES ASSUME Inv, Inv', Room, [Next]_vars PROVE Room'
  OBVIOUS
<1> USE DEF start, work
<1>1. CASE Start
  <2>1. Connected' = {}
    <3>1. Std[1] \in Things /\ Std[2] \in Things /\ Std[3] \in Things
      BY DEF Std, Things
    <3>2. \A f \in Fds : f <= 2 => f + 1 \in {1, 2, 3}
      BY DescriptorsAssumption DEF Fds
    <3>3. \A f \in Fds : table'[f] \in Things \cup {Free}
      BY <1>1, <3>1, <3>2 DEF Start
    <3> QED BY <3>3, DescriptorsAssumption DEF Connected
  <2> QED BY <1>1, <2>1, FS_EmptySet DEF Start, Room, EnoughDescriptors
<1>2. CASE Detach
  <2>1. Connected' \subseteq Connected /\ status = "none"
    BY <1>2, NobodyConnected DEF Detach, Room, Loop, Ended
  <2> QED BY <1>2, <2>1, RoomIsKept DEF Detach
<1>3. CASE StayInFront
  <2>1. Connected' \subseteq Connected /\ status = "none"
    BY <1>3, SameConnected DEF StayInFront, Room, Loop, Ended
  <2> QED BY <1>3, <2>1, RoomIsKept DEF StayInFront
<1>4. CASE OpenConfig
  <2>1. Connected' \subseteq Connected /\ status = "none"
    BY <1>4, SameConnected, OpenThingConnects DEF OpenConfig, Room, Loop, Ended, Inv, Things
  <2> QED BY <1>4, <2>1, RoomIsKept DEF OpenConfig
<1>5. CASE OpenNext
  <2>1. next \in 1 .. 5 /\ Configured[next] \in Things
    BY <1>5, KeptThings DEF OpenNext, Inv, TypeOK
  <2>2. Connected' \subseteq Connected /\ status = "none"
    BY <1>5, <2>1, SameConnected, OpenThingConnects DEF OpenNext, Room, Loop, Ended, Inv
  <2> QED BY <1>5, <2>2, RoomIsKept DEF OpenNext
<1>6. CASE CloseConfig
  <2>1. Connected' \subseteq Connected /\ status = "none"
    BY <1>6, CloseConnects DEF CloseConfig, Room, Loop, Ended, Inv
  <2> QED BY <1>6, <2>1, RoomIsKept DEF CloseConfig
<1>7. CASE OpenPid
  <2>1. Connected' \subseteq Connected /\ status = "none"
    BY <1>7, SameConnected, OpenThingConnects DEF OpenPid, Room, Loop, Ended, Inv, Things
  <2> QED BY <1>7, <2>1, RoomIsKept DEF OpenPid
<1>8. CASE ClosePid
  <2>1. Connected' \subseteq Connected /\ status = "none"
    BY <1>8, CloseConnects DEF ClosePid, Room, Loop, Ended, Inv
  <2> QED BY <1>8, <2>1, RoomIsKept DEF ClosePid
<1>9. CASE Announce
  <2>1. Connected' \subseteq Connected /\ status = "none"
    BY <1>9, SameConnected DEF Announce, Room, Loop, Ended
  <2> QED BY <1>9, <2>1, RoomIsKept DEF Announce
<1>10. CASE Listen
  <2>1. Connected' \subseteq Connected /\ status = "none"
    BY <1>10, NobodyConnected, OpenThingConnects DEF Listen, Stop, Room, Loop, Ended, Inv, Things
  <2>2. pc' = "stopped" => ~Enough'
    BY <1>10, OneIsFree DEF Listen, Enough, Foreground
  <2> QED BY <1>10, <2>1, <2>2, RoomIsKept DEF Listen
<1>11. CASE Multiplex
  <2>1. Connected' \subseteq Connected /\ status = "none"
    BY <1>11, NobodyConnected, OpenThingConnects DEF Multiplex, Stop, Room, Loop, Ended, Inv, Things
  <2>2. pc' = "stopped" => ~Enough'
    BY <1>11, OneIsFree DEF Multiplex, Enough, Foreground
  <2> QED BY <1>11, <2>1, <2>2, RoomIsKept DEF Multiplex
<1>12. ASSUME NEW c \in Clients, Accept(c)
       PROVE  Room'
  <2>1. CASE Open(c) /\ UNCHANGED pc
    <3>1. Connected' \subseteq Connected \cup {c}
      BY <2>1, OpenConnects DEF Inv
    <3>2. IsFiniteSet(Connected) /\ Cardinality(Connected) \in Nat /\ Cardinality(Connected) < 2
      BY <1>12, FS_CardinalityType DEF Room, Accept
    <3>3. IsFiniteSet(Connected \cup {c}) /\ Cardinality(Connected \cup {c}) <= Cardinality(Connected) + 1
          /\ Cardinality(Connected \cup {c}) \in Nat
      <4> DEFINE k == Cardinality(Connected)
                 n == Cardinality(Connected \cup {c})
      <4>1. IsFiniteSet(Connected \cup {c}) /\ n = IF c \in Connected THEN k ELSE k + 1
        BY <3>2, FS_AddElement
      <4>2. n \in Nat /\ k \in Nat
        BY <3>2, <4>1, FS_CardinalityType
      <4> HIDE DEF n, k
      <4>3. n <= k + 1
        BY <4>1, <4>2
      <4> QED BY <4>1, <4>2, <4>3 DEF n, k
    <3>4. IsFiniteSet(Connected') /\ Cardinality(Connected') <= Cardinality(Connected \cup {c})
      BY <3>1, <3>3, FS_Subset
    <3>5. Cardinality(Connected') \in Nat
      BY <3>4, FS_CardinalityType
    <3>6. Cardinality(Connected') <= 2
      BY <3>2, <3>3, <3>4, <3>5
    <3> QED BY <1>12, <2>1, <3>4, <3>6 DEF Accept, Room, EnoughDescriptors, Enough, Foreground, Loop, Ended
  <2>2. CASE FreeFds = {} /\ Stop
    <3>1. Connected' \subseteq Connected
      BY <2>2, NobodyConnected DEF Stop
    <3>2. ~Enough'
      BY <1>12, <2>2, OneIsFree DEF Accept, Enough, Foreground
    <3> QED BY <1>12, <2>2, <3>1, <3>2, RoomIsKept DEF Accept, Stop, Loop, Ended
  <2> QED BY <1>12, <2>1, <2>2 DEF Accept
<1>13. ASSUME NEW c \in Clients, NEW r \in Requests, Handle(c, r)
       PROVE  Room'
  <2>1. Connected' = Connected
    BY <1>13, SameConnected DEF Handle
  <2>2. pc' \in {"close", "log", "open"}
    BY <1>13 DEF Handle
  <2> QED BY <1>13, <2>1, <2>2 DEF Handle, Room, EnoughDescriptors, Loop, Ended
<1>14. CASE OpenFile
  <2>1. Connected' \subseteq Connected
    BY <1>14, SameConnected, OpenThingConnects DEF OpenFile, Inv, Things
  <2>2. /\ pc' \in {"debug", "header"} /\ UNCHANGED <<background, kept, request>>
        /\ Enough => (request \in Found => status' # "500")
    BY <1>14, OneIsFree DEF OpenFile, Found
  <2>3. IsFiniteSet(Connected') /\ Cardinality(Connected') <= 2
    <3>1. IsFiniteSet(Connected) /\ Cardinality(Connected) <= 2 /\ Cardinality(Connected) \in Nat
      BY FS_CardinalityType DEF Room
    <3>2. IsFiniteSet(Connected') /\ Cardinality(Connected') <= Cardinality(Connected)
      BY <2>1, <3>1, FS_Subset
    <3>3. Cardinality(Connected') \in Nat
      BY <3>2, FS_CardinalityType
    <3> QED BY <3>1, <3>2, <3>3
  <2> QED BY <2>2, <2>3 DEF Room, EnoughDescriptors, Enough, Foreground, Loop, Ended
<1>15. CASE Debug \/ Header \/ Body \/ LogRequest \/ Info
  <2>1. /\ pc \in Loop /\ pc' \in Loop /\ UNCHANGED <<background, kept, request, status, table>>
    BY <1>15 DEF Debug, Header, Body, LogRequest, Info, Loop
  <2>2. Connected' \subseteq Connected
    BY <2>1, SameConnected
  <2> QED BY <2>1, <2>2, RoomIsKept DEF Loop
<1>16. CASE CloseFile \/ CloseClient
  <2>1. Connected' \subseteq Connected
    BY <1>16, CloseConnects DEF CloseFile, CloseClient, Inv
  <2> QED BY <1>16, <2>1, RoomIsKept DEF CloseFile, CloseClient, Loop
<1>17. CASE Interrupt \/ BodyDies
  <2>1. Connected' \subseteq Connected
    BY <1>17, NobodyConnected DEF Interrupt, BodyDies
  <2>2. pc \in Loop \cup Ended \/ status = "none"
    BY DEF Room
  <2> QED BY <1>17, <2>1, <2>2, RoomIsKept DEF Interrupt, BodyDies, Ended
<1>18. CASE UNCHANGED vars
  <2>1. Connected' = Connected
    BY <1>18, SameConnected DEF vars
  <2> QED BY <1>18, <2>1 DEF vars, Room, EnoughDescriptors, Enough, Foreground
<1> QED BY <1>1, <1>2, <1>3, <1>4, <1>5, <1>6, <1>7, <1>8, <1>9, <1>10, <1>11, <1>12, <1>13,
           <1>14, <1>15, <1>16, <1>17, <1>18 DEF Next

(* With a descriptor for each thing it keeps and five more, no start and no *)
(* client ends the server, and no page becomes an error.                    *)
THEOREM NothingIsRefused == Spec => []EnoughDescriptors
<1>1. Init => Room
  <2> SUFFICES ASSUME Init PROVE Room
    OBVIOUS
  <2>1. Connected = {}
    BY DescriptorsAssumption DEF Init, NoFiles, Connected
  <2> QED BY <2>1, FS_EmptySet DEF Init, Room, EnoughDescriptors, Loop, Ended
<1>2. Room => EnoughDescriptors
  BY DEF Room
<1> QED BY Invariance, RoomStep, <1>1, <1>2, PTL DEF Spec
-----------------------------------------------------------------------------
(* What the clients were sent, and what was logged.                         *)

(* A text leaves what was sent before, and adds no status and no page.      *)
LEMMA TextAdds ==
  ASSUME TypeOK, NEW t \in Texts, WriteText(t), NEW c \in Clients
  PROVE  /\ got[c] \in Seq(Part) /\ got'[c] \in Seq(Part)
         /\ Len(got[c]) <= Len(got'[c])
         /\ \A i \in 1 .. Len(got[c]) : got'[c][i] = got[c][i]
         /\ \A i \in Len(got[c]) + 1 .. Len(got'[c]) : got'[c][i].what \in Texts
<1> DEFINE p == [what |-> t, bytes |-> 0]
<1>1. got \in [Clients -> Seq(Part)] /\ p \in Part /\ p.what \in Texts
  BY DEF TypeOK, Part
<1> HIDE DEF Part
<1>2. CASE table[2] = c
  <2>1. got'[c] = Append(got[c], p)
    BY <1>1, <1>2 DEF WriteText
  <2> HIDE DEF p
  <2> QED BY <1>1, <2>1, AppendProperties, LenProperties
<1>3. CASE table[2] # c
  <2>1. got'[c] = got[c]
    BY <1>1, <1>3 DEF WriteText
  <2> QED BY <1>1, <2>1, LenProperties
<1> QED BY <1>2, <1>3

(* An answer goes to the client that is handled, behind what it was sent.   *)
LEMMA SendAdds ==
  ASSUME TypeOK, NEW parts \in Seq(Part), Send(parts), current \in Clients
  PROVE  /\ \A c \in Clients : c # current => got'[c] = got[c]
         /\ got[current] \in Seq(Part) /\ got'[current] \in Seq(Part)
         /\ Len(got'[current]) = Len(got[current]) + Len(parts)
         /\ \A i \in 1 .. Len(got[current]) : got'[current][i] = got[current][i]
         /\ \A i \in 1 .. Len(parts) : got'[current][Len(got[current]) + i] = parts[i]
<1>1. got \in [Clients -> Seq(Part)]
  BY DEF TypeOK, Part
<1> HIDE DEF Part
<1>2. got'[current] = got[current] \o parts /\ \A c \in Clients : c # current => got'[c] = got[c]
  BY <1>1 DEF Send
<1>3. got[current] \in Seq(Part)
  BY <1>1
<1>4. Len(got[current]) \in Nat /\ Len(parts) \in Nat
  BY <1>3, LenProperties
<1>5. /\ got[current] \o parts \in Seq(Part)
      /\ Len(got[current] \o parts) = Len(got[current]) + Len(parts)
      /\ \A i \in 1 .. Len(got[current]) + Len(parts) : (got[current] \o parts)[i] =
           IF i <= Len(got[current]) THEN got[current][i] ELSE parts[i - Len(got[current])]
  BY <1>3, ConcatProperties
<1> QED BY <1>2, <1>3, <1>4, <1>5

LEMMA Kinds ==
  /\ Statuses \cap Texts = {} /\ {"rest", "page", "file", "garbage"} \cap (Statuses \cup Texts) = {}
  /\ {"starting", "debug", "info", "stop"} = Texts
BY DEF Statuses, Texts

-----------------------------------------------------------------------------
(* The request log.                                                         *)

Statused(c) == { i \in 1 .. Len(got[c]) : got[c][i].what \in Statuses }
Logged(c)   == { i \in 1 .. Len(log) : log[i].who = c }
Untouched(c) == Statused(c) = {} /\ Logged(c) = {}

(* A client has no line before its request is handled, and one status at    *)
(* most; while it is handled, the status it was sent is the one to log.     *)
Told ==
  /\ \A c \in Clients : \A i, j \in Statused(c) : i = j
  /\ \A c \in Clients :
       (c \notin came \/ c \in Connected) /\ ~(pc \in Handled /\ c = current) => Untouched(c)
  /\ pc \in Handled => current \in came
  /\ pc \in {"open", "debug", "header"} => Untouched(current)
  /\ pc \in {"body", "close file", "log"} => Logged(current) = {} /\ Answered(current) = status
  /\ LogTellsTruth

LEMMA AnsweredIs ==
  ASSUME NEW c \in Clients, \A i, j \in Statused(c) : i = j
  PROVE  /\ Statused(c) = {} => Answered(c) = "none"
         /\ \A i \in Statused(c) : Answered(c) = got[c][i].what
<1>1. CASE Statused(c) = {}
  BY <1>1 DEF Answered, Statused
<1>2. CASE Statused(c) # {}
  <2>1. PICK i \in Statused(c) : TRUE
    BY <1>2
  <2>2. i \in 1 .. Len(got[c]) /\ got[c][i].what \in Statuses
    BY DEF Statused
  <2>3. \A j \in 1 .. Len(got[c]) : got[c][j].what \in Statuses => j = i
    BY <2>1 DEF Statused
  <2>4. (CHOOSE j \in 1 .. Len(got[c]) : got[c][j].what \in Statuses) = i
    BY <2>2, <2>3
  <2>5. Answered(c) = got[c][i].what
    BY <2>2, <2>4 DEF Answered
  <2> QED BY <2>1, <2>5
<1> QED BY <1>1, <1>2

LEMMA AnsweredIsThen ==
  ASSUME NEW c \in Clients, \A i, j \in Statused(c)' : i = j
  PROVE  /\ Statused(c)' = {} => Answered(c)' = "none"
         /\ \A i \in Statused(c)' : Answered(c)' = got'[c][i].what
<1>1. CASE Statused(c)' = {}
  BY <1>1 DEF Answered, Statused
<1>2. CASE Statused(c)' # {}
  <2>1. PICK i \in Statused(c)' : TRUE
    BY <1>2
  <2>2. i \in 1 .. Len(got'[c]) /\ got'[c][i].what \in Statuses
    BY DEF Statused
  <2>3. \A j \in 1 .. Len(got'[c]) : got'[c][j].what \in Statuses => j = i
    BY <2>1 DEF Statused
  <2>4. (CHOOSE j \in 1 .. Len(got'[c]) : got'[c][j].what \in Statuses) = i
    BY <2>2, <2>3
  <2>5. Answered(c)' = got'[c][i].what
    BY <2>2, <2>4 DEF Answered
  <2> QED BY <2>1, <2>5
<1> QED BY <1>1, <1>2

(* What is no status changes no answer.                                     *)
LEMMA SameAnswer ==
  ASSUME NEW c \in Clients, \A i, j \in Statused(c) : i = j,
         got[c] \in Seq(Part), got'[c] \in Seq(Part), Len(got[c]) <= Len(got'[c]),
         \A i \in 1 .. Len(got[c]) : got'[c][i] = got[c][i],
         \A i \in Len(got[c]) + 1 .. Len(got'[c]) : got'[c][i].what \notin Statuses
  PROVE  Statused(c)' = Statused(c) /\ Answered(c)' = Answered(c)
<1>1. Len(got[c]) \in Nat /\ Len(got'[c]) \in Nat
  BY LenProperties
<1>2. Statused(c)' = Statused(c)
  <2>1. Statused(c)' = { i \in 1 .. Len(got'[c]) : got'[c][i].what \in Statuses }
    BY DEF Statused
  <2>2. ASSUME NEW i \in 1 .. Len(got'[c]), got'[c][i].what \in Statuses
        PROVE  i \in Statused(c)
    <3>1. i \in 1 .. Len(got[c])
      BY <1>1, <2>2
    <3> QED BY <3>1, <2>2 DEF Statused
  <2>3. ASSUME NEW i \in Statused(c)
        PROVE  i \in 1 .. Len(got'[c]) /\ got'[c][i].what \in Statuses
    BY <1>1 DEF Statused
  <2> QED BY <2>1, <2>2, <2>3
<1>3. Answered(c)' = Answered(c)
  <2>1. CASE Statused(c) = {}
    BY <2>1, <1>2, AnsweredIs, AnsweredIsThen
  <2>2. CASE Statused(c) # {}
    <3>1. PICK i \in Statused(c) : TRUE
      BY <2>2
    <3>2. got'[c][i] = got[c][i]
      BY <3>1 DEF Statused
    <3>3. Answered(c) = got[c][i].what
      BY <3>1, AnsweredIs
    <3>4. Answered(c)' = got'[c][i].what
      BY <3>1, <1>2, AnsweredIsThen
    <3> QED BY <3>2, <3>3, <3>4
  <2> QED BY <2>1, <2>2
<1> QED BY <1>2, <1>3

(* What is said to descriptor 2 changes no answer and logs no client.       *)
LEMMA TextTellsNothing ==
  ASSUME TypeOK, Told, NEW t \in Texts, WriteText(t)
  PROVE  /\ \A c \in Clients : Statused(c)' = Statused(c) /\ Answered(c)' = Answered(c)
         /\ \A c \in Clients : Logged(c)' = Logged(c)
         /\ \A i \in 1 .. Len(log') :
              log'[i].who # Nobody => i \in 1 .. Len(log) /\ log'[i] = log[i]
         /\ \A i \in 1 .. Len(log) : i \in 1 .. Len(log') /\ log'[i] = log[i]
<1>1. ASSUME NEW c \in Clients
      PROVE  Statused(c)' = Statused(c) /\ Answered(c)' = Answered(c)
  <2>1. /\ got[c] \in Seq(Part) /\ got'[c] \in Seq(Part) /\ Len(got[c]) <= Len(got'[c])
        /\ \A i \in 1 .. Len(got[c]) : got'[c][i] = got[c][i]
        /\ \A i \in Len(got[c]) + 1 .. Len(got'[c]) : got'[c][i].what \in Texts
    BY TextAdds
  <2>2. \A i \in Len(got[c]) + 1 .. Len(got'[c]) : got'[c][i].what \notin Statuses
    BY <2>1, Kinds
  <2> QED BY <2>1, <2>2, SameAnswer DEF Told
<1> DEFINE e == [who |-> Nobody, what |-> t]
<1>2. log \in Seq(Line) /\ e \in Line /\ e.who = Nobody /\ Nobody \notin Clients
  BY DescriptorsAssumption DEF TypeOK, Line
<1> HIDE DEF Line
<1>3. /\ \A i \in 1 .. Len(log') : log'[i].who # Nobody => i \in 1 .. Len(log) /\ log'[i] = log[i]
      /\ \A i \in 1 .. Len(log) : i \in 1 .. Len(log') /\ log'[i] = log[i]
  <2>1. CASE table[2] = "request"
    <3>1. log' = Append(log, e)
      BY <2>1 DEF WriteText
    <3> HIDE DEF e
    <3> QED BY <1>2, <3>1, AppendProperties, LenProperties
  <2>2. CASE table[2] # "request"
    BY <2>2 DEF WriteText
  <2> QED BY <2>1, <2>2
<1>4. \A c \in Clients : Logged(c)' = Logged(c)
  BY <1>2, <1>3 DEF Logged
<1> QED BY <1>1, <1>3, <1>4

(* Whoever is handled next is not touched by steps that neither send nor    *)
(* log.                                                                     *)
LEMMA QuietStep ==
  ASSUME Inv, Told,
         \A c \in Clients : Statused(c)' = Statused(c) /\ Answered(c)' = Answered(c),
         \A c \in Clients : Logged(c)' = Logged(c),
         \A i \in 1 .. Len(log') : log'[i].who # Nobody => i \in 1 .. Len(log) /\ log'[i] = log[i],
         \A i \in 1 .. Len(log) : i \in 1 .. Len(log') /\ log'[i] = log[i],
         came \subseteq came', came' \subseteq Clients,
         Connected' \subseteq Connected \cup (Clients \ came),
         pc' \in Handled =>
            /\ pc \in Handled /\ current' = current
            /\ pc' \in {"open", "debug", "header"} => pc \in {"open", "debug", "header"}
            /\ pc' \in {"body", "close file", "log"} => pc \in {"body", "close file", "log"} /\ status' = status
            /\ pc' \in {"info", "close"} => pc \in {"info", "close"} /\ UNCHANGED <<request, kept>>,
         pc \in Handled /\ pc' \notin Handled => current \notin Connected'
  PROVE  Told'
<1>1. current \in Clients \/ pc \notin Handled
  BY DEF Inv, Progress
<1>2. \A c \in Clients : Untouched(c) <=> Untouched(c)'
  BY DEF Untouched
<1>3. ASSUME NEW c \in Clients, c \notin came' \/ c \in Connected', ~(pc' \in Handled /\ c = current')
      PROVE  Untouched(c)'
  <2>1. c \notin came \/ c \in Connected
    BY <1>3
  <2>2. ASSUME pc \in Handled, c = current PROVE FALSE
    <3>1. c \in came'
      BY <2>2 DEF Told
    <3>2. c \in Connected' /\ pc' \in Handled
      BY <1>3, <2>2, <3>1
    <3> QED BY <1>3, <2>2, <3>2
  <2> QED BY <1>2, <2>1, <2>2 DEF Told
<1>4. pc' \in {"open", "debug", "header"} => Untouched(current)'
  <2> SUFFICES ASSUME pc' \in {"open", "debug", "header"} PROVE Untouched(current)'
    OBVIOUS
  <2>1. pc \in {"open", "debug", "header"} /\ current' = current /\ current \in Clients
    BY <1>1 DEF Handled, Loop
  <2> QED BY <1>2, <2>1 DEF Told, Untouched, Statused, Logged
<1>5. pc' \in {"body", "close file", "log"} => Logged(current)' = {} /\ Answered(current)' = status'
  <2> SUFFICES ASSUME pc' \in {"body", "close file", "log"}
               PROVE  Logged(current)' = {} /\ Answered(current)' = status'
    OBVIOUS
  <2>1. pc \in {"body", "close file", "log"} /\ current' = current /\ current \in Clients /\ status' = status
    BY <1>1 DEF Handled, Loop
  <2>2. PICK c \in Clients : c = current
    BY <2>1
  <2>3. Logged(c) = {} /\ Answered(c) = status
    BY <2>1, <2>2 DEF Told
  <2>4. Logged(c)' = {} /\ Answered(c)' = status'
    BY <2>1, <2>3
  <2>5. Logged(current)' = Logged(c)' /\ Answered(current)' = Answered(c)'
    BY <2>1, <2>2 DEF Logged, Answered
  <2> QED BY <2>4, <2>5
<1>6. LogTellsTruth'
  <2>1. ASSUME NEW i \in 1 .. Len(log'), log'[i].who # Nobody
        PROVE  (log[i].what = Answered(log[i].who))'
    <3>1. i \in 1 .. Len(log) /\ log'[i] = log[i]
      BY <2>1
    <3>2. log[i].who \in Clients
      <4>1. log \in Seq(Line)
        BY DEF Inv, TypeOK, Line
      <4> HIDE DEF Line
      <4>2. log[i] \in Line
        BY <3>1, <4>1, ElementOfSeq
      <4> QED BY <2>1, <3>1, <4>2 DEF Line
    <3>3. log[i].what = Answered(log[i].who)
      BY <2>1, <3>1 DEF Told, LogTellsTruth
    <3>4. PICK c \in Clients : c = log[i].who
      BY <3>2
    <3>5. log[i].what = Answered(c) /\ Answered(c)' = Answered(c)
      BY <3>3, <3>4
    <3>6. log'[i].who = c /\ log'[i].what = log[i].what
      BY <3>1, <3>4
    <3>7. Answered(log[i].who)' = Answered(c)'
      BY <3>6 DEF Answered
    <3> QED BY <3>5, <3>6, <3>7
  <2>2. ASSUME NEW i \in 1 .. Len(log'), NEW j \in 1 .. Len(log'),
               log'[i].who = log'[j].who, log'[i].who # Nobody
        PROVE  i = j
    BY <2>2 DEF Told, LogTellsTruth
  <2>3. ASSUME pc' \in {"info", "close"}, request' # "nothing", "request" \in kept'
        PROVE  \E i \in 1 .. Len(log') : log'[i].who = current'
    <3>1. pc \in {"info", "close"} /\ UNCHANGED <<request, kept, current>>
      BY <2>3 DEF Handled, Loop
    <3>2. PICK i \in 1 .. Len(log) : log[i].who = current
      BY <2>3, <3>1 DEF Told, LogTellsTruth
    <3> QED BY <3>1, <3>2
  <2> QED BY <2>1, <2>2, <2>3 DEF LogTellsTruth
<1>7. \A c \in Clients : \A i, j \in Statused(c)' : i = j
  BY DEF Told
<1>8. pc' \in Handled => current' \in came'
  BY DEF Told
<1> QED BY <1>3, <1>4, <1>5, <1>6, <1>7, <1>8 DEF Told

LEMMA SilentStep ==
  ASSUME UNCHANGED <<got, log>>
  PROVE  /\ \A c \in Clients : Statused(c)' = Statused(c) /\ Answered(c)' = Answered(c)
         /\ \A c \in Clients : Logged(c)' = Logged(c)
         /\ \A i \in 1 .. Len(log') : log'[i].who # Nobody => i \in 1 .. Len(log) /\ log'[i] = log[i]
         /\ \A i \in 1 .. Len(log) : i \in 1 .. Len(log') /\ log'[i] = log[i]
BY DEF Statused, Answered, Logged

LEMMA ClientOfLine ==
  ASSUME TypeOK, NEW i \in 1 .. Len(log), log[i].who # Nobody
  PROVE  log[i].who \in Clients /\ log[i].what \in Statuses \cup Texts
<1>1. log \in Seq(Line)
  BY DEF TypeOK, Line
<1> HIDE DEF Line
<1>2. log[i] \in Line
  BY <1>1, ElementOfSeq
<1> QED BY <1>2 DEF Line

LEMMA HandleTells ==
  ASSUME Inv, Told, NEW c \in Clients, NEW r \in Requests, Handle(c, r)
  PROVE  Told'
<1>1. /\ pc = "wait" /\ c \in Connected /\ current' = c /\ request' = r /\ status' = "none"
      /\ pc' \in {"close", "log", "open"} /\ (pc' = "close" => r = "nothing")
      /\ UNCHANGED <<table, came, got, log, kept>>
  BY DEF Handle, start
<1>2. Untouched(c) /\ c \in came
  BY <1>1 DEF Told, Handled, Inv, Present, Has, Connected
<1>3. Connected' = Connected
  BY <1>1 DEF Connected
<1>4. /\ \A d \in Clients : Statused(d)' = Statused(d) /\ Answered(d)' = Answered(d)
      /\ \A d \in Clients : Logged(d)' = Logged(d)
  BY <1>1, SilentStep
<1>5. \A d \in Clients : d \notin came' \/ d \in Connected' => Untouched(d)'
  BY <1>1, <1>3, <1>4 DEF Told, Handled, Untouched
<1>6. Untouched(c) /\ Untouched(current)' /\ Logged(current)' = {} /\ Answered(current)' = "none"
  <2>1. Statused(c) = {} /\ Logged(c) = {} /\ Answered(c) = "none"
    BY <1>2, AnsweredIs DEF Untouched, Told
  <2>2. Logged(current)' = Logged(c) /\ Statused(current)' = Statused(c) /\ Answered(current)' = Answered(c)
    BY <1>1 DEF Logged, Statused, Answered
  <2> QED BY <2>1, <2>2, <1>2 DEF Untouched
<1>7. LogTellsTruth'
  <2>1. ASSUME NEW i \in 1 .. Len(log'), log'[i].who # Nobody
        PROVE  (log[i].what = Answered(log[i].who))'
    <3>1. log'[i] = log[i] /\ Answered(log[i].who)' = Answered(log[i].who)
      BY <1>1 DEF Answered
    <3>2. log[i].what = Answered(log[i].who)
      BY <1>1, <2>1 DEF Told, LogTellsTruth
    <3> QED BY <3>1, <3>2
  <2>2. ASSUME NEW i \in 1 .. Len(log'), NEW j \in 1 .. Len(log'),
               log'[i].who = log'[j].who, log'[i].who # Nobody
        PROVE  i = j
    BY <1>1, <2>2 DEF Told, LogTellsTruth
  <2>3. ~(pc' \in {"info", "close"} /\ request' # "nothing")
    BY <1>1
  <2> QED BY <2>1, <2>2, <2>3 DEF LogTellsTruth
<1>8. \A d \in Clients : \A i, j \in Statused(d)' : i = j
  BY <1>4 DEF Told
<1>9. current' \in came' /\ status' = "none"
  BY <1>1, <1>2
<1>10. pc' \notin {"debug", "header", "body", "close file", "wait"}
  BY <1>1
<1> QED BY <1>5, <1>6, <1>7, <1>8, <1>9, <1>10 DEF Told

LEMMA HeaderTells ==
  ASSUME Inv, Told, Header
  PROVE  Told'
<1>1. /\ pc = "header" /\ pc' = "body" /\ Send(HeaderParts)
      /\ UNCHANGED <<table, came, current, status, log>>
  BY DEF Header, HeaderParts, work
<1>2. current \in Clients /\ TypeOK /\ Untouched(current) /\ status \in Statuses
  BY <1>1 DEF Inv, TypeOK, Progress, Handled, Loop, Told
<1>3. PICK c \in Clients : c = current
  BY <1>2
<1> DEFINE n == Len(got[c])
<1>4. /\ HeaderParts \in Seq(Part) /\ Len(HeaderParts) = 2
      /\ HeaderParts[1].what = status /\ HeaderParts[2].what = "rest"
  BY <1>2, HeaderTypes
<1>5. /\ \A d \in Clients : d # c => got'[d] = got[d]
      /\ n \in Nat /\ Len(got'[c]) = n + 2
      /\ \A i \in 1 .. n : got'[c][i] = got[c][i]
      /\ got'[c][n + 1].what = status /\ got'[c][n + 2].what = "rest"
  <2>1. 1 \in 1 .. 2 /\ 2 \in 1 .. 2
    OBVIOUS
  <2> QED BY <1>1, <1>2, <1>3, <1>4, <2>1, SendAdds, LenProperties
<1>6. Statused(c) = {} /\ Logged(c) = {}
  BY <1>2, <1>3 DEF Untouched, Statused, Logged
<1>7. Statused(c)' = {n + 1}
  <2>1. \A i \in 1 .. n : got'[c][i].what \notin Statuses
    BY <1>5, <1>6 DEF Statused
  <2>2. "rest" \notin Statuses
    BY Kinds
  <2>3. Statused(c)' = { i \in 1 .. n + 2 : got'[c][i].what \in Statuses }
    BY <1>5 DEF Statused
  <2> HIDE DEF n
  <2>4. \A i \in 1 .. n + 2 : i \in 1 .. n \/ i = n + 1 \/ i = n + 2
    BY <1>5
  <2>5. n + 1 \in 1 .. n + 2
    BY <1>5
  <2> QED BY <1>2, <1>5, <2>1, <2>2, <2>3, <2>4, <2>5
<1>8. Answered(c)' = status
  BY <1>5, <1>7, AnsweredIsThen
<1>9. \A d \in Clients : d # c => Statused(d)' = Statused(d) /\ Answered(d)' = Answered(d)
  BY <1>5 DEF Statused, Answered
<1>10. \A d \in Clients : Logged(d)' = Logged(d)
  BY <1>1 DEF Logged
<1>11. Logged(current)' = {} /\ Answered(current)' = status'
  <2>1. Logged(current)' = Logged(c)' /\ Answered(current)' = Answered(c)'
    BY <1>1, <1>3 DEF Logged, Answered
  <2> QED BY <2>1, <1>1, <1>6, <1>8, <1>10
<1>12. LogTellsTruth'
  <2>1. ASSUME NEW i \in 1 .. Len(log'), log'[i].who # Nobody
        PROVE  (log[i].what = Answered(log[i].who))'
    <3>1. i \in 1 .. Len(log) /\ log' = log
      BY <1>1
    <3>2. PICK d \in Clients : d = log[i].who
      BY <1>2, <2>1, <3>1, ClientOfLine
    <3>3. d # c
      BY <1>6, <3>1, <3>2 DEF Logged
    <3>4. log[i].what = Answered(d)
      BY <2>1, <3>1, <3>2 DEF Told, LogTellsTruth
    <3>5. Answered(log[i].who)' = Answered(d)'
      BY <3>1, <3>2 DEF Answered
    <3> QED BY <1>9, <3>1, <3>3, <3>4, <3>5
  <2> QED BY <1>1, <2>1 DEF Told, LogTellsTruth
<1>13. Connected' = Connected
  BY <1>1 DEF Connected
<1>14. \A d \in Clients : \A i, j \in Statused(d)' : i = j
  <2> SUFFICES ASSUME NEW d \in Clients PROVE \A i, j \in Statused(d)' : i = j
    OBVIOUS
  <2>1. CASE d = c
    BY <1>7, <2>1
  <2>2. CASE d # c
    BY <1>9, <2>2 DEF Told
  <2> QED BY <2>1, <2>2
<1>15. \A d \in Clients : (d \notin came' \/ d \in Connected') /\ d # c => Untouched(d)'
  BY <1>1, <1>3, <1>9, <1>10, <1>13 DEF Told, Untouched
<1> QED BY <1>1, <1>3, <1>11, <1>12, <1>14, <1>15 DEF Told, Handled, Loop

LEMMA BodyTells ==
  ASSUME Inv, Told, Body
  PROVE  Told'
<1>1. /\ pc = "body" /\ pc' = "close file"
      /\ UNCHANGED <<table, came, current, status, log>>
  BY DEF Body, work
<1>2. current \in Clients /\ TypeOK
  BY <1>1 DEF Inv, Progress, Handled, Loop
<1>3. PICK parts \in Seq(Part) :
        /\ Send(parts) /\ Len(parts) \in {0, 1}
        /\ Len(parts) = 1 => parts[1].what \in {"page", "file", "garbage"}
  BY <1>2, BodySends
<1>4. PICK c \in Clients : c = current
  BY <1>2
<1> DEFINE n == Len(got[c])
<1>5. /\ \A d \in Clients : d # c => got'[d] = got[d]
      /\ got[c] \in Seq(Part) /\ got'[c] \in Seq(Part)
      /\ n \in Nat /\ Len(got'[c]) = n + Len(parts)
      /\ \A i \in 1 .. n : got'[c][i] = got[c][i]
      /\ \A i \in 1 .. Len(parts) : got'[c][n + i] = parts[i]
  BY <1>1, <1>2, <1>3, <1>4, SendAdds, LenProperties
<1>6. n <= Len(got'[c]) /\ \A i \in n + 1 .. Len(got'[c]) : got'[c][i].what \notin Statuses
  <2> HIDE DEF n
  <2>1. CASE Len(parts) = 0
    BY <1>5, <2>1
  <2>2. CASE Len(parts) = 1
    <3>1. got'[c][n + 1] = parts[1]
      BY <1>5, <2>2
    <3>2. got'[c][n + 1].what \notin Statuses
      BY <1>3, <2>2, <3>1, Kinds
    <3>3. \A i \in n + 1 .. n + 1 : i = n + 1
      BY <1>5
    <3> QED BY <1>5, <2>2, <3>2, <3>3
  <2> QED BY <1>3, <2>1, <2>2
<1>7. Statused(c)' = Statused(c) /\ Answered(c)' = Answered(c)
  BY <1>5, <1>6, SameAnswer DEF Told
<1>8. \A d \in Clients : Statused(d)' = Statused(d) /\ Answered(d)' = Answered(d)
  <2>1. \A d \in Clients : d # c => Statused(d)' = Statused(d) /\ Answered(d)' = Answered(d)
    BY <1>5 DEF Statused, Answered
  <2> QED BY <1>7, <2>1
<1>9. \A d \in Clients : Logged(d)' = Logged(d)
  BY <1>1 DEF Logged
<1>10. Connected' \subseteq Connected /\ came' \subseteq Clients
  BY <1>1, <1>2, SameConnected DEF TypeOK
<1> QED BY <1>1, <1>8, <1>9, <1>10, QuietStep DEF Handled, Loop

LEMMA LogRequestTells ==
  ASSUME Inv, Told, LogRequest
  PROVE  Told'
<1>1. /\ pc = "log" /\ pc' \in {"info", "close"} /\ UNCHANGED <<table, came, current, status, request, got, kept>>
      /\ log' = IF "request" \in kept THEN Append(log, [who |-> current, what |-> status]) ELSE log
  BY DEF LogRequest, start, work
<1>2. current \in Clients /\ TypeOK /\ status \in Statuses
  BY <1>1 DEF Inv, TypeOK, Progress, Handled, Loop
<1>3. PICK c \in Clients : c = current
  BY <1>2
<1>4. Logged(c) = {} /\ Answered(c) = status
  BY <1>1, <1>3 DEF Told, Logged, Answered
<1>5. \A d \in Clients : Statused(d)' = Statused(d) /\ Answered(d)' = Answered(d)
  BY <1>1 DEF Statused, Answered
<1> DEFINE n == Len(log)
           e == [who |-> c, what |-> status]
<1>6. /\ n \in Nat /\ (Len(log') = n \/ Len(log') = n + 1)
      /\ \A i \in 1 .. n : log'[i] = log[i]
      /\ Len(log') = n + 1 => log'[n + 1] = e
      /\ "request" \in kept => Len(log') = n + 1
  <2>1. log \in Seq(Line) /\ e \in Line
    BY <1>2 DEF TypeOK, Line
  <2> HIDE DEF Line, e
  <2>2. n \in Nat
    BY <2>1, LenProperties
  <2>3. CASE "request" \in kept
    <3>1. log' = Append(log, e)
      BY <1>1, <1>3, <2>3 DEF e
    <3>2. Len(log') = n + 1 /\ log'[n + 1] = e /\ \A i \in 1 .. n : log'[i] = log[i]
      BY <2>1, <3>1, AppendProperties
    <3> HIDE DEF n
    <3> QED BY <2>2, <3>2
  <2>4. CASE "request" \notin kept
    <3>1. log' = log
      BY <1>1, <2>4
    <3>2. Len(log') = n /\ \A i \in 1 .. n : log'[i] = log[i]
      BY <3>1
    <3> HIDE DEF n
    <3> QED BY <2>2, <2>4, <3>2
  <2> QED BY <2>3, <2>4
<1>7. \A d \in Clients : d # c => Logged(d)' = Logged(d)
  <2> SUFFICES ASSUME NEW d \in Clients, d # c PROVE Logged(d)' = Logged(d)
    OBVIOUS
  <2>1. ASSUME NEW i \in 1 .. Len(log'), log'[i].who = d
        PROVE  i \in 1 .. n
    <3> HIDE DEF n
    <3>1. i \in 1 .. n \/ (i = n + 1 /\ Len(log') = n + 1)
      BY <1>6
    <3> QED BY <1>6, <2>1, <3>1
  <2>2. 1 .. n \subseteq 1 .. Len(log')
    <3> HIDE DEF n
    <3> QED BY <1>6
  <2> QED BY <1>6, <2>1, <2>2 DEF Logged
<1>8. \A i \in 1 .. n : log[i].who # c
  BY <1>4 DEF Logged
<1>9. LogTellsTruth'
  <2>0. \A i \in 1 .. Len(log') : i \in 1 .. n \/ (i = n + 1 /\ Len(log') = n + 1)
    <3> HIDE DEF n
    <3> QED BY <1>6
  <2>1. ASSUME NEW i \in 1 .. Len(log'), log'[i].who # Nobody
        PROVE  (log[i].what = Answered(log[i].who))'
    <3>1. CASE i \in 1 .. n
      <4>1. PICK d \in Clients : d = log[i].who
        BY <1>2, <1>6, <2>1, <3>1, ClientOfLine
      <4>2. log[i].what = Answered(d)
        BY <1>6, <2>1, <3>1, <4>1 DEF Told, LogTellsTruth
      <4>3. Answered(log[i].who)' = Answered(d)' /\ log'[i].what = log[i].what
        BY <1>6, <3>1, <4>1 DEF Answered
      <4> QED BY <1>5, <4>2, <4>3
    <3>2. CASE i = n + 1 /\ Len(log') = n + 1
      <4>1. log'[i].who = c /\ log'[i].what = status
        BY <1>6, <3>2
      <4>2. Answered(log[i].who)' = Answered(c)'
        BY <4>1 DEF Answered
      <4> QED BY <1>4, <1>5, <4>1, <4>2
    <3> QED BY <2>0, <3>1, <3>2
  <2>2. ASSUME NEW i \in 1 .. Len(log'), NEW j \in 1 .. Len(log'),
               log'[i].who = log'[j].who, log'[i].who # Nobody
        PROVE  i = j
    <3>1. CASE i \in 1 .. n /\ j \in 1 .. n
      BY <1>6, <2>2, <3>1 DEF Told, LogTellsTruth
    <3>2. CASE i = n + 1 /\ j = n + 1
      BY <3>2
    <3>3. CASE i \in 1 .. n /\ j = n + 1 /\ Len(log') = n + 1
      BY <1>6, <1>8, <2>2, <3>3
    <3>4. CASE j \in 1 .. n /\ i = n + 1 /\ Len(log') = n + 1
      BY <1>6, <1>8, <2>2, <3>4
    <3> QED BY <2>0, <3>1, <3>2, <3>3, <3>4
  <2>3. ASSUME "request" \in kept'
        PROVE  \E i \in 1 .. Len(log') : log'[i].who = current'
    <3>1. Len(log') = n + 1 /\ log'[n + 1].who = c
      BY <1>1, <1>6, <2>3
    <3>2. n + 1 \in 1 .. Len(log')
      <4> HIDE DEF n
      <4> QED BY <1>6, <3>1
    <3> QED BY <1>1, <1>3, <3>1, <3>2
  <2> QED BY <2>1, <2>2, <2>3 DEF LogTellsTruth
<1>10. Connected' = Connected
  BY <1>1 DEF Connected
<1>11. \A d \in Clients : (d \notin came' \/ d \in Connected') /\ d # c => Untouched(d)'
  BY <1>1, <1>3, <1>5, <1>7, <1>10 DEF Told, Untouched
<1> QED BY <1>1, <1>3, <1>5, <1>9, <1>11 DEF Told, Handled, Loop

LEMMA ToldStep == Inv /\ Inv' /\ Told /\ [Next]_vars => Told'
<1> SUFFICES ASSUME Inv, Inv', Told, [Next]_vars PROVE Told'
  OBVIOUS
<1>0. /\ TypeOK /\ came' \subseteq Clients
      /\ pc \in Handled => current \in Clients
  BY DEF Inv, TypeOK, Progress
<1> USE DEF Handled, Loop, start, work
<1>1. CASE Start
  <2>1. Connected' = {}
    <3>1. Std[1] \in Things /\ Std[2] \in Things /\ Std[3] \in Things
      BY DEF Std, Things
    <3>2. \A f \in Fds : f <= 2 => f + 1 \in {1, 2, 3}
      BY DescriptorsAssumption DEF Fds
    <3>3. \A f \in Fds : table'[f] \in Things \cup {Free}
      BY <1>1, <3>1, <3>2 DEF Start
    <3> QED BY <3>3, DescriptorsAssumption DEF Connected
  <2> QED BY <1>0, <1>1, <2>1, SilentStep, QuietStep DEF Start
<1>2. CASE Detach
  BY <1>0, <1>2, NobodyConnected, SilentStep, QuietStep DEF Detach
<1>3. CASE StayInFront
  BY <1>0, <1>3, SameConnected, SilentStep, QuietStep DEF StayInFront
<1>4. CASE OpenConfig
  <2>1. Connected' \subseteq Connected
    BY <1>0, <1>4, SameConnected, OpenThingConnects DEF OpenConfig, Things
  <2> QED BY <1>0, <1>4, <2>1, SilentStep, QuietStep DEF OpenConfig
<1>5. CASE OpenNext
  <2>1. next \in 1 .. 5 /\ Configured[next] \in Things
    BY <1>5, KeptThings DEF OpenNext, Inv, TypeOK
  <2>2. Connected' \subseteq Connected
    BY <1>0, <1>5, <2>1, SameConnected, OpenThingConnects DEF OpenNext
  <2> QED BY <1>0, <1>5, <2>2, SilentStep, QuietStep DEF OpenNext
<1>6. CASE CloseConfig
  BY <1>0, <1>6, CloseConnects, SilentStep, QuietStep DEF CloseConfig
<1>7. CASE OpenPid
  <2>1. Connected' \subseteq Connected
    BY <1>0, <1>7, SameConnected, OpenThingConnects DEF OpenPid, Things
  <2> QED BY <1>0, <1>7, <2>1, SilentStep, QuietStep DEF OpenPid
<1>8. CASE ClosePid
  BY <1>0, <1>8, CloseConnects, SilentStep, QuietStep DEF ClosePid
<1>9. CASE Announce
  <2>1. "starting" \in Texts /\ Connected' \subseteq Connected
    BY <1>9, Kinds, SameConnected DEF Announce
  <2> QED BY <1>0, <1>9, <2>1, TextTellsNothing, QuietStep DEF Announce
<1>10. CASE Listen
  <2>1. Connected' \subseteq Connected
    BY <1>0, <1>10, NobodyConnected, OpenThingConnects DEF Listen, Stop, Things
  <2> QED BY <1>0, <1>10, <2>1, SilentStep, QuietStep DEF Listen, Stop
<1>11. CASE Multiplex
  <2>1. Connected' \subseteq Connected
    BY <1>0, <1>11, NobodyConnected, OpenThingConnects DEF Multiplex, Stop, Things
  <2> QED BY <1>0, <1>11, <2>1, SilentStep, QuietStep DEF Multiplex, Stop
<1>12. ASSUME NEW c \in Clients, Accept(c)
       PROVE  Told'
  <2>1. Connected' \subseteq Connected \cup (Clients \ came)
    BY <1>0, <1>12, OpenConnects, NobodyConnected DEF Accept, Stop
  <2> QED BY <1>0, <1>12, <2>1, SilentStep, QuietStep DEF Accept, Stop
<1>13. ASSUME NEW c \in Clients, NEW r \in Requests, Handle(c, r)
       PROVE  Told'
  BY <1>13, HandleTells
<1>14. CASE OpenFile
  <2>1. Connected' \subseteq Connected
    BY <1>0, <1>14, SameConnected, OpenThingConnects DEF OpenFile, Things
  <2>2. pc' \in {"debug", "header"}
    BY <1>14 DEF OpenFile
  <2> QED BY <1>0, <1>14, <2>1, <2>2, SilentStep, QuietStep DEF OpenFile
<1>15. CASE Debug
  <2>1. "debug" \in Texts /\ Connected' \subseteq Connected
    BY <1>15, Kinds, SameConnected DEF Debug
  <2> QED BY <1>0, <1>15, <2>1, TextTellsNothing, QuietStep DEF Debug
<1>16. CASE Header
  BY <1>16, HeaderTells
<1>17. CASE Body
  BY <1>17, BodyTells
<1>18. CASE CloseFile
  <2>1. Connected' \subseteq Connected
    BY <1>0, <1>18, CloseConnects DEF CloseFile
  <2> QED BY <1>0, <1>18, <2>1, SilentStep, QuietStep DEF CloseFile
<1>19. CASE LogRequest
  BY <1>19, LogRequestTells
<1>20. CASE Info
  <2>1. "info" \in Texts /\ Connected' \subseteq Connected
    BY <1>20, Kinds, SameConnected DEF Info
  <2> QED BY <1>0, <1>20, <2>1, TextTellsNothing, QuietStep DEF Info
<1>21. CASE CloseClient
  <2>1. Connected' \subseteq Connected
    BY <1>0, <1>21, CloseConnects DEF CloseClient
  <2>2. current \notin Connected'
    <3>1. \A f \in Fds : table'[f] # current
      BY <1>0, <1>21, DescriptorsAssumption DEF CloseClient, Close
    <3> QED BY <3>1 DEF Connected
  <2> QED BY <1>0, <1>21, <2>1, <2>2, SilentStep, QuietStep DEF CloseClient
<1>22. CASE Interrupt
  <2>1. "stop" \in Texts /\ Connected' = {}
    BY <1>22, Kinds, NobodyConnected DEF Interrupt
  <2> QED BY <1>0, <1>22, <2>1, TextTellsNothing, QuietStep DEF Interrupt
<1>23. CASE BodyDies
  <2>1. Connected' = {}
    BY <1>23, NobodyConnected DEF BodyDies
  <2> QED BY <1>0, <1>23, <2>1, SilentStep, QuietStep DEF BodyDies
<1>24. CASE UNCHANGED vars
  <2>1. Connected' = Connected
    BY <1>24, SameConnected DEF vars
  <2> QED BY <1>0, <1>24, <2>1, SilentStep, QuietStep DEF vars
<1> QED BY <1>1, <1>2, <1>3, <1>4, <1>5, <1>6, <1>7, <1>8, <1>9, <1>10, <1>11, <1>12, <1>13,
           <1>14, <1>15, <1>16, <1>17, <1>18, <1>19, <1>20, <1>21, <1>22, <1>23, <1>24 DEF Next

(* The request log says of every client what the client was told, once, and *)
(* before the connection is closed.                                         *)
THEOREM LogIsTrue == Spec => []LogTellsTruth
<1>1. Init => Told
  BY DEF Init, Told, Statused, Logged, Untouched, Answered, LogTellsTruth, Handled, Loop
<1>2. Told => LogTellsTruth
  BY DEF Told
<1> QED BY Invariance, ToldStep, <1>1, <1>2, PTL DEF Spec
=============================================================================
