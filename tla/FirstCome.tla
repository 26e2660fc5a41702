------------------------------ MODULE FirstCome ------------------------------
(***************************************************************************)
(* What the event loop promises to the clients that connect, without       *)
(* descriptors, events or answers: one line, in which the first to come is *)
(* the first to be dealt with, until the server shuts.                     *)
(***************************************************************************)
EXTENDS Sequences

CONSTANT Clients

VARIABLES line,   \* the clients not dealt with yet, the first to come first
          shut    \* whether the server has ended

vars == <<line, shut>>

Init == line = <<>> /\ shut = FALSE

Join == /\ ~shut
        /\ \E c \in Clients : line' = Append(line, c)
        /\ shut' = shut

\* The first in the line is answered, or sent away, and leaves it.
DealWithFirst == /\ line # <<>>
                 /\ line' = Tail(line)
                 /\ shut' = shut

Shut == ~shut /\ shut' = TRUE /\ line' = <<>>

Next == Join \/ DealWithFirst \/ Shut

\* As long as the server is not shut, the line moves.
Spec == Init /\ [][Next]_vars /\ WF_vars(DealWithFirst)
=============================================================================
