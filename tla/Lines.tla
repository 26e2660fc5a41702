--------------------------------- MODULE Lines ---------------------------------
(***************************************************************************)
(* Splitting a text into lines as str_split_line of code/str.h does, for   *)
(* the configuration (Config) and the requests (Request).  A text is a     *)
(* sequence of words and signs, LF and CR among them; what has been split  *)
(* off is everything before the position `r', and `mark' is the line end    *)
(* remembered from there.                                                  *)
(***************************************************************************)
EXTENDS Integers, Sequences, FiniteSets

CONSTANTS
  Signs,    \* the words and signs of texts
  LF, CR,   \* the two characters that end a line
  Unset     \* no value

ASSUME LinesAssumption ==
  /\ LF # CR /\ Unset \notin {LF, CR}
  /\ Unset \notin [from : Nat, to : Nat]
  /\ Unset \notin [from : Nat, to : Nat, rest : Nat, end : {LF, CR, Unset}]

\* What both that split a text into lines keep.
VARIABLES
  text,     \* the text: the configuration file, or what has come of a request
  rest,     \* where the lines not yet split begin
  end,      \* end_line[0]: the last line end, if it may be half of a pair
  pc        \* where the program is, see Config and Request

LowestOf(S) == CHOOSE x \in S : \A y \in S : x <= y

(* Definitions marked `Fault' are wrong on purpose: each is what a mistake  *)
(* in the code would make of the definition after it, and breaks a property.*)

\* Fault: only one of the two orders makes a pair.
PairInOrder(x, y) == x = CR /\ y = LF

\* Two line ends that count as one: the code adds them up.
Pair(x, y) == {x, y} = {LF, CR}

Paired(t, e) == e < Len(t) /\ Pair(t[e], t[e + 1])

\* Fault: a line end that is no pair is not left.
BehindStuck(t, e) == IF Paired(t, e) THEN e + 2 ELSE e

\* Where the text goes on behind the line end at e.
Behind(t, e) == IF Paired(t, e) THEN e + 2 ELSE e + 1

\* What is remembered of it: nothing if it was a pair.
Kept(t, e) == IF Paired(t, e) THEN Unset ELSE t[e]

\* A line end at the start of the rest is skipped if it makes a pair with
\* the one remembered, which at first is a CR.
From(t, r, mark) == IF r <= Len(t) /\ Pair(mark, t[r]) THEN r + 1 ELSE r
Ends(t, from) == {i \in from .. Len(t) : t[i] \in {LF, CR}}

\* Fault: what no line end follows is a line, too.
NextLineToTheEnd(t, r, mark) ==
  LET from == From(t, r, mark)
      e    == IF Ends(t, from) = {} THEN Len(t) + 1 ELSE LowestOf(Ends(t, from))
  IN IF from > Len(t) THEN Unset
     ELSE [from |-> from, to |-> e, rest |-> IF e > Len(t) THEN e ELSE Behind(t, e),
           end |-> IF e > Len(t) THEN Unset ELSE Kept(t, e)]

\* str_split_line: the next line, from its first position to before its end,
\* with what remains.  What no line end follows is dropped.
NextLine(t, r, mark) ==
  LET from == From(t, r, mark)
      e    == LowestOf(Ends(t, from))
  IN IF Ends(t, from) = {} THEN Unset
     ELSE [from |-> from, to |-> e, rest |-> Behind(t, e), end |-> Kept(t, e)]
-----------------------------------------------------------------------------
(* What the lines of a text are, defined on the whole text at once.        *)

\* Where the second half of a pair is: the first half is the position
\* before, or, of the text, the CR that is taken to be there.
Second(t) ==
  LET second[i \in 0 .. Len(t)] ==
        i > 0 /\ ~second[i - 1] /\ {IF i = 1 THEN CR ELSE t[i - 1], t[i]} = {CR, LF}
  IN second

\* The positions at which a line ends: those of LF and CR that are not the
\* second half of a pair.
LineEnds(t) == {i \in 1 .. Len(t) : t[i] \in {LF, CR} /\ ~Second(t)[i]}

\* Where the first line may end: the LF that a text begins with is the
\* second half of a pair whose first half was never there.
FirstEnds(t) == {i \in 1 .. Len(t) : t[i] \in {LF, CR} /\ ~(i = 1 /\ t[1] = LF)}
FirstLine(t) == SubSeq(t, IF t[1] = LF THEN 2 ELSE 1, LowestOf(FirstEnds(t)) - 1)

\* The line that ends at e.
LineOf(t, e) ==
  LET before == {i \in 1 .. e - 1 : t[i] \in {LF, CR}}
  IN [from |-> IF before = {} THEN 1 ELSE 1 + CHOOSE i \in before : \A j \in before : j <= i,
      to   |-> e]
=============================================================================
