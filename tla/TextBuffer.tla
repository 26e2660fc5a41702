------------------------------ MODULE TextBuffer ------------------------------
(***************************************************************************)
(* What a string buffer of code/str_buf.h gives its callers: a room of     *)
(* fixed size, chosen when it is allocated, and a text that is what was    *)
(* put into it, in order, until it is cleared or released.  The program    *)
(* may die for want of memory, but a text is never changed by it.          *)
(*                                                                         *)
(* Nobody tests the room.  As long as the text has room the buffer keeps   *)
(* it whole; a call that asks for more writes over the buffer's own header *)
(* and nothing is promised from there on.  Of a formatted text of a cache  *)
(* line or more the last character is not promised either.                 *)
(***************************************************************************)
EXTENDS Integers, Sequences

CONSTANTS
  Chars,      \* the characters
  Texts,      \* what can be put into a buffer as it is
  Formats,    \* what can be put into a buffer by formatting it
  Rooms,      \* what can be asked for when a buffer is allocated
  Line        \* sizeof(cacheline_t)

VARIABLES phase,    \* "none", "open", "crashed" or "wild"
          text,     \* what strbuf_get_str returns
          room      \* how long it may become

vars == <<phase, text, room>>

Init == phase = "none" /\ text = <<>> /\ room = 0

Open == /\ phase = "none" /\ phase' = "open"
        /\ text' = <<>> /\ room' \in Rooms

\* A text behind the text, if it has room.
Becomes(t) == /\ phase = "open" /\ phase' = "open"
              /\ Len(t) <= room
              /\ text' = t /\ room' = room

Append_ == \E p \in Texts : Becomes(text \o p)

Format == \E p \in Formats :
            \/ Becomes(text \o p)
            \/ /\ Len(p) >= Line
               /\ \E c \in Chars : Becomes(text \o [p EXCEPT ![Len(p)] = c])

Assign == \E p \in Texts : Becomes(p)

Clear == Becomes(<<>>)

Lost(end) == phase' = end /\ text' = <<>> /\ room' = 0

Close == phase = "open" /\ Lost("none")

\* Only a call for which there is no room breaks the buffer.
Break == /\ phase = "open"
         /\ \E p \in Texts \cup Formats : Len(text) + Len(p) > room
         /\ Lost("wild")

Die == phase \in {"none", "open"} /\ Lost("crashed")

Next == \/ Open \/ Append_ \/ Format \/ Assign \/ Clear
        \/ Close \/ Break \/ Die

Spec == Init /\ [][Next]_vars
=============================================================================
