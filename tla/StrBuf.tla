-------------------------------- MODULE StrBuf --------------------------------
(***************************************************************************)
(* The string buffer of code/str_buf.h, as this program uses it: every     *)
(* caller allocates with the default flags StrBufIncrease and              *)
(* StrBufSharedArena, in an arena of the caller's (event.c, coragem.c) or  *)
(* in one of the buffer's own (os_linux.c, logger.h), so that the branches *)
(* for cleared flags and for a backing buffer are never taken.             *)
(*                                                                         *)
(* A buffer is `room' bytes of an arena and, right behind them, a header   *)
(* with its size, its capacity and two pointers.  A call that needs memory *)
(* and gets none clears the bytes at NULL first (MemoryZero is memset), so *)
(* the program dies before it tests the pointer.                           *)
(***************************************************************************)
EXTENDS Integers, Sequences

CONSTANTS
  Chars,        \* the characters told apart
  Zero,         \* the character 0
  Pieces,       \* the texts appended as they are
  Formats,      \* the texts strbuf_concatf is asked to format
  Capacities,   \* the capacities buffers are allocated with
  Fixed,        \* sizeof(cacheline_t), the space concatf formats in first
  ArenaRoom,    \* bound: bytes of one arena
  MaxArenas     \* bound: arenas of buffers mapped at once

ASSUME StrBufAssumption ==
  /\ Zero \in Chars
  /\ Pieces \subseteq Seq(Chars) /\ Formats \subseteq Seq(Chars)
  /\ Capacities \subseteq Nat \ {0} /\ Fixed \in Nat \ {0}
  /\ ArenaRoom \in Nat /\ MaxArenas \in Nat

VARIABLES
  phase,        \* "none", "open", "crashed", or "wild": wrote past its bytes
  buf,          \* the bytes from `ptr' on, and the header behind them
  at,           \* where in the arena the bytes are
  pos,          \* the arena's position
  arenas        \* how many arenas are mapped for buffers of their own

vars == <<phase, buf, at, pos, arenas>>

Header == 1     \* sizeof(struct __impl_eb_str_buf), in bytes of the model

Buffer == [bytes : Seq(Chars), size : Nat, cap : Nat, last : Nat]

TypeOK == /\ phase \in {"none", "open", "crashed", "wild"}
          /\ buf \in Buffer
          /\ at \in Nat /\ pos \in Nat /\ arenas \in 0 .. MaxArenas
-----------------------------------------------------------------------------
Room == Len(buf.bytes)
Blank(n) == [i \in 1 .. n |-> Zero]

\* MemoryCopy of p to offset `off' of the bytes.
Overlay(bytes, off, p) ==
  [i \in 1 .. Len(bytes) |->
     IF off < i /\ i <= off + Len(p) THEN p[i - off] ELSE bytes[i]]

Empty == [bytes |-> <<>>, size |-> 0, cap |-> 0, last |-> 0]

\* strbuf_get_str
Text == SubSeq(buf.bytes, 1, buf.size)

Init == phase = "none" /\ buf = Empty /\ at = 0 /\ pos = 0 /\ arenas = 0

\* A push or an mmap that fails where nobody expects it to.
Crash == phase' = "crashed" /\ UNCHANGED <<buf, at, pos, arenas>>

\* strbuf_allocate: the bytes, then the header.  A buffer without an arena
\* of the caller's makes one.
Allocate(capacity, own) ==
  /\ phase = "none"
  /\ \/ /\ pos + capacity + Header <= ArenaRoom
        /\ own => arenas < MaxArenas
        /\ phase' = "open"
        /\ buf' = [bytes |-> Blank(capacity), size |-> 0, cap |-> capacity, last |-> 0]
        /\ at' = pos
        /\ pos' = pos + capacity + Header
        /\ arenas' = IF own THEN arenas + 1 ELSE arenas
     \/ Crash

\* Fault: what the declaration of a second `ptr' in line 221 prevents: the
\* bytes move to the memory that was pushed for them.
PutMoved(p) ==
  LET size == buf.size + Len(p) IN
  IF size >= buf.cap /\ buf.size = buf.last
  THEN /\ buf' = [bytes |-> Text \o p, size |-> size, cap |-> size, last |-> size]
       /\ at' = pos
       /\ phase' = phase
  ELSE /\ buf' = [bytes |-> Overlay(buf.bytes, buf.last, p), size |-> size,
                  cap |-> size, last |-> size]
       /\ UNCHANGED <<phase, at>>

\* The end of strbuf_concat_impl.  The bytes stay where they are, whatever
\* was pushed, and the capacity is from now on the size.
Put(p) ==
  LET size == buf.size + Len(p) IN
  IF buf.last + Len(p) <= Room
  THEN /\ buf' = [bytes |-> Overlay(buf.bytes, buf.last, p), size |-> size,
                  cap |-> size, last |-> size]
       /\ UNCHANGED <<phase, at>>
  ELSE phase' = "wild" /\ UNCHANGED <<buf, at>>

\* What strbuf_concat_impl pushes for a text that reaches the capacity.
Grows(p) == buf.size + Len(p) >= buf.cap
Growth(p) == IF Grows(p) THEN buf.size + Len(p) ELSE 0

\* strbuf_concat_str, _cstr and _sized.
Concat(p) ==
  /\ phase = "open"
  /\ \/ /\ pos + Growth(p) <= ArenaRoom
        /\ Put(p)
        /\ pos' = pos + Growth(p)
        /\ arenas' = arenas
     \/ Grows(p) /\ Crash

\* What vsnprintf leaves of a text of which it is told that it has room for
\* no more than its characters: the last one makes way for the zero.
Cut(p) == IF Len(p) >= Fixed THEN [p EXCEPT ![Len(p)] = Zero] ELSE p
Dyn(p) == IF Len(p) >= Fixed THEN Len(p) + 1 ELSE 0

\* strbuf_concatf: everything pushed meanwhile is given back at its end.
\* (Without memory for a long text it returns false and changes nothing.)
Concatf(p) ==
  /\ phase = "open"
  /\ \/ /\ pos + Dyn(p) + Growth(p) <= ArenaRoom
        /\ Put(Cut(p))
        /\ UNCHANGED <<pos, arenas>>
     \/ Grows(p) /\ Crash

\* strbuf_new_impl: with StrBufIncrease, no test of the capacity.
Assign(p) ==
  /\ phase = "open"
  /\ IF Len(p) <= Room
     THEN /\ buf' = [buf EXCEPT !.bytes = Overlay(@, 0, p),
                                !.size = Len(p), !.last = Len(p)]
          /\ phase' = phase
     ELSE phase' = "wild" /\ buf' = buf
  /\ UNCHANGED <<at, pos, arenas>>

\* Fault: the size is reset and the last character is not.
ClearSizeOnly ==
  /\ phase = "open"
  /\ buf' = [buf EXCEPT !.bytes = Overlay(@, 0, Blank(buf.cap)), !.size = 0]
  /\ UNCHANGED <<phase, at, pos, arenas>>

\* strbuf_clear
Clear ==
  /\ phase = "open"
  /\ buf' = [buf EXCEPT !.bytes = Overlay(@, 0, Blank(buf.cap)),
                        !.size = 0, !.last = 0]
  /\ UNCHANGED <<phase, at, pos, arenas>>

\* Fault: releases the buffer's arena, whoever it belongs to.
ReleaseAny ==
  /\ phase = "open"
  /\ phase' = "none" /\ buf' = Empty /\ at' = 0 /\ pos' = 0
  /\ arenas' = arenas - 1

\* strbuf_release returns at once for the flag that every buffer has: the
\* caller's scratch takes back what was pushed in the caller's arena, and
\* nothing takes back an arena of the buffer's own.
Release ==
  /\ phase = "open"
  /\ phase' = "none" /\ buf' = Empty /\ at' = 0 /\ pos' = 0
  /\ arenas' = arenas

Next == \/ \E c \in Capacities, own \in BOOLEAN : Allocate(c, own)
        \/ \E p \in Pieces : Concat(p) \/ Assign(p)
        \/ \E p \in Formats : Concatf(p)
        \/ Clear \/ Release

Spec == Init /\ [][Next]_vars
-----------------------------------------------------------------------------
\* The last character is the one behind the text, and the bytes lie below
\* the arena's position, where nothing else is pushed: what strbuf_concatf
\* gives back at its end is never what the text lies in.
StorageBacked ==
  phase = "open" =>
    /\ buf.last = buf.size /\ buf.size <= Room
    /\ at + Room <= pos

TB == INSTANCE TextBuffer
        WITH Texts <- Pieces, Rooms <- Capacities, Line <- Fixed,
             text <- IF phase = "open" THEN Text ELSE <<>>,
             room <- IF phase = "open" THEN Room ELSE 0

\* strbuf_get_str returns exactly what the calls since the last clear put
\* into the buffer, in order, but for the last character of a long format:
\* growing, refused pushes and the shrinking capacity never show.  And the
\* bytes that were allocated first are the whole room, growing or not: the
\* calls that write past them are those that make the text longer.
ImplementsTextBuffer == TB!Spec
=============================================================================
