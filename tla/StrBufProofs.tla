----------------------------- MODULE StrBufProofs -----------------------------
(***************************************************************************)
(* Theorems about the string buffer, for all capacities and texts: where   *)
(* its bytes lie, and that it is a text with a room that only its calls    *)
(* change, and only a call that asks for more room breaks.                 *)
(***************************************************************************)
EXTENDS StrBuf, SequenceTheorems, TLAPS

\* A copy into the bytes leaves them a string of the same length.
LEMMA OverlayType ==
  ASSUME NEW b \in Seq(Chars), NEW off \in Nat, NEW p \in Seq(Chars)
  PROVE  Overlay(b, off, p) \in Seq(Chars) /\ Len(Overlay(b, off, p)) = Len(b)
<1> DEFINE o == Overlay(b, off, p)
<1>1. \A i \in 1 .. Len(b) : o[i] \in Chars
  BY DEF Overlay
<1>2. o \in [1 .. Len(b) -> Chars]
  BY <1>1 DEF Overlay
<1>3. Len(b) \in Nat
  OBVIOUS
<1> QED
  BY <1>2, <1>3, SeqDef, LenProperties

\* A copy to the end of the first `off' bytes appends to them.
LEMMA OverlayAppends ==
  ASSUME NEW b \in Seq(Chars), NEW off \in Nat, NEW p \in Seq(Chars),
         off + Len(p) <= Len(b)
  PROVE  SubSeq(Overlay(b, off, p), 1, off + Len(p)) = SubSeq(b, 1, off) \o p
<1> DEFINE o == Overlay(b, off, p)
           l == SubSeq(o, 1, off + Len(p))
           r == SubSeq(b, 1, off) \o p
<1>1. o \in Seq(Chars) /\ Len(o) = Len(b)
  BY OverlayType
<1>2. Len(p) \in Nat /\ Len(b) \in Nat
  OBVIOUS
<1>3. l \in Seq(Chars) /\ Len(l) = off + Len(p)
       /\ \A i \in 1 .. off + Len(p) : l[i] = o[i]
  <2> HIDE DEF o
  <2> QED BY <1>1, <1>2, SubSeqProperties
<1>4. SubSeq(b, 1, off) \in Seq(Chars) /\ Len(SubSeq(b, 1, off)) = off
       /\ \A i \in 1 .. off : SubSeq(b, 1, off)[i] = b[i]
  BY <1>2, SubSeqProperties
<1>5. r \in Seq(Chars) /\ Len(r) = off + Len(p)
       /\ \A i \in 1 .. off + Len(p) : r[i] = IF i <= off THEN b[i] ELSE p[i - off]
  BY <1>4, <1>2, ConcatProperties
<1>6. \A i \in 1 .. off + Len(p) : o[i] = IF i <= off THEN b[i] ELSE p[i - off]
  BY <1>2 DEF Overlay
<1> HIDE DEF l, r
<1>7. \A i \in 1 .. Len(l) : l[i] = r[i]
  BY <1>3, <1>5, <1>6
<1> QED
  BY <1>3, <1>5, <1>7, SeqEqual DEF l, r

\* What the proofs of all theorems need of a state.
Inv == TypeOK /\ StorageBacked

LEMMA CutType ==
  ASSUME NEW p \in Formats PROVE Cut(p) \in Seq(Chars) /\ Len(Cut(p)) = Len(p)
<1>1. p \in Seq(Chars) /\ Zero \in Chars
  BY StrBufAssumption
<1>2. CASE Len(p) >= Fixed
  <2>1. Len(p) \in 1 .. Len(p) /\ Cut(p) = [p EXCEPT ![Len(p)] = Zero]
    BY <1>1, <1>2, StrBufAssumption DEF Cut
  <2> QED
    BY <1>1, <2>1, ExceptSeq
<1>3. CASE ~(Len(p) >= Fixed)
  BY <1>1, <1>3 DEF Cut
<1> QED
  BY <1>2, <1>3

\* A copy to the end of the text keeps the buffer's shape.
LEMMA PutKeepsInv ==
  ASSUME Inv, phase = "open", NEW p \in Seq(Chars), Put(p),
         pos' \in Nat, pos' >= pos, arenas' = arenas
  PROVE  Inv'
<1>1. Len(p) \in Nat /\ buf \in Buffer /\ buf.last = buf.size
      /\ buf.size <= Room /\ at + Room <= pos
  BY DEF Inv, TypeOK, StorageBacked
<1>2. buf.bytes \in Seq(Chars) /\ buf.size \in Nat /\ buf.last \in Nat /\ buf.cap \in Nat
  BY <1>1 DEF Buffer
<1>3. CASE buf.last + Len(p) <= Room
  <2>1. Overlay(buf.bytes, buf.last, p) \in Seq(Chars)
        /\ Len(Overlay(buf.bytes, buf.last, p)) = Len(buf.bytes)
    BY <1>2, OverlayType
  <2>2. /\ buf' = [bytes |-> Overlay(buf.bytes, buf.last, p), size |-> buf.size + Len(p),
                   cap |-> buf.size + Len(p), last |-> buf.size + Len(p)]
        /\ phase' = phase /\ at' = at
    BY <1>3 DEF Put
  <2>3. buf' \in Buffer
    BY <1>1, <1>2, <2>1, <2>2 DEF Buffer
  <2>4. Room' = Room
    BY <2>1, <2>2 DEF Room
  <2>5. buf'.size = buf.size + Len(p) /\ buf'.last = buf.size + Len(p)
    BY <2>2
  <2>6. TypeOK'
    BY <2>2, <2>3 DEF Inv, TypeOK
  <2>7. Room \in Nat
    BY <1>2 DEF Room
  <2>8. at \in Nat /\ pos \in Nat
    BY DEF Inv, TypeOK
  <2>9. StorageBacked'
    BY <1>1, <1>2, <1>3, <2>2, <2>4, <2>5, <2>7, <2>8 DEF StorageBacked
  <2> QED
    BY <2>6, <2>9 DEF Inv
<1>4. CASE ~(buf.last + Len(p) <= Room)
  BY <1>4 DEF Put, Inv, TypeOK, StorageBacked
<1> QED
  BY <1>3, <1>4

LEMMA InitInv == Init => Inv
<1> SUFFICES ASSUME Init PROVE Inv
  OBVIOUS
<1>1. <<>> \in Seq(Chars)
  OBVIOUS
<1>2. buf \in Buffer
  BY <1>1 DEF Init, Empty, Buffer
<1> QED
  BY <1>2, StrBufAssumption DEF Init, Inv, TypeOK, StorageBacked

LEMMA NextInv == Inv /\ [Next]_vars => Inv'
<1> SUFFICES ASSUME Inv, [Next]_vars PROVE Inv'
  OBVIOUS
<1> USE StrBufAssumption
<1>t. TypeOK /\ StorageBacked
  BY DEF Inv
<1>b. buf.bytes \in Seq(Chars) /\ buf.size \in Nat /\ buf.last \in Nat /\ buf.cap \in Nat
  BY <1>t DEF TypeOK, Buffer
<1>c. Crash => Inv'
  BY <1>t DEF Crash, Inv, TypeOK, StorageBacked
<1>1. ASSUME NEW c \in Capacities, NEW own \in BOOLEAN, Allocate(c, own), ~Crash PROVE Inv'
  <2>1. c \in Nat /\ Zero \in Chars
    OBVIOUS
  <2>2. Blank(c) \in Seq(Chars) /\ Len(Blank(c)) = c
    BY <2>1 DEF Blank
  <2>3. /\ buf' = [bytes |-> Blank(c), size |-> 0, cap |-> c, last |-> 0]
        /\ at' = pos /\ pos' = pos + c + Header /\ phase' = "open"
        /\ (own => arenas < MaxArenas) /\ arenas' = IF own THEN arenas + 1 ELSE arenas
    BY <1>1 DEF Allocate
  <2>4. buf' \in Buffer /\ Room' = c
    BY <2>1, <2>2, <2>3 DEF Buffer, Room
  <2> QED
    BY <1>t, <2>1, <2>3, <2>4 DEF Inv, TypeOK, StorageBacked, Header
<1>2. ASSUME NEW p \in Pieces, Concat(p), ~Crash PROVE Inv'
  <2>1. p \in Seq(Chars) /\ Len(p) \in Nat
    OBVIOUS
  <2>2. Growth(p) \in Nat
    BY <2>1, <1>b DEF Growth
  <2>3. phase = "open" /\ Put(p) /\ pos' = pos + Growth(p) /\ arenas' = arenas
    BY <1>2 DEF Concat
  <2>4. pos' \in Nat /\ pos' >= pos
    BY <1>t, <2>2, <2>3 DEF TypeOK
  <2> QED
    BY <2>1, <2>3, <2>4, PutKeepsInv
<1>3. ASSUME NEW p \in Pieces, Assign(p) PROVE Inv'
  <2>1. p \in Seq(Chars) /\ Len(p) \in Nat /\ phase = "open"
    BY <1>3 DEF Assign
  <2>2. CASE Len(p) <= Room
    <3>1. Overlay(buf.bytes, 0, p) \in Seq(Chars)
          /\ Len(Overlay(buf.bytes, 0, p)) = Len(buf.bytes)
      BY <1>b, <2>1, OverlayType
    <3>2. buf' = [buf EXCEPT !.bytes = Overlay(@, 0, p), !.size = Len(p), !.last = Len(p)]
          /\ phase' = phase /\ at' = at /\ pos' = pos /\ arenas' = arenas
      BY <1>3, <2>2 DEF Assign
    <3>3. buf' \in Buffer /\ Room' = Room /\ buf'.size = Len(p) /\ buf'.last = Len(p)
      BY <1>t, <1>b, <2>1, <3>1, <3>2 DEF TypeOK, Buffer, Room
    <3> QED
      BY <1>t, <2>1, <2>2, <3>2, <3>3 DEF Inv, TypeOK, StorageBacked
  <2>3. CASE ~(Len(p) <= Room)
    BY <1>3, <1>t, <2>3 DEF Assign, Inv, TypeOK, StorageBacked
  <2> QED
    BY <2>2, <2>3
<1>4. ASSUME NEW p \in Formats, Concatf(p), ~Crash PROVE Inv'
  <2>1. phase = "open" /\ Put(Cut(p)) /\ pos' = pos /\ arenas' = arenas
    BY <1>4 DEF Concatf
  <2>2. pos' \in Nat /\ pos' >= pos
    BY <1>t, <2>1 DEF TypeOK
  <2> QED
    BY <2>1, <2>2, CutType, PutKeepsInv
<1>5. ASSUME Clear PROVE Inv'
  <2>1. Blank(buf.cap) \in Seq(Chars)
    BY <1>b DEF Blank
  <2>2. Overlay(buf.bytes, 0, Blank(buf.cap)) \in Seq(Chars)
        /\ Len(Overlay(buf.bytes, 0, Blank(buf.cap))) = Len(buf.bytes)
    BY <1>b, <2>1, OverlayType
  <2>3. buf' = [buf EXCEPT !.bytes = Overlay(@, 0, Blank(buf.cap)), !.size = 0, !.last = 0]
        /\ phase' = phase /\ at' = at /\ pos' = pos /\ arenas' = arenas /\ phase = "open"
    BY <1>5 DEF Clear
  <2>4. buf' \in Buffer /\ Room' = Room /\ buf'.size = 0 /\ buf'.last = 0
    BY <1>t, <1>b, <2>2, <2>3 DEF TypeOK, Buffer, Room
  <2>5. Room \in Nat
    BY <1>b DEF Room
  <2> QED
    BY <1>t, <2>3, <2>4, <2>5 DEF Inv, TypeOK, StorageBacked
<1>6. ASSUME Release PROVE Inv'
  <2>1. buf' \in Buffer
    BY <1>6, EmptySeq DEF Release, Empty, Buffer
  <2> QED
    BY <1>6, <1>t, <2>1 DEF Release, Inv, TypeOK, StorageBacked
<1>7. ASSUME UNCHANGED vars PROVE Inv'
  BY <1>7, <1>t DEF vars, Inv, TypeOK, StorageBacked, Room
<1> QED
  BY <1>c, <1>1, <1>2, <1>3, <1>4, <1>5, <1>6, <1>7 DEF Next
-----------------------------------------------------------------------------
THEOREM InvHolds == Spec => []Inv
BY InitInv, NextInv, PTL DEF Spec

\* Whatever is put into a buffer, its text lies below the arena's position,
\* with its last character where the next append goes (strbuf_concat_impl,
\* strbuf_concatf, strbuf_new_impl, strbuf_clear).
THEOREM StorageIsBacked == Spec => []StorageBacked
<1>1. Inv => StorageBacked
  BY DEF Inv
<1> QED
  BY <1>1, InvHolds, PTL

\* Every variable of the buffer keeps its type.
THEOREM BufferTypeCorrect == Spec => []TypeOK
<1>1. Inv => TypeOK
  BY DEF Inv
<1> QED
  BY <1>1, InvHolds, PTL
-----------------------------------------------------------------------------
\* Text and room as the contract sees them.
AbsText == IF phase = "open" THEN Text ELSE <<>>
AbsRoom == IF phase = "open" THEN Room ELSE 0

\* An append of what fits is one to the text, and any other breaks the buffer.
LEMMA PutAppends ==
  ASSUME Inv, phase = "open", NEW p \in Seq(Chars), Put(p)
  PROVE  \/ /\ phase' = "open" /\ Text' = Text \o p /\ Room' = Room
            /\ Len(Text \o p) <= Room
         \/ phase' = "wild" /\ Len(Text) + Len(p) > Room
<1>1. /\ buf.bytes \in Seq(Chars) /\ buf.size \in Nat /\ buf.last = buf.size
      /\ Len(p) \in Nat /\ buf.size <= Room /\ Room = Len(buf.bytes)
  BY DEF Inv, TypeOK, StorageBacked, Buffer, Room
<1>2. Text \in Seq(Chars) /\ Len(Text) = buf.size
  BY <1>1, SubSeqProperties DEF Text
<1>3. Len(Text \o p) = buf.size + Len(p)
  <2>1. \A t \in Seq(Chars) : Len(t \o p) = Len(t) + Len(p)
    BY ConcatProperties
  <2> QED
    BY <1>2, <2>1
<1>4. CASE buf.size + Len(p) <= Room
  <2>1. /\ phase' = phase
        /\ buf'.bytes = Overlay(buf.bytes, buf.size, p)
        /\ buf'.size = buf.size + Len(p)
    BY <1>1, <1>4 DEF Put
  <2>2. SubSeq(Overlay(buf.bytes, buf.size, p), 1, buf.size + Len(p))
          = SubSeq(buf.bytes, 1, buf.size) \o p
    BY <1>1, <1>4, OverlayAppends
  <2>3. Len(Overlay(buf.bytes, buf.size, p)) = Len(buf.bytes)
    BY <1>1, OverlayType
  <2> QED
    BY <1>3, <1>4, <2>1, <2>2, <2>3 DEF Text, Room
<1>5. CASE ~(buf.size + Len(p) <= Room)
  BY <1>1, <1>2, <1>5 DEF Put
<1> QED
  BY <1>4, <1>5

\* No bytes, no text.
LEMMA NoText == ASSUME NEW b \in Seq(Chars) PROVE SubSeq(b, 1, 0) = <<>>
<1>1. SubSeq(b, 1, 0) \in Seq(Chars) /\ Len(SubSeq(b, 1, 0)) = 0
  BY SubSeqProperties
<1> QED
  BY <1>1, EmptySeq

LEMMA InitText == Init => TB!Init
BY DEF Init, TB!Init

\* A format of less than a cache line is appended whole; of any other the
\* last character becomes a zero, which the contract leaves open.
LEMMA CutFormats ==
  ASSUME Inv, phase = "open", NEW p \in Formats, TB!Becomes(Text \o Cut(p))
  PROVE  TB!Format
<1>1. p \in Seq(Chars) /\ Zero \in Chars /\ Len(p) \in Nat /\ Fixed \in Nat
  BY StrBufAssumption
<1>2. CASE Len(p) >= Fixed
  <2>1. Cut(p) = [p EXCEPT ![Len(p)] = Zero]
    BY <1>2 DEF Cut
  <2>2. \E c \in Chars : TB!Becomes(Text \o [p EXCEPT ![Len(p)] = c])
    BY <1>1, <2>1
  <2> QED
    BY <1>2, <2>2 DEF TB!Format
<1>3. CASE ~(Len(p) >= Fixed)
  BY <1>3 DEF Cut, TB!Format
<1> QED
  BY <1>2, <1>3

\* Every step of a buffer is a step of the text.
LEMMA StepText ==
  ASSUME Inv, [Next]_vars
  PROVE  [TB!Next]_(TB!vars)
<1> USE StrBufAssumption
<1>b. /\ buf.bytes \in Seq(Chars) /\ buf.size \in Nat /\ Room = Len(buf.bytes)
      /\ Room \in Nat /\ (phase = "open" => buf.last = buf.size)
  BY DEF Inv, TypeOK, StorageBacked, Buffer, Room
<1>t. TB!vars = <<phase, AbsText, AbsRoom>> /\ TB!vars' = <<phase', AbsText', AbsRoom'>>
  BY DEF TB!vars, AbsText, AbsRoom
<1>d. ASSUME Crash, phase \in {"none", "open"} PROVE TB!Next
  BY <1>d DEF Crash, TB!Next, TB!Die, TB!Lost
<1>1. ASSUME NEW c \in Capacities, NEW own \in BOOLEAN, Allocate(c, own) PROVE TB!Next
  <2>1. CASE Crash
    BY <1>1, <1>d, <2>1 DEF Allocate
  <2>2. CASE ~Crash
    <3>1. phase = "none" /\ phase' = "open" /\ buf'.size = 0 /\ buf'.bytes = Blank(c)
      BY <1>1, <2>2 DEF Allocate
    <3>2. c \in Nat /\ Zero \in Chars
      OBVIOUS
    <3>3. Blank(c) \in Seq(Chars) /\ Len(Blank(c)) = c
      BY <3>2 DEF Blank
    <3>4. Text' = <<>> /\ Room' = c
      BY <3>1, <3>3, NoText DEF Text, Room
    <3> QED
      BY <3>1, <3>4 DEF TB!Next, TB!Open
  <2> QED
    BY <2>1, <2>2
<1>2. ASSUME NEW p \in Pieces, Concat(p) PROVE TB!Next
  <2>1. CASE Crash
    BY <1>2, <1>d, <2>1 DEF Concat
  <2>2. CASE ~Crash
    <3>1. phase = "open" /\ Put(p) /\ p \in Seq(Chars)
      BY <1>2, <2>2 DEF Concat
    <3>2. CASE phase' = "open"
      <4>1. TB!Becomes(Text \o p)
        BY <3>1, <3>2, PutAppends DEF TB!Becomes
      <4> QED
        BY <3>1, <4>1 DEF TB!Next, TB!Append_
    <3>3. CASE phase' # "open"
      BY <3>1, <3>3, PutAppends DEF TB!Next, TB!Break, TB!Lost
    <3> QED
      BY <3>2, <3>3
  <2> QED
    BY <2>1, <2>2
<1>3. ASSUME NEW p \in Formats, Concatf(p) PROVE TB!Next
  <2>1. CASE Crash
    BY <1>3, <1>d, <2>1 DEF Concatf
  <2>2. CASE ~Crash
    <3>1. phase = "open" /\ Put(Cut(p))
      BY <1>3, <2>2 DEF Concatf
    <3>2. Cut(p) \in Seq(Chars) /\ Len(Cut(p)) = Len(p)
      BY CutType
    <3>3. CASE phase' = "open"
      <4>1. TB!Becomes(Text \o Cut(p))
        BY <3>1, <3>2, <3>3, PutAppends DEF TB!Becomes
      <4>2. TB!Format
        BY <3>1, <4>1, CutFormats
      <4> QED
        BY <4>2 DEF TB!Next
    <3>4. CASE phase' # "open"
      <4>1. phase' = "wild" /\ Len(Text) + Len(p) > Room
        BY <3>1, <3>2, <3>4, PutAppends
      <4> QED
        BY <3>1, <4>1 DEF TB!Next, TB!Break, TB!Lost
    <3> QED
      BY <3>3, <3>4
  <2> QED
    BY <2>1, <2>2
<1>4. ASSUME NEW p \in Pieces, Assign(p) PROVE TB!Next
  <2>1. phase = "open" /\ p \in Seq(Chars) /\ Len(p) \in Nat
    BY <1>4 DEF Assign
  <2>2. CASE Len(p) <= Room
    <3>1. phase' = "open" /\ buf'.bytes = Overlay(buf.bytes, 0, p) /\ buf'.size = Len(p)
      BY <1>4, <2>1, <2>2 DEF Assign, Inv, TypeOK, Buffer
    <3>2. SubSeq(Overlay(buf.bytes, 0, p), 1, 0 + Len(p)) = SubSeq(buf.bytes, 1, 0) \o p
      BY <1>b, <2>1, <2>2, OverlayAppends
    <3>3. SubSeq(buf.bytes, 1, 0) \o p = p
      BY <1>b, <2>1, NoText, ConcatEmptySeq
    <3>4. Text' = p
      BY <2>1, <3>1, <3>2, <3>3 DEF Text
    <3>5. Room' = Room
      BY <1>b, <2>1, <3>1, OverlayType DEF Room
    <3>6. TB!Becomes(p)
      BY <2>1, <2>2, <3>1, <3>4, <3>5 DEF TB!Becomes
    <3> QED
      BY <2>1, <3>6 DEF TB!Next, TB!Assign
  <2>3. CASE ~(Len(p) <= Room)
    <3>1. phase' = "wild"
      BY <1>4, <2>3 DEF Assign
    <3>2. Text \in Seq(Chars) /\ Len(Text) \in Nat
      BY <1>b, <2>1, SubSeqProperties DEF Text, Inv, StorageBacked
    <3>3. Len(Text) + Len(p) > Room
      BY <1>b, <2>1, <2>3, <3>2
    <3> QED
      BY <2>1, <3>1, <3>3 DEF TB!Next, TB!Break, TB!Lost
  <2> QED
    BY <2>2, <2>3
<1>5. ASSUME Clear PROVE TB!Next
  <2>1. /\ phase = "open" /\ phase' = "open" /\ buf'.size = 0
        /\ buf'.bytes = Overlay(buf.bytes, 0, Blank(buf.cap))
    BY <1>5 DEF Clear, Inv, TypeOK, Buffer
  <2>2. Zero \in Chars /\ buf.cap \in Nat
    BY DEF Inv, TypeOK, Buffer
  <2>3. Blank(buf.cap) \in Seq(Chars)
    BY <2>2 DEF Blank
  <2>4. buf'.bytes \in Seq(Chars) /\ Room' = Room
    BY <1>b, <2>1, <2>3, OverlayType DEF Room
  <2>5. Text' = <<>>
    BY <2>1, <2>4, NoText DEF Text
  <2>6. Len(<<>>) <= Room
    BY <1>b
  <2> QED
    BY <2>1, <2>4, <2>5, <2>6 DEF TB!Next, TB!Clear, TB!Becomes
<1>6. ASSUME Release PROVE TB!Next
  BY <1>6 DEF Release, TB!Next, TB!Close, TB!Lost
<1>7. ASSUME UNCHANGED vars PROVE UNCHANGED TB!vars
  BY <1>7 DEF vars, TB!vars, Text, Room
<1> QED
  BY <1>1, <1>2, <1>3, <1>4, <1>5, <1>6, <1>7 DEF Next

\* For all capacities and texts: what strbuf_get_str returns is what was put
\* in, but for the last character of a long format, however the buffer grew
\* or its arena ran out meanwhile; and a buffer breaks only by a call that
\* asks for more than the bytes allocated first.
THEOREM TextIsWhole == Spec => ImplementsTextBuffer
<1>1. Inv /\ [Next]_vars => [TB!Next]_(TB!vars)
  BY StepText
<1> QED
  BY <1>1, InitText, InvHolds, PTL DEF Spec, ImplementsTextBuffer, TB!Spec
=============================================================================
