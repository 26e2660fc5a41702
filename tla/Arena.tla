-------------------------------- MODULE Arena --------------------------------
(***************************************************************************)
(* The growing arena of code/allocator.c, from which every other part of   *)
(* the server takes its memory.  An arena is a chain of blocks.  A block   *)
(* is one mmap'ed reservation of which a prefix is committed (mprotect'ed  *)
(* readable and writable); its first Hdr bytes are its own header, and a   *)
(* bump offset divides the rest into granted and free bytes.  Positions    *)
(* are global: a block starts at `base', behind the reservation of the     *)
(* block below it.  scrachNew saves a position, scrachEnd pops to it.      *)
(*                                                                         *)
(* The operating system is external: mmap and mprotect may refuse, and     *)
(* mprotect refuses an address that is not page aligned.                   *)
(***************************************************************************)
EXTENDS Integers, Sequences, FiniteSets

CONSTANTS
  Blocks,     \* the mappings the OS can have outstanding at once
  Hdr,        \* sizeof(ArenaAllocator)
  Page,       \* osPageSize()
  Commit,     \* options.commited_size of the arena
  Reserve,    \* options.reserved_size of the arena
  Sizes,      \* the sizes callers push
  Aligns,     \* the alignments callers push with
  MaxMarks,   \* bound: scratches open at once
  MaxLive     \* bound: granted spans in use at once

ASSUME ArenaAssumption ==
  /\ Hdr \in Nat \ {0} /\ Page \in Nat \ {0}
  /\ Commit \in Nat \ {0} /\ Reserve \in Nat \ {0}
  /\ Hdr <= Page /\ Commit <= Reserve
  /\ Sizes \subseteq Nat /\ Aligns \subseteq Nat \ {0}
  /\ MaxMarks \in Nat /\ MaxLive \in Nat

VARIABLES
  chain,      \* the blocks, the root first and arena->current last; <<>>: none
  mapped,     \* the mappings the OS holds for this arena
  live,       \* granted spans still in use, oldest first (history variable)
  marks       \* the open scratches, oldest first

vars == <<chain, mapped, live, marks>>

Block == [id : Blocks, base : Nat, curr : Nat, commited : Nat,
          reserved : Nat, granule : Nat \ {0}]
Span  == [blk : Nat, off : Nat, size : Nat]
Mark  == [pos : Nat, depth : Nat, live : Nat]

Typed(c, mp, lv, mk) == /\ c \in Seq(Block) /\ mp \subseteq Blocks
                        /\ lv \in Seq(Span) /\ mk \in Seq(Mark)

TypeOK == Typed(chain, mapped, live, marks)
-----------------------------------------------------------------------------
(* Definitions marked `Fault' are wrong on purpose: each is what a mistake  *)
(* in the code would make of the definition after it, and breaks a property.*)

\* Fault: rounds down.
AlignDown(x, b) == (x \div b) * b

(* The smallest multiple of b that is not below x.  The macro masks with   *)
(* b - 1; b is a power of two wherever the result is used (the only other  *)
(* granules are those of oversized blocks, which are committed in full, so *)
(* that their extension changes nothing).                                  *)
AlignPow2(x, b) == ((x + b - 1) \div b) * b

Larger(x, y)  == IF x < y THEN y ELSE x
Smaller(x, y) == IF x < y THEN x ELSE y

Top == chain[Len(chain)]

\* arenaPosition
Position == Top.base + Top.curr

\* arenaAlloc: a block of its own mapping, committed and reserved in pages.
NewBlock(id, base, commit, reserve) ==
  [id       |-> id,
   base     |-> base,
   curr     |-> Hdr,
   commited |-> AlignPow2(commit, Page),
   reserved |-> AlignPow2(reserve, Page),
   granule  |-> commit]

\* The position a push reaches in block b.
PushEnd(b, size, align) == AlignPow2(b.curr, align) + size

\* A push on a growing arena leaves the block when the end of the push is
\* not below the committed prefix, however much is still reserved.
LeavesBlock(size, align) == Top.commited <= PushEnd(Top, size, align)

\* Fault: the new block's positions start behind the committed bytes only.
GrowthBlockAtCommit(id, size, align) ==
  LET need == PushEnd(Top, size, align) + Hdr
      base == Top.base + Top.commited
  IN IF need > Reserve THEN NewBlock(id, base, need, need)
                       ELSE NewBlock(id, base, Commit, Reserve)

\* Fault: a block for a large push is no larger than any other.
GrowthBlockFixed(id, size, align) ==
  NewBlock(id, Top.base + Top.reserved, Commit, Reserve)

\* The block a push grows the arena by: the arena's own sizes, or one that
\* is large enough for a push that is larger than these.
GrowthBlock(id, size, align) ==
  LET need == PushEnd(Top, size, align) + Hdr
      base == Top.base + Top.reserved
  IN IF need > Reserve THEN NewBlock(id, base, need, need)
                       ELSE NewBlock(id, base, Commit, Reserve)

\* The committed prefix of b after the attempt to reach `end' with it.
CommitFor(b, end, commits) ==
  IF end > b.commited /\ commits /\ b.commited % Page = 0
  THEN Smaller(AlignPow2(end, b.granule), b.reserved)
  ELSE b.commited

\* Fault: tests against the reservation, whatever was committed of it.
PlaceOnReserved(c, size, align, commits) ==
  LET n   == Len(c)
      end == PushEnd(c[n], size, align)
      has == CommitFor(c[n], end, commits)
  IN IF c[n].reserved > end
     THEN /\ chain' = [c EXCEPT ![n].commited = has, ![n].curr = end]
          /\ live'  = Append(live, [blk |-> n, off |-> end - size, size |-> size])
     ELSE /\ chain' = [c EXCEPT ![n].commited = has]
          /\ live'  = live

\* Fault: hands out the bytes before the old offset.
PlaceOnBelow(c, size, align, commits) ==
  LET n   == Len(c)
      end == PushEnd(c[n], size, align)
      has == CommitFor(c[n], end, commits)
  IN IF has > end
     THEN /\ chain' = [c EXCEPT ![n].commited = has, ![n].curr = end]
          /\ live'  = Append(live, [blk |-> n, off |-> c[n].curr - size, size |-> size])
     ELSE /\ chain' = [c EXCEPT ![n].commited = has]
          /\ live'  = live

\* The last half of arenaPush__impl, on a chain whose last block is current.
\* The test is strict: a push that would end exactly at the committed
\* prefix gets nothing.
PlaceOn(c, size, align, commits) ==
  LET n   == Len(c)
      end == PushEnd(c[n], size, align)
      has == CommitFor(c[n], end, commits)
  IN IF has > end
     THEN /\ chain' = [c EXCEPT ![n].commited = has, ![n].curr = end]
          /\ live'  = Append(live, [blk |-> n, off |-> end - size, size |-> size])
     ELSE /\ chain' = [c EXCEPT ![n].commited = has]
          /\ live'  = live
-----------------------------------------------------------------------------
Init == chain = <<>> /\ mapped = {} /\ live = <<>> /\ marks = <<>>

\* arenaNew, when the OS maps and commits the first block.  When it does
\* not, the caller gets NULL and nothing has changed.
Alloc ==
  /\ chain = <<>>
  /\ \E id \in Blocks \ mapped :
       /\ chain'  = << NewBlock(id, 0, Commit, Reserve) >>
       /\ mapped' = mapped \cup {id}
  /\ UNCHANGED <<live, marks>>

\* arenaPush on an arena with ARENA_GROW.  `maps' and `commits' are the
\* answers of the OS to the new block and to an extension of the prefix.
Push(size, align, maps, commits) ==
  /\ chain # <<>> /\ Len(live) < MaxLive
  /\ \/ /\ LeavesBlock(size, align) /\ maps
        /\ \E id \in Blocks \ mapped :
             /\ mapped' = mapped \cup {id}
             /\ PlaceOn(Append(chain, GrowthBlock(id, size, align)),
                        size, align, commits)
     \/ /\ ~LeavesBlock(size, align) \/ ~maps
        /\ mapped' = mapped
        /\ PlaceOn(chain, size, align, commits)
  /\ marks' = marks

\* arenaPushContiguous: a push with ARENA_GROW cleared for its duration.
PushContiguous(size, align, commits) ==
  /\ chain # <<>> /\ Len(live) < MaxLive
  /\ PlaceOn(chain, size, align, commits)
  /\ UNCHANGED <<mapped, marks>>

\* Fault: saves the end of the committed bytes.
ScrachNewAtCommit ==
  /\ chain # <<>> /\ Len(marks) < MaxMarks
  /\ marks' = Append(marks, [pos   |-> Top.base + Top.commited,
                             depth |-> Len(chain),
                             live  |-> Len(live)])
  /\ UNCHANGED <<chain, mapped, live>>

\* scrachNew
ScrachNew ==
  /\ chain # <<>> /\ Len(marks) < MaxMarks
  /\ marks' = Append(marks, [pos   |-> Position,
                             depth |-> Len(chain),
                             live  |-> Len(live)])
  /\ UNCHANGED <<chain, mapped, live>>

Ids(c) == { c[i].id : i \in 1 .. Len(c) }

\* Fault: the blocks are dropped from the chain and stay mapped.
ReleasedNone(ids) == mapped

\* The mappings left after the blocks of `ids' are handed to osMemoryRelease.
Released(ids) == mapped \ ids

\* Where arenaPopTo's search ends: the blocks above n start at or behind
\* the position, and n does not.
PopDepth(usable) ==
  CHOOSE n \in 1 .. Len(chain) :
     /\ chain[n].base < usable
     /\ \A i \in n + 1 .. Len(chain) : chain[i].base >= usable

\* Fault: drops the blocks above and leaves the offset where it was.
PopToWithoutReset(to) ==
  IF to < Position
  THEN LET n == PopDepth(Larger(to, Hdr))
       IN /\ chain'  = SubSeq(chain, 1, n)
          /\ mapped' = Released(Ids(SubSeq(chain, n + 1, Len(chain))))
  ELSE UNCHANGED <<chain, mapped>>

\* arenaPopTo
PopTo(to) ==
  IF to < Position
  THEN LET usable == Larger(to, Hdr)
           n      == PopDepth(usable)
           below  == SubSeq(chain, 1, n)
       IN /\ chain'  = [below EXCEPT ![n].curr =
                          Larger(usable - chain[n].base, Hdr)]
          /\ mapped' = Released(Ids(SubSeq(chain, n + 1, Len(chain))))
  ELSE UNCHANGED <<chain, mapped>>

\* scrachEnd of the innermost scratch; what it granted is given up.
EndInnermost ==
  /\ marks # <<>>
  /\ PopTo(marks[Len(marks)].pos)
  /\ live' = SubSeq(live, 1, marks[Len(marks)].live)

ScrachEnd == EndInnermost /\ marks' = SubSeq(marks, 1, Len(marks) - 1)

\* The event loop ends the same scratch after every round and goes on with
\* it: for(; ; scrachEnd(scrach_event)).
ScrachReuse == EndInnermost /\ marks' = marks

\* arenaClear; its caller gives up all that was granted or saved.
Clear == /\ chain # <<>>
         /\ PopTo(0)
         /\ live' = <<>> /\ marks' = <<>>

\* arenaRelease
Release == /\ chain # <<>>
           /\ chain'  = <<>>
           /\ mapped' = Released(Ids(chain))
           /\ live' = <<>> /\ marks' = <<>>

Next ==
  \/ Alloc
  \/ \E size \in Sizes, align \in Aligns, maps, commits \in BOOLEAN :
        Push(size, align, maps, commits)
  \/ \E size \in Sizes, align \in Aligns, commits \in BOOLEAN :
        PushContiguous(size, align, commits)
  \/ ScrachNew \/ ScrachEnd \/ ScrachReuse \/ Clear \/ Release

Spec == Init /\ [][Next]_vars
-----------------------------------------------------------------------------
(* Safety.                                                                 *)

\* No granted span overlaps a header, leaves the committed bytes of its
\* block, lies in a block the OS has taken back, or overlaps another span,
\* through any interleaving of growth, refusals, pops and reuse.
Usable(c, mp, lv) ==
  /\ \A i \in 1 .. Len(lv) :
       /\ lv[i].blk \in 1 .. Len(c)
       /\ c[lv[i].blk].id \in mp
       /\ Hdr <= lv[i].off
       /\ lv[i].off + lv[i].size <= c[lv[i].blk].curr
       /\ c[lv[i].blk].curr <= c[lv[i].blk].commited
       /\ c[lv[i].blk].commited <= c[lv[i].blk].reserved
  /\ \A i, j \in 1 .. Len(lv) :
       i < j /\ lv[i].blk = lv[j].blk => lv[i].off + lv[i].size <= lv[j].off

LiveIsUsable == Usable(chain, mapped, live)

\* The asserts of arenaPopTo would hold for every position a user still has
\* in hand, not only for the innermost one, and for arenaClear's zero.
PopAsserts ==
  \A to \in { marks[k].pos : k \in 1 .. Len(marks) } \cup {0} :
     chain # <<>> /\ to < Position =>
       LET usable == Larger(to, Hdr)
           b      == chain[PopDepth(usable)]
       IN /\ usable - b.base <= b.curr
          /\ Larger(usable - b.base, Hdr) <= b.curr

\* Every mapping the OS holds for the arena is a block of its chain, and no
\* two blocks share one: the header comment's "pesky memory leak" is not in
\* the arena's own bookkeeping.
Accounted(c, mp) ==
  /\ mp = Ids(c)
  /\ \A i, j \in 1 .. Len(c) : c[i].id = c[j].id => i = j

NoBlockLeak == Accounted(chain, mapped)

\* Ending a scratch brings back the position and the number of blocks at
\* which it was begun: rounds of the event loop cannot pile up blocks.
RewindRestores ==
  [][ScrachEnd \/ ScrachReuse =>
       LET m == marks[Len(marks)] IN
         /\ chain' # <<>> /\ Len(chain') = m.depth
         /\ (Position)' = m.pos]_vars

\* When the OS refuses nothing, a growing arena refuses a push for one
\* reason only: the push would end exactly at the committed prefix, which
\* the strict comparison takes for an overflow.
OnlyExactFitsFail ==
  [][\A size \in Sizes, align \in Aligns :
       Push(size, align, TRUE, TRUE) /\ live' = live =>
         (PushEnd(Top, size, align))' = (Top.commited)']_vars

\* The arena implements the bump stack.
SpansOf(c, lv) ==
  [i \in 1 .. Len(lv) |-> LET lo == c[lv[i].blk].base + lv[i].off
                          IN [lo |-> lo, hi |-> lo + lv[i].size]]
SavedOf(mk) ==
  [k \in 1 .. Len(mk) |-> [pos |-> mk[k].pos, spans |-> mk[k].live]]

AbsPos   == IF chain = <<>> THEN 0 ELSE Position
AbsSpans == SpansOf(chain, live)
AbsSaved == SavedOf(marks)

Abs == INSTANCE BumpStack WITH
         pos <- AbsPos, spans <- AbsSpans, saved <- AbsSaved

ImplementsBumpStack == Abs!Spec
-----------------------------------------------------------------------------
(* The inductive invariant behind these properties.                        *)

\* Blocks: header, granted bytes, committed bytes and reservation nest, and
\* the ranges of positions of two blocks do not meet.
Layered(c) ==
  /\ c # <<>> => c[1].base = 0
  /\ \A i \in 1 .. Len(c) :
       Hdr <= c[i].curr /\ c[i].curr <= c[i].commited
                        /\ c[i].commited <= c[i].reserved
  /\ \A i, j \in 1 .. Len(c) : i < j => c[i].base + c[i].reserved <= c[j].base

\* Spans were granted in the order of the blocks.
Ordered(lv) == \A i, j \in 1 .. Len(lv) : i < j => lv[i].blk <= lv[j].blk

\* A saved position lies in a block of the chain, not below its header and
\* not above its offset, and parts the spans in those granted before and
\* after it was saved.
Parts(m, c, lv) ==
  /\ m.depth \in 1 .. Len(c) /\ m.live <= Len(lv)
  /\ c[m.depth].base + Hdr <= m.pos
  /\ m.pos <= c[m.depth].base + c[m.depth].curr
  /\ \A i \in 1 .. Len(lv) :
       IF i <= m.live
       THEN lv[i].blk <= m.depth /\ (lv[i].blk = m.depth =>
              c[m.depth].base + lv[i].off + lv[i].size <= m.pos)
       ELSE lv[i].blk >= m.depth /\ (lv[i].blk = m.depth =>
              m.pos <= c[m.depth].base + lv[i].off)

Nested(mk, c, lv) ==
  /\ \A k \in 1 .. Len(mk) : Parts(mk[k], c, lv)
  /\ \A j, k \in 1 .. Len(mk) : j < k => /\ mk[j].pos   <= mk[k].pos
                                         /\ mk[j].depth <= mk[k].depth
                                         /\ mk[j].live  <= mk[k].live

Good(c, mp, lv, mk) ==
  /\ Typed(c, mp, lv, mk)
  /\ Layered(c) /\ Accounted(c, mp)
  /\ Usable(c, mp, lv) /\ Ordered(lv)
  /\ Nested(mk, c, lv)

ArenaInv == Good(chain, mapped, live, marks)
=============================================================================
