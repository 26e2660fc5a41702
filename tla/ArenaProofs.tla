----------------------------- MODULE ArenaProofs -----------------------------
(* The proofs that the arena keeps its invariants, for every number of      *)
(* blocks, every header, page and granule size and every set of requests.   *)
EXTENDS Arena, SequenceTheorems, TLAPS

(* Rounding up gives a number, not below its argument, and keeps order.     *)
LEMMA AlignUp ==
  ASSUME NEW x \in Nat, NEW b \in Nat \ {0}
  PROVE  AlignPow2(x, b) \in Nat /\ AlignPow2(x, b) >= x
<1> DEFINE q == (x + b - 1) \div b
<1> DEFINE r == (x + b - 1) % b
<1>1. q \in Nat /\ r \in 0 .. b - 1 /\ x + b - 1 = b * q + r
  BY Z3
<1> HIDE DEF q, r
<1>2. b * q >= x /\ b * q \in Nat
  BY <1>1
<1>3. q * b = b * q
  BY <1>1
<1> QED BY <1>2, <1>3 DEF AlignPow2, q

LEMMA AlignMonotone ==
  ASSUME NEW x \in Nat, NEW y \in Nat, x <= y, NEW b \in Nat \ {0}
  PROVE  AlignPow2(x, b) <= AlignPow2(y, b)
<1>1. /\ (x + b - 1) \div b \in Nat /\ (y + b - 1) \div b \in Nat
      /\ (x + b - 1) \div b <= (y + b - 1) \div b
  BY Z3
<1>2. \A p, q \in Nat : p <= q => p * b <= q * b
  BY Z3
<1> QED BY <1>1, <1>2 DEF AlignPow2

(* A positive number is rounded up to one unit at least.                    *)
LEMMA AlignOneUnit ==
  ASSUME NEW x \in Nat \ {0}, NEW b \in Nat \ {0}
  PROVE  AlignPow2(x, b) >= b
<1>1. (x + b - 1) \div b \in Nat /\ 1 <= (x + b - 1) \div b
  BY Z3
<1>2. \A q \in Nat : 1 <= q => b <= q * b
  BY Z3
<1> QED BY <1>1, <1>2 DEF AlignPow2

(* A new block nests header, commit and reservation.                        *)
LEMMA NewBlockNests ==
  ASSUME NEW id \in Blocks, NEW base \in Nat,
         NEW commit \in Nat \ {0}, NEW reserve \in Nat \ {0}, commit <= reserve
  PROVE  LET b == NewBlock(id, base, commit, reserve) IN
           /\ b \in Block /\ b.id = id /\ b.base = base
           /\ Hdr <= b.curr /\ b.curr <= b.commited /\ b.commited <= b.reserved
<1>1. Hdr <= AlignPow2(commit, Page)
  BY AlignOneUnit, AlignUp, ArenaAssumption
<1>2. AlignPow2(commit, Page) <= AlignPow2(reserve, Page)
  BY AlignMonotone, ArenaAssumption
<1>3. AlignPow2(commit, Page) \in Nat /\ AlignPow2(reserve, Page) \in Nat
  BY AlignUp, ArenaAssumption
<1> QED BY <1>1, <1>2, <1>3, ArenaAssumption DEF NewBlock, Block

(* The current block of a good chain, and where a push ends in it.          *)
LEMMA PushEndAbove ==
  ASSUME NEW b \in Block, NEW size \in Nat, NEW align \in Nat \ {0}
  PROVE  /\ PushEnd(b, size, align) \in Nat
         /\ b.curr + size <= PushEnd(b, size, align)
<1>1. b.curr \in Nat
  BY DEF Block
<1> QED BY <1>1, AlignUp DEF PushEnd

(* Extending the committed prefix never shrinks it and stays in the block.  *)
LEMMA CommitBetween ==
  ASSUME NEW b \in Block, b.commited <= b.reserved,
         NEW end \in Nat, NEW commits \in BOOLEAN
  PROVE  /\ CommitFor(b, end, commits) \in Nat
         /\ b.commited <= CommitFor(b, end, commits)
         /\ CommitFor(b, end, commits) <= b.reserved
<1>1. /\ b.commited \in Nat /\ b.reserved \in Nat /\ b.granule \in Nat \ {0}
  BY DEF Block
<1>2. AlignPow2(end, b.granule) \in Nat /\ AlignPow2(end, b.granule) >= end
  BY <1>1, AlignUp
<1> QED BY <1>1, <1>2 DEF CommitFor, Smaller

(* What placing a push in the last block of a good chain c does.            *)
LEMMA PlaceEffect ==
  ASSUME NEW c, NEW mp, Good(c, mp, live, marks), c # <<>>,
         NEW size \in Nat, NEW align \in Nat \ {0}, NEW commits \in BOOLEAN,
         PlaceOn(c, size, align, commits)
  PROVE  LET n   == Len(c)
             end == PushEnd(c[n], size, align)
         IN /\ end \in Nat /\ c[n].curr + size <= end
            /\ chain' \in Seq(Block) /\ Len(chain') = n
            /\ \A i \in 1 .. n :
                 /\ chain'[i].id = c[i].id /\ chain'[i].base = c[i].base
                 /\ chain'[i].reserved = c[i].reserved
                 /\ c[i].curr <= chain'[i].curr
                 /\ Hdr <= chain'[i].curr
                 /\ chain'[i].curr <= chain'[i].commited
                 /\ chain'[i].commited <= chain'[i].reserved
            /\ \/ live' = live
               \/ /\ live' = Append(live, [blk |-> n, off |-> end - size,
                                           size |-> size])
                  /\ chain'[n].curr = end
<1> DEFINE n   == Len(c)
           end == PushEnd(c[n], size, align)
           has == CommitFor(c[n], end, commits)
<1>1. /\ c \in Seq(Block) /\ live \in Seq(Span) /\ marks \in Seq(Mark)
      /\ mp \subseteq Blocks
  BY DEF Good, Typed
<1>2. n \in Nat \ {0} /\ n \in 1 .. n /\ c[n] \in Block
  BY <1>1
<1>3. /\ c[n].curr <= c[n].commited /\ c[n].commited <= c[n].reserved
      /\ Hdr <= c[n].curr
  BY <1>2 DEF Good, Layered
<1>4. end \in Nat /\ c[n].curr + size <= end
  BY <1>2, PushEndAbove
<1>5. has \in Nat /\ c[n].commited <= has /\ has <= c[n].reserved
  BY <1>2, <1>3, <1>4, CommitBetween
<1>6. PICK curr \in Nat :
        /\ chain' = [c EXCEPT ![n] = [c[n] EXCEPT !.commited = has, !.curr = curr]]
        /\ c[n].curr <= curr /\ curr <= has
        /\ \/ live' = live
           \/ /\ live' = Append(live, [blk |-> n, off |-> end - size, size |-> size])
              /\ curr = end
  <2>1. CASE has > end
    <3>1. chain' = [c EXCEPT ![n] = [c[n] EXCEPT !.commited = has, !.curr = end]]
      BY <2>1, <1>1, <1>2 DEF PlaceOn, Block
    <3>2. live' = Append(live, [blk |-> n, off |-> end - size, size |-> size])
      BY <2>1 DEF PlaceOn
    <3>3. c[n].curr <= end
      BY <1>2, <1>4 DEF Block
    <3> HIDE DEF end, has
    <3>4. end <= has
      BY <2>1, <1>4, <1>5
    <3> end \in Nat
      BY <1>4
    <3> WITNESS end \in Nat
    <3> QED BY <3>1, <3>2, <3>3, <3>4
  <2>2. CASE ~ (has > end)
    <3>1. chain' = [c EXCEPT ![n] = [c[n] EXCEPT !.commited = has, !.curr = c[n].curr]]
      BY <2>2, <1>1, <1>2 DEF PlaceOn, Block
    <3>2. live' = live
      BY <2>2 DEF PlaceOn
    <3>3. c[n].curr \in Nat /\ c[n].curr <= has
      BY <1>2, <1>3, <1>5 DEF Block
    <3> HIDE DEF end, has
    <3> c[n].curr \in Nat
      BY <3>3
    <3> WITNESS c[n].curr \in Nat
    <3> QED BY <3>1, <3>2, <3>3
  <2> QED BY <2>1, <2>2
<1> HIDE DEF end, has
<1> DEFINE nb == [c[n] EXCEPT !.commited = has, !.curr = curr]
<1>n. /\ nb \in Block /\ nb.id = c[n].id /\ nb.base = c[n].base
      /\ nb.reserved = c[n].reserved /\ nb.curr = curr /\ nb.commited = has
  BY <1>2, <1>5, <1>6 DEF Block
<1>k. /\ Hdr <= nb.curr /\ c[n].curr <= nb.curr
      /\ nb.curr <= nb.commited /\ nb.commited <= nb.reserved
  <2>1. c[n].curr \in Nat /\ Hdr \in Nat
    BY <1>2, ArenaAssumption DEF Block
  <2> HIDE DEF nb
  <2> QED BY <2>1, <1>n, <1>3, <1>5, <1>6
<1>c. chain' = [c EXCEPT ![n] = nb]
  BY <1>6
<1> HIDE DEF nb
<1>7. /\ chain' \in Seq(Block) /\ Len(chain') = n
      /\ \A i \in 1 .. n : /\ chain'[i].id = c[i].id /\ chain'[i].base = c[i].base
                           /\ chain'[i].reserved = c[i].reserved
                           /\ c[i].curr <= chain'[i].curr
                           /\ Hdr <= chain'[i].curr
                           /\ chain'[i].curr <= chain'[i].commited
                           /\ chain'[i].commited <= chain'[i].reserved
      /\ chain'[n].curr = curr
  <2>1. chain' \in Seq(Block) /\ Len(chain') = n
    BY <1>1, <1>2, <1>n, <1>c
  <2>2. ASSUME NEW i \in 1 .. n
        PROVE  /\ chain'[i].id = c[i].id /\ chain'[i].base = c[i].base
               /\ chain'[i].reserved = c[i].reserved
               /\ c[i].curr <= chain'[i].curr
               /\ Hdr <= chain'[i].curr
               /\ chain'[i].curr <= chain'[i].commited
               /\ chain'[i].commited <= chain'[i].reserved
    <3>1. c[i] \in Block
      BY <1>1
    <3>2. CASE i = n
      <4>1. chain'[i] = nb
        BY <3>2, <1>1, <1>2, <1>c
      <4> QED BY <4>1, <3>2, <1>n, <1>k
    <3>3. CASE i # n
      <4>1. chain'[i] = c[i]
        BY <3>3, <1>1, <1>2, <1>c
      <4>2. Hdr <= c[i].curr /\ c[i].curr <= c[i].commited /\ c[i].commited <= c[i].reserved
        BY DEF Good, Layered
      <4> QED BY <4>1, <4>2, <3>1 DEF Block
    <3> QED BY <3>2, <3>3
  <2>3. chain'[n].curr = curr
    BY <1>1, <1>2, <1>n, <1>c
  <2> QED BY <2>1, <2>2, <2>3
<1> QED BY <1>4, <1>6, <1>7 DEF end

(* Placing a push in the last block of a good chain c keeps it good.        *)
LEMMA PlaceKeepsGood ==
  ASSUME NEW c, NEW mp, Good(c, mp, live, marks), c # <<>>,
         NEW size \in Nat, NEW align \in Nat \ {0}, NEW commits \in BOOLEAN,
         PlaceOn(c, size, align, commits)
  PROVE  Good(chain', mp, live', marks)
<1> DEFINE n    == Len(c)
           end  == PushEnd(c[n], size, align)
           curr == chain'[n].curr
<1>1. /\ c \in Seq(Block) /\ live \in Seq(Span) /\ marks \in Seq(Mark)
      /\ mp \subseteq Blocks
  BY DEF Good, Typed
<1>2. n \in Nat \ {0} /\ n \in 1 .. n /\ c[n] \in Block
  BY <1>1
<1>3. /\ c[n].curr <= c[n].commited /\ c[n].commited <= c[n].reserved
      /\ Hdr <= c[n].curr
  BY <1>2 DEF Good, Layered
<1>4. end \in Nat /\ c[n].curr + size <= end
  BY PlaceEffect
<1>6. \/ live' = live
      \/ /\ live' = Append(live, [blk |-> n, off |-> end - size, size |-> size])
         /\ curr = end
  BY PlaceEffect
<1>7. /\ chain' \in Seq(Block) /\ Len(chain') = n
      /\ \A i \in 1 .. n : /\ chain'[i].id = c[i].id /\ chain'[i].base = c[i].base
                           /\ chain'[i].reserved = c[i].reserved
                           /\ c[i].curr <= chain'[i].curr
                           /\ Hdr <= chain'[i].curr
                           /\ chain'[i].curr <= chain'[i].commited
                           /\ chain'[i].commited <= chain'[i].reserved
      /\ chain'[n].curr = curr
  BY PlaceEffect
<1> HIDE DEF end, curr
<1>8. /\ live' \in Seq(Span) /\ Len(live) <= Len(live')
      /\ \A i \in 1 .. Len(live) : live'[i] = live[i]
      /\ \A i \in 1 .. Len(live') : i > Len(live) =>
           /\ i = Len(live) + 1
           /\ live'[i].blk = n /\ live'[i].off = end - size
           /\ live'[i].size = size /\ curr = end
  <2>1. CASE live' = live
    BY <2>1, <1>1
  <2>2. CASE live' = Append(live, [blk |-> n, off |-> end - size, size |-> size])
             /\ curr = end
    <3>1. [blk |-> n, off |-> end - size, size |-> size] \in Span
      BY <1>2, <1>4 DEF Block, Span
    <3> QED BY <2>2, <3>1, <1>1
  <2> QED BY <2>1, <2>2, <1>6
<1>9. c[n].curr \in Nat /\ n \in Nat
  BY <1>2 DEF Block
<1>10. Layered(chain')
  <2>1. chain' # <<>> /\ chain'[1].base = 0
    BY <1>2, <1>7 DEF Good, Layered
  <2> QED BY <2>1, <1>7, <1>2 DEF Good, Layered
<1>11. Accounted(chain', mp)
  BY <1>7, <1>2 DEF Good, Accounted, Ids
<1>12. \A i \in 1 .. Len(live) : live[i] \in Span /\ live[i].blk \in 1 .. n
                                 /\ live[i].off + live[i].size <= c[live[i].blk].curr
  BY <1>1 DEF Good, Usable
<1>13. Usable(chain', mp, live')
  <2>1. ASSUME NEW i \in 1 .. Len(live')
        PROVE  /\ live'[i].blk \in 1 .. n
               /\ Hdr <= live'[i].off
               /\ live'[i].off + live'[i].size <= chain'[live'[i].blk].curr
    <3>1. CASE i \in 1 .. Len(live)
      <4>1. Hdr <= live[i].off
        BY <3>1 DEF Good, Usable
      <4>2. c[live[i].blk] \in Block /\ chain'[live[i].blk] \in Block
        BY <1>1, <1>7, <1>12, <3>1
      <4>3. /\ live[i].off \in Nat /\ live[i].size \in Nat /\ live[i].blk \in 1 .. n
            /\ live[i].off + live[i].size <= c[live[i].blk].curr
        BY <3>1, <1>12 DEF Span
      <4>4. /\ c[live[i].blk].curr \in Nat /\ chain'[live[i].blk].curr \in Nat
            /\ c[live[i].blk].curr <= chain'[live[i].blk].curr
        BY <4>2, <4>3, <1>7 DEF Block
      <4>5. live'[i] = live[i]
        BY <3>1, <1>8
      <4>6. \A a, b, x, y \in Nat : a + b <= x /\ x <= y => a + b <= y
        OBVIOUS
      <4>7. live[i].off + live[i].size <= chain'[live[i].blk].curr
        BY <4>3, <4>4, <4>6
      <4> QED BY <4>1, <4>3, <4>5, <4>7
    <3>2. CASE i > Len(live)
      <4>1. /\ live'[i].blk = n /\ live'[i].off = end - size
            /\ live'[i].size = size /\ curr = end
        BY <3>2, <1>8
      <4>2. Hdr \in Nat /\ Hdr <= c[n].curr /\ chain'[n].curr = curr
        BY <1>3, <1>7, ArenaAssumption
      <4> QED BY <4>1, <4>2, <1>4, <1>9
    <3> QED BY <3>1, <3>2, <1>1, <1>8
  <2>2. \A i \in 1 .. n : chain'[i].id \in mp
    BY <1>11, <1>7 DEF Accounted, Ids
  <2>3. ASSUME NEW i \in 1 .. Len(live'), NEW j \in 1 .. Len(live'), i < j,
               live'[i].blk = live'[j].blk
        PROVE  live'[i].off + live'[i].size <= live'[j].off
    <3>1. CASE j \in 1 .. Len(live)
      BY <2>3, <3>1, <1>1, <1>8 DEF Good, Usable
    <3>2. CASE j > Len(live)
      <4>1. j = Len(live) + 1 /\ live'[j].blk = n /\ live'[j].off = end - size
        BY <3>2, <1>8
      <4>2. i \in 1 .. Len(live) /\ live'[i] = live[i]
        BY <2>3, <4>1, <1>1, <1>8
      <4>3. live[i].off + live[i].size <= c[n].curr
        BY <4>1, <4>2, <2>3, <1>12
      <4>4. live[i].off \in Nat /\ live[i].size \in Nat
        BY <4>2, <1>12 DEF Span
      <4>5. \A o, s, x, y, z \in Nat : o + s <= x /\ x + z <= y => o + s <= y - z
        OBVIOUS
      <4>6. live[i].off + live[i].size <= end - size
        BY <4>3, <4>4, <4>5, <1>4, <1>9
      <4> QED BY <4>1, <4>2, <4>6
    <3> QED BY <3>1, <3>2, <1>1, <1>8
  <2> QED BY <2>1, <2>2, <2>3, <1>7 DEF Usable
<1>14. Ordered(live')
  <2>1. ASSUME NEW i \in 1 .. Len(live'), NEW j \in 1 .. Len(live'), i < j
        PROVE  live'[i].blk <= live'[j].blk
    <3>1. CASE j \in 1 .. Len(live)
      BY <2>1, <3>1, <1>1, <1>8 DEF Good, Ordered
    <3>2. CASE j > Len(live)
      <4>1. j = Len(live) + 1 /\ live'[j].blk = n
        BY <3>2, <1>8
      <4> QED BY <2>1, <4>1, <1>1, <1>8, <1>12, <1>9, SMTT(60)
    <3> QED BY <3>1, <3>2, <1>1, <1>8
  <2> QED BY <2>1 DEF Ordered
<1>15. Nested(marks, chain', live')
  <2>1. ASSUME NEW k \in 1 .. Len(marks)
        PROVE  Parts(marks[k], chain', live')
    <3> DEFINE m == marks[k]
    <3>1. m \in Mark /\ Parts(m, c, live)
      BY <1>1 DEF Good, Nested
    <3>2. m.depth \in 1 .. n /\ m.live <= Len(live)
          /\ c[m.depth].base + Hdr <= m.pos /\ m.pos <= c[m.depth].base + c[m.depth].curr
      BY <3>1 DEF Parts
    <3>3. /\ chain'[m.depth].base = c[m.depth].base /\ c[m.depth].base \in Nat
          /\ m.pos \in Nat /\ c[m.depth].curr \in Nat /\ chain'[m.depth].curr \in Nat
          /\ c[m.depth].curr <= chain'[m.depth].curr
      <4>1. chain'[m.depth] \in Block /\ c[m.depth] \in Block
        BY <1>1, <1>7, <3>2
      <4> QED BY <4>1, <1>7, <3>1, <3>2 DEF Block, Mark
    <3>6. m.pos <= chain'[m.depth].base + chain'[m.depth].curr
      <4>1. \A p, b, x, y \in Nat : p <= b + x /\ x <= y => p <= b + y
        OBVIOUS
      <4> HIDE DEF m
      <4> QED BY <4>1, <3>2, <3>3
    <3>4. ASSUME NEW i \in 1 .. Len(live')
          PROVE  IF i <= m.live
                 THEN live'[i].blk <= m.depth /\ (live'[i].blk = m.depth =>
                        chain'[m.depth].base + live'[i].off + live'[i].size <= m.pos)
                 ELSE live'[i].blk >= m.depth /\ (live'[i].blk = m.depth =>
                        m.pos <= chain'[m.depth].base + live'[i].off)
      <4>1. CASE i \in 1 .. Len(live)
        BY <4>1, <1>8, <3>1, <3>3 DEF Parts
      <4>2. CASE i > Len(live)
        <5>1. live'[i].blk = n /\ live'[i].off = end - size
          BY <4>2, <1>8
        <5>2. ~ (i <= m.live)
          <6>1. Len(live) \in Nat /\ i \in Nat
            BY <1>1, <1>8
          <6>2. m.live \in Nat
            BY <3>1 DEF Mark
          <6> HIDE DEF m
          <6> QED BY <6>1, <6>2, <3>2, <4>2
        <5>3. m.depth <= n
          BY <3>2
        <5>4. m.depth = n => m.pos <= chain'[m.depth].base + (end - size)
          <6>1. CASE m.depth = n
            <7>1. /\ m.pos <= c[n].base + c[n].curr /\ c[n].base \in Nat
                  /\ chain'[m.depth].base = c[n].base
              BY <6>1, <3>2, <3>3
            <7> HIDE DEF m
            <7> QED BY <7>1, <1>4, <1>9, <3>3, SMTT(60)
          <6> QED BY <6>1
        <5> QED BY <5>1, <5>2, <5>3, <5>4
      <4> QED BY <4>1, <4>2, <1>1, <1>8
    <3>5. Len(live) \in Nat /\ Len(live') \in Nat /\ m.live \in Nat
      BY <1>1, <1>8, <3>1, SMTT(60) DEF Mark
    <3> QED BY <3>2, <3>3, <3>4, <3>5, <3>6, <1>7, <1>8, SMTT(60) DEF Parts
  <2> QED BY <2>1 DEF Good, Nested
<1> QED BY <1>1, <1>7, <1>8, <1>10, <1>11, <1>13, <1>14, <1>15 DEF Good, Typed

(* Growing a good chain by a nested block behind its last one.              *)
LEMMA GrowthKeepsGood ==
  ASSUME ArenaInv, chain # <<>>, NEW id \in Blocks \ mapped, NEW b \in Block,
         b.id = id, b.base = Top.base + Top.reserved,
         Hdr <= b.curr, b.curr <= b.commited, b.commited <= b.reserved
  PROVE  Good(Append(chain, b), mapped \cup {id}, live, marks)
<1> DEFINE n == Len(chain)
           c == Append(chain, b)
<1>1. /\ chain \in Seq(Block) /\ live \in Seq(Span) /\ marks \in Seq(Mark)
      /\ mapped \subseteq Blocks
  BY DEF ArenaInv, Good, Typed
<1>2. n \in Nat \ {0} /\ n \in 1 .. n /\ chain[n] \in Block
  BY <1>1
<1>3. /\ c \in Seq(Block) /\ Len(c) = n + 1 /\ c[n + 1] = b /\ c # <<>>
      /\ \A i \in 1 .. n : c[i] = chain[i] /\ chain[i] \in Block
  BY <1>1, SMTT(60)
<1> HIDE DEF c
<1>4. Layered(c)
  <2>1. c[1].base = 0
    BY <1>2, <1>3 DEF ArenaInv, Good, Layered
  <2>2. \A i \in 1 .. n + 1 : Hdr <= c[i].curr /\ c[i].curr <= c[i].commited
                                               /\ c[i].commited <= c[i].reserved
    BY <1>2, <1>3 DEF ArenaInv, Good, Layered
  <2>3. ASSUME NEW i \in 1 .. n + 1, NEW j \in 1 .. n + 1, i < j
        PROVE  c[i].base + c[i].reserved <= c[j].base
    <3>1. i \in 1 .. n
      BY <2>3, <1>2
    <3>2. CASE j \in 1 .. n
      BY <2>3, <3>1, <3>2, <1>3 DEF ArenaInv, Good, Layered
    <3>3. CASE j = n + 1
      <4>1. /\ chain[i].base \in Nat /\ chain[i].reserved \in Nat
            /\ chain[n].base \in Nat /\ chain[n].reserved \in Nat
        BY <1>2, <1>3, <3>1 DEF Block
      <4>2. i = n \/ chain[i].base + chain[i].reserved <= chain[n].base
        BY <3>1, <1>2 DEF ArenaInv, Good, Layered
      <4>3. c[j].base = chain[n].base + chain[n].reserved /\ c[i] = chain[i]
        BY <3>1, <3>3, <1>3 DEF Top
      <4> QED BY <4>1, <4>2, <4>3
    <3> QED BY <3>2, <3>3, <1>2
  <2> QED BY <2>1, <2>2, <2>3, <1>3 DEF Layered
<1>5. Accounted(c, mapped \cup {id})
  <2>1. mapped = Ids(chain)
    BY DEF ArenaInv, Good, Accounted
  <2>2. Ids(c) = Ids(chain) \cup {id}
    BY <1>2, <1>3 DEF Ids
  <2>3. \A i \in 1 .. n : chain[i].id # id
    BY <2>1 DEF Ids
  <2> QED BY <2>1, <2>2, <2>3, <1>2, <1>3 DEF ArenaInv, Good, Accounted
<1>6. Usable(c, mapped \cup {id}, live)
  BY <1>2, <1>3 DEF ArenaInv, Good, Usable
<1>7. Nested(marks, c, live)
  <2>1. ASSUME NEW k \in 1 .. Len(marks) PROVE Parts(marks[k], c, live)
    <3>1. Parts(marks[k], chain, live)
      BY DEF ArenaInv, Good, Nested
    <3>2. marks[k].depth \in 1 .. n
      BY <3>1 DEF Parts
    <3>3. c[marks[k].depth] = chain[marks[k].depth] /\ marks[k].depth \in 1 .. Len(c)
      BY <3>2, <1>2, <1>3
    <3> QED BY <3>1, <3>3 DEF Parts
  <2> QED BY <2>1 DEF ArenaInv, Good, Nested
<1> QED BY <1>1, <1>3, <1>4, <1>5, <1>6, <1>7 DEF ArenaInv, Good, Typed, c

(* The position u lies in block d, behind its header.                       *)
LiesIn(u, d) == /\ d \in 1 .. Len(chain)
                /\ chain[d].base + Hdr <= u
                /\ u <= chain[d].base + chain[d].curr

(* The search of arenaPopTo finds the block a position lies in.             *)
LEMMA PopDepthFinds ==
  ASSUME ArenaInv, NEW u \in Nat, NEW d, LiesIn(u, d)
  PROVE  PopDepth(u) = d
<1> DEFINE Found(n) == /\ chain[n].base < u
                       /\ \A i \in n + 1 .. Len(chain) : chain[i].base >= u
<1>1. chain \in Seq(Block) /\ d \in 1 .. Len(chain) /\ Hdr \in Nat \ {0}
  BY ArenaAssumption DEF ArenaInv, Good, Typed, LiesIn
<1>2. \A i \in 1 .. Len(chain) : /\ chain[i].base \in Nat /\ chain[i].curr \in Nat
                                 /\ chain[i].reserved \in Nat
                                 /\ chain[i].commited \in Nat
  <2>1. \A i \in 1 .. Len(chain) : chain[i] \in Block
    BY <1>1
  <2> QED BY <2>1 DEF Block
<1>3. chain[d].curr <= chain[d].reserved
  <2>1. chain[d].curr <= chain[d].commited /\ chain[d].commited <= chain[d].reserved
    BY <1>1 DEF ArenaInv, Good, Layered
  <2> QED BY <2>1, <1>1, <1>2
<1>4. chain[d].base < u
  BY <1>1, <1>2 DEF LiesIn
<1>5. ASSUME NEW i \in 1 .. Len(chain), d < i PROVE chain[i].base >= u
  <2>1. chain[d].base + chain[d].reserved <= chain[i].base
    BY <1>5, <1>1 DEF ArenaInv, Good, Layered
  <2>2. u <= chain[d].base + chain[d].curr
    BY DEF LiesIn
  <2>3. /\ chain[d].base \in Nat /\ chain[d].curr \in Nat /\ chain[d].reserved \in Nat
        /\ chain[i].base \in Nat
    BY <1>1, <1>2
  <2> QED BY <2>1, <2>2, <2>3, <1>3
<1>6. Len(chain) \in Nat
  BY <1>1
<1>7. Found(d)
  BY <1>1, <1>4, <1>5, <1>6
<1>8. ASSUME NEW n \in 1 .. Len(chain), Found(n) PROVE n = d
  <2>1. CASE n < d
    <3>1. d \in n + 1 .. Len(chain)
      BY <2>1, <1>1, <1>6
    <3>2. chain[d].base >= u
      BY <3>1, <1>8
    <3> QED BY <3>2, <1>4, <1>2, <1>1
  <2>2. CASE d < n
    <3>1. chain[n].base >= u /\ chain[n].base \in Nat /\ chain[n].base < u
      BY <2>2, <1>5, <1>2, <1>8
    <3> QED BY <3>1
  <2> QED BY <2>1, <2>2, <1>1, <1>6
<1> HIDE DEF Found
<1>9. PopDepth(u) = CHOOSE n \in 1 .. Len(chain) : Found(n)
  BY DEF PopDepth, Found
<1> QED BY <1>1, <1>7, <1>8, <1>9

(* What is left of the chain when it is cut at position u of block d.       *)
CutAt(d, u) ==
  /\ chain' \in Seq(Block) /\ Len(chain') = d
  /\ \A i \in 1 .. d : i # d => chain'[i] = chain[i]
  /\ chain'[d] = [chain[d] EXCEPT !.curr = u - chain[d].base]
  /\ mapped' = { chain[i].id : i \in 1 .. d }

(* arenaPopTo cuts the chain at the position it is given, or behind the     *)
(* root's header when that is higher.                                       *)
LEMMA PopCuts ==
  ASSUME ArenaInv, NEW to \in Nat, NEW d, LiesIn(Larger(to, Hdr), d), PopTo(to)
  PROVE  CutAt(d, Larger(to, Hdr))
<1> DEFINE u == Larger(to, Hdr)
           n == Len(chain)
<1>1. /\ chain \in Seq(Block) /\ d \in 1 .. n /\ Hdr \in Nat \ {0} /\ n \in Nat
      /\ u \in Nat
  BY ArenaAssumption DEF ArenaInv, Good, Typed, LiesIn, Larger
<1>2. \A i \in 1 .. n : chain[i] \in Block
  BY <1>1
<1>3. chain[d].base \in Nat /\ chain[d].base + Hdr <= u /\ u <= chain[d].base + chain[d].curr
      /\ chain[d].curr \in Nat /\ chain[d].reserved \in Nat
  BY <1>1, <1>2 DEF LiesIn, Block
<1>4. u - chain[d].base \in Nat /\ Larger(u - chain[d].base, Hdr) = u - chain[d].base
  <2> HIDE DEF u
  <2> QED BY <1>1, <1>3 DEF Larger
<1>5. /\ mapped = { chain[i].id : i \in 1 .. n }
      /\ \A i, j \in 1 .. n : chain[i].id = chain[j].id => i = j
  BY DEF ArenaInv, Good, Accounted, Ids
<1>6. CASE to < Position
  <2> DEFINE below == SubSeq(chain, 1, d)
             above == SubSeq(chain, d + 1, n)
  <2>1. PopDepth(u) = d
    BY <1>1, PopDepthFinds
  <2>2. /\ chain' = [below EXCEPT ![d].curr = u - chain[d].base]
        /\ mapped' = mapped \ Ids(above)
    BY <1>6, <2>1, <1>4 DEF PopTo, Released
  <2>3. /\ below \in Seq(Block) /\ Len(below) = d
        /\ \A i \in 1 .. d : below[i] = chain[i]
    BY <1>1, SubSeqProperties
  <2>4. Len(above) = n - d /\ \A i \in 1 .. n - d : above[i] = chain[d + i]
    BY <1>1, SubSeqProperties
  <2> HIDE DEF below, above
  <2>5. Ids(above) = { chain[i].id : i \in d + 1 .. n }
    <3>1. ASSUME NEW i \in 1 .. n - d PROVE d + i \in d + 1 .. n
      BY <1>1
    <3>2. ASSUME NEW j \in d + 1 .. n PROVE j - d \in 1 .. n - d /\ d + (j - d) = j
      BY <1>1
    <3>3. Ids(above) = { chain[d + i].id : i \in 1 .. n - d }
      BY <2>4 DEF Ids
    <3> HIDE DEF n
    <3> QED BY <3>1, <3>2, <3>3
  <2>6. mapped' = { chain[i].id : i \in 1 .. d }
    <3>1. ASSUME NEW i \in 1 .. d PROVE i \in 1 .. n /\ i \notin d + 1 .. n
      BY <1>1
    <3>2. ASSUME NEW i \in 1 .. n PROVE i \in 1 .. d \/ i \in d + 1 .. n
      BY <1>1
    <3>3. ASSUME NEW i \in d + 1 .. n PROVE i \in 1 .. n
      BY <1>1
    <3> HIDE DEF n
    <3> QED BY <3>1, <3>2, <3>3, <2>2, <2>5, <1>5
  <2>7. [chain[d] EXCEPT !.curr = u - chain[d].base] \in Block
    BY <1>1, <1>2, <1>4 DEF Block
  <2>8. /\ chain' \in Seq(Block) /\ Len(chain') = d
        /\ \A i \in 1 .. d : i # d => chain'[i] = chain[i]
        /\ chain'[d] = [chain[d] EXCEPT !.curr = u - chain[d].base]
    <3>1. chain' = [below EXCEPT ![d] = [chain[d] EXCEPT !.curr = u - chain[d].base]]
      <4>1. below[d] = chain[d]
        BY <2>3, <1>1
      <4> QED BY <4>1, <2>2
    <3> QED BY <3>1, <2>3, <2>7, <1>1
  <2> QED BY <2>6, <2>8 DEF CutAt
<1>7. CASE ~ (to < Position)
  <2>1. chain' = chain /\ mapped' = mapped
    BY <1>7 DEF PopTo
  <2>2. /\ Position \in Nat /\ Position = chain[n].base + chain[n].curr
        /\ chain[n].base \in Nat /\ chain[n].curr \in Nat /\ Hdr <= chain[n].curr
    <3>1. n \in 1 .. n /\ chain[n] \in Block
      BY <1>1, <1>2
    <3>2. Hdr <= chain[n].curr
      BY <3>1 DEF ArenaInv, Good, Layered
    <3> QED BY <3>1, <3>2 DEF Position, Top, Block
  <2>3. u = to
    BY <1>7, <2>2, <1>1 DEF Larger
  <2>4. d = n
    <3>1. CASE d < n
      <4>1. chain[d].base + chain[d].reserved <= chain[n].base
        BY <3>1, <1>1 DEF ArenaInv, Good, Layered
      <4>2. chain[d].curr <= chain[d].commited /\ chain[d].commited <= chain[d].reserved
        BY <1>1 DEF ArenaInv, Good, Layered
      <4>3. chain[d].commited \in Nat
        BY <1>1, <1>2 DEF Block
      <4> HIDE DEF u, n
      <4>4. chain[d].base + chain[d].curr <= chain[n].base
        BY <4>1, <4>2, <4>3, <1>3, <2>2
      <4>5. u <= chain[n].base
        <5>1. \A w, a, b, x \in Nat : w <= a + b /\ a + b <= x => w <= x
          OBVIOUS
        <5>2. u <= chain[d].base + chain[d].curr
          BY <1>3
        <5>3. u \in Nat /\ chain[d].base \in Nat /\ chain[d].curr \in Nat
              /\ chain[n].base \in Nat
          BY <1>1, <1>3, <2>2
        <5> QED BY <5>1, <5>2, <5>3, <4>4
      <4>6. to < Position
        BY <4>5, <2>2, <2>3, <1>1
      <4> QED BY <4>6, <1>7
    <3> QED BY <3>1, <1>1
  <2>5. u - chain[d].base = chain[d].curr
    <3>1. u <= chain[d].base + chain[d].curr /\ u >= chain[d].base + chain[d].curr
      BY <1>3, <1>7, <2>2, <2>3, <2>4
    <3> HIDE DEF u
    <3> QED BY <3>1, <1>1, <1>3, SMTT(60)
  <2>6. [chain[d] EXCEPT !.curr = u - chain[d].base] = chain[d]
    BY <2>5, <1>1, <1>2 DEF Block
  <2>7. chain'[d] = [chain[d] EXCEPT !.curr = u - chain[d].base]
    BY <2>1, <2>6
  <2> HIDE DEF u
  <2>8. mapped' = { chain[i].id : i \in 1 .. d }
    BY <2>1, <2>4, <1>5
  <2> QED BY <2>1, <2>4, <2>7, <2>8, <1>1 DEF CutAt, u
<1> QED BY <1>6, <1>7

(* Cutting a good chain at an open scratch, keeping the spans granted       *)
(* before it and a prefix of the scratches, keeps it good.                  *)
LEMMA CutKeepsGood ==
  ASSUME ArenaInv, NEW k \in 1 .. Len(marks), CutAt(marks[k].depth, marks[k].pos),
         live' = SubSeq(live, 1, marks[k].live),
         NEW q \in 0 .. k, marks' = SubSeq(marks, 1, q)
  PROVE  ArenaInv'
<1> DEFINE m == marks[k]
           d == m.depth
<1>1. /\ chain \in Seq(Block) /\ live \in Seq(Span) /\ marks \in Seq(Mark)
      /\ mapped \subseteq Blocks
  BY DEF ArenaInv, Good, Typed
<1>2. m \in Mark /\ Parts(m, chain, live)
  BY <1>1 DEF ArenaInv, Good, Nested
<1>3. /\ m.pos \in Nat /\ d \in 1 .. Len(chain) /\ m.live \in Nat /\ m.live <= Len(live)
      /\ chain[d].base + Hdr <= m.pos /\ m.pos <= chain[d].base + chain[d].curr
  BY <1>2 DEF Parts, Mark
<1>4. /\ chain' \in Seq(Block) /\ Len(chain') = d
      /\ \A i \in 1 .. d : i # d => chain'[i] = chain[i]
      /\ chain'[d] = [chain[d] EXCEPT !.curr = m.pos - chain[d].base]
      /\ mapped' = { chain[i].id : i \in 1 .. d }
  BY DEF CutAt
<1>5. Len(chain) \in Nat /\ Len(live) \in Nat /\ Len(marks) \in Nat /\ d \in Nat
      /\ Hdr \in Nat \ {0} /\ q \in Nat /\ k \in Nat
  BY <1>1, <1>3, ArenaAssumption, SMTT(60)
<1>6. \A i \in 1 .. d : i \in 1 .. Len(chain) /\ chain[i] \in Block
  BY <1>1, <1>3, <1>5
<1>7. /\ chain[d].base \in Nat /\ chain[d].curr \in Nat
      /\ chain[d].commited \in Nat /\ chain[d].reserved \in Nat
      /\ Hdr <= chain[d].curr /\ chain[d].curr <= chain[d].commited
      /\ chain[d].commited <= chain[d].reserved
  <2>1. chain[d] \in Block
    BY <1>3, <1>1
  <2>2. /\ Hdr <= chain[d].curr /\ chain[d].curr <= chain[d].commited
        /\ chain[d].commited <= chain[d].reserved
    BY <1>3 DEF ArenaInv, Good, Layered
  <2> QED BY <2>1, <2>2 DEF Block
<1>8. /\ m.pos - chain[d].base \in Nat /\ Hdr <= m.pos - chain[d].base
      /\ m.pos - chain[d].base <= chain[d].curr
  <2>1. \A p, b, h, c \in Nat : b + h <= p /\ p <= b + c
                                => p - b \in Nat /\ h <= p - b /\ p - b <= c
    OBVIOUS
  <2> HIDE DEF d, m
  <2> QED BY <2>1, <1>3, <1>5, <1>7
<1>9. /\ chain'[d].id = chain[d].id /\ chain'[d].base = chain[d].base
      /\ chain'[d].reserved = chain[d].reserved
      /\ chain'[d].commited = chain[d].commited
      /\ chain'[d].curr = m.pos - chain[d].base
  <2>1. chain[d] \in Block
    BY <1>3, <1>1
  <2> HIDE DEF d, m
  <2> QED BY <2>1, <1>4 DEF Block
<1>10. ASSUME NEW i \in 1 .. d
       PROVE  /\ chain'[i].id = chain[i].id /\ chain'[i].base = chain[i].base
              /\ chain'[i].reserved = chain[i].reserved
              /\ Hdr <= chain'[i].curr /\ chain'[i].curr <= chain'[i].commited
              /\ chain'[i].commited <= chain'[i].reserved
  <2>1. CASE i = d
    <3> HIDE DEF d, m
    <3> QED BY <2>1, <1>5, <1>7, <1>8, <1>9
  <2>2. CASE i # d
    BY <2>2, <1>4, <1>6 DEF ArenaInv, Good, Layered
  <2> QED BY <2>1, <2>2
<1>11. /\ live' \in Seq(Span) /\ Len(live') = m.live
       /\ \A i \in 1 .. m.live : i \in 1 .. Len(live) /\ live'[i] = live[i]
                                 /\ live[i] \in Span
  <2> HIDE DEF d
  <2>1. /\ live' \in Seq(Span) /\ Len(live') = m.live
        /\ \A i \in 1 .. m.live : live'[i] = live[i]
    BY <1>1, <1>3, <1>5, SubSeqProperties, SMTT(60)
  <2>2. \A i \in 1 .. m.live : i \in 1 .. Len(live) /\ live[i] \in Span
    <3> HIDE DEF m
    <3> QED BY <1>1, <1>3, <1>5
  <2> QED BY <2>1, <2>2
<1>12. /\ marks' \in Seq(Mark) /\ Len(marks') = q
       /\ \A j \in 1 .. q : j \in 1 .. Len(marks) /\ marks'[j] = marks[j]
                            /\ (j < k \/ j = k)
  <2>1. marks' \in Seq(Mark) /\ Len(marks') = q /\ \A j \in 1 .. q : marks'[j] = marks[j]
    BY <1>1, <1>5, SubSeqProperties
  <2> QED BY <2>1, <1>5
<1>13. Layered(chain')
  <2>1. chain' # <<>> /\ chain'[1].base = 0
    <3>1. chain # <<>> /\ 1 \in 1 .. d
      BY <1>3, <1>1
    <3>2. chain[1].base = 0
      BY <3>1 DEF ArenaInv, Good, Layered
    <3>3. chain' # <<>>
      BY <1>4, <3>1
    <3> QED BY <3>1, <3>2, <3>3, <1>10
  <2>2. \A i, j \in 1 .. d : i < j => chain'[i].base + chain'[i].reserved <= chain'[j].base
    BY <1>6, <1>10 DEF ArenaInv, Good, Layered
  <2> QED BY <2>1, <2>2, <1>4, <1>10 DEF Layered
<1>14. Accounted(chain', mapped')
  <2>1. mapped' = Ids(chain')
    <3> HIDE DEF d, m
    <3>1. Ids(chain') = { chain'[i].id : i \in 1 .. d }
      BY <1>4 DEF Ids
    <3>2. \A i \in 1 .. d : chain'[i].id = chain[i].id
      BY <1>10
    <3>3. { chain'[i].id : i \in 1 .. d } = { chain[i].id : i \in 1 .. d }
      BY <3>2
    <3>4. mapped' = { chain[i].id : i \in 1 .. d }
      BY <1>4
    <3> QED BY <3>1, <3>3, <3>4
  <2> QED BY <2>1, <1>4, <1>6, <1>10 DEF ArenaInv, Good, Accounted
<1>15. mapped' \subseteq Blocks
  <2> HIDE DEF d, m
  <2>1. \A i \in 1 .. d : chain[i].id \in Blocks
    BY <1>6 DEF Block
  <2> QED BY <2>1, <1>4
<1>16. ASSUME NEW i \in 1 .. m.live
       PROVE  /\ live[i].blk \in 1 .. d
              /\ Hdr <= live[i].off
              /\ live[i].off + live[i].size <= chain'[live[i].blk].curr
  <2>1. /\ live[i].blk \in 1 .. Len(chain) /\ Hdr <= live[i].off
        /\ live[i].off + live[i].size <= chain[live[i].blk].curr
    BY <1>11 DEF ArenaInv, Good, Usable
  <2>2. /\ live[i].blk <= d
        /\ live[i].blk = d => chain[d].base + live[i].off + live[i].size <= m.pos
    <3>1. i <= m.live /\ i \in 1 .. Len(live)
      BY <1>3, <1>11
    <3> QED BY <3>1, <1>2 DEF Parts
  <2>3. live[i].blk \in 1 .. d
    BY <2>1, <2>2, <1>5
  <2>4. CASE live[i].blk = d
    <3>1. live[i].off \in Nat /\ live[i].size \in Nat
      BY <1>11 DEF Span
    <3>2. \A a, s, b, p \in Nat : b + a + s <= p => a + s <= p - b
      OBVIOUS
    <3>3. live[i].off + live[i].size <= m.pos - chain[d].base
      <4> HIDE DEF d, m
      <4> QED BY <3>1, <3>2, <2>2, <2>4, <1>3, <1>7
    <3> QED BY <2>1, <2>3, <2>4, <3>3, <1>9
  <2>5. CASE live[i].blk # d
    <3>1. chain'[live[i].blk] = chain[live[i].blk]
      BY <2>3, <2>5, <1>4
    <3> QED BY <2>1, <2>3, <3>1
  <2> QED BY <2>4, <2>5
<1>17. Usable(chain', mapped', live')
  <2>1. \A i \in 1 .. d : chain'[i].id \in mapped'
    BY <1>4, <1>10
  <2>2. \A i, j \in 1 .. m.live : i < j /\ live[i].blk = live[j].blk
                                  => live[i].off + live[i].size <= live[j].off
    BY <1>11 DEF ArenaInv, Good, Usable
  <2> HIDE DEF d, m
  <2>3. ASSUME NEW i \in 1 .. Len(live')
        PROVE  /\ live'[i].blk \in 1 .. Len(chain')
               /\ chain'[live'[i].blk].id \in mapped'
               /\ Hdr <= live'[i].off
               /\ live'[i].off + live'[i].size <= chain'[live'[i].blk].curr
               /\ chain'[live'[i].blk].curr <= chain'[live'[i].blk].commited
               /\ chain'[live'[i].blk].commited <= chain'[live'[i].blk].reserved
    <3>1. i \in 1 .. m.live /\ live'[i] = live[i]
      BY <1>11
    <3>2. live[i].blk \in 1 .. d
      BY <3>1, <1>16
    <3> QED BY <3>1, <3>2, <2>1, <1>4, <1>10, <1>16
  <2>4. ASSUME NEW i \in 1 .. Len(live'), NEW j \in 1 .. Len(live'),
               i < j, live'[i].blk = live'[j].blk
        PROVE  live'[i].off + live'[i].size <= live'[j].off
    <3>1. /\ i \in 1 .. m.live /\ live'[i] = live[i]
          /\ j \in 1 .. m.live /\ live'[j] = live[j]
      BY <1>11
    <3> QED BY <3>1, <2>2, <2>4
  <2> QED BY <2>3, <2>4 DEF Usable
<1>18. Ordered(live')
  BY <1>11 DEF ArenaInv, Good, Ordered
<1>19. ASSUME NEW j \in 1 .. q PROVE Parts(marks[j], chain', live')
  <2> DEFINE p == marks[j]
  <2>1. p \in Mark /\ Parts(p, chain, live)
    BY <1>1, <1>12 DEF ArenaInv, Good, Nested
  <2>2. p.pos <= m.pos /\ p.depth <= d /\ p.live <= m.live
    <3>1. CASE j = k
      <4>1. p.pos \in Nat /\ p.depth \in Nat /\ p.live \in Nat
        BY <2>1 DEF Mark
      <4> QED BY <3>1, <4>1
    <3>2. CASE j < k
      BY <3>2, <1>12 DEF ArenaInv, Good, Nested
    <3> QED BY <3>1, <3>2, <1>12
  <2>3. /\ p.pos \in Nat /\ p.depth \in 1 .. d /\ p.live \in Nat
        /\ chain[p.depth].base + Hdr <= p.pos
        /\ p.pos <= chain[p.depth].base + chain[p.depth].curr
    <3>1. p.pos \in Nat /\ p.depth \in 1 .. Len(chain) /\ p.live \in Nat
      BY <2>1 DEF Parts, Mark
    <3>2. p.depth \in 1 .. d
      <4> HIDE DEF p, d
      <4> QED BY <3>1, <2>2, <1>5
    <3> QED BY <2>1, <3>1, <3>2 DEF Parts
  <2>4. chain'[p.depth].base = chain[p.depth].base
    BY <2>3, <1>10
  <2>5. p.pos <= chain'[p.depth].base + chain'[p.depth].curr
    <3>1. CASE p.depth = d
      <4>1. chain'[p.depth].curr = m.pos - chain[d].base
        BY <3>1, <1>9
      <4>2. chain'[p.depth].base = chain[d].base
        BY <3>1, <1>9
      <4> HIDE DEF p, d, m
      <4> QED BY <4>1, <4>2, <2>2, <2>3, <1>3, <1>7
    <3>2. CASE p.depth # d
      <4>1. chain'[p.depth] = chain[p.depth]
        BY <3>2, <2>3, <1>4
      <4> QED BY <4>1, <2>3
    <3> QED BY <3>1, <3>2
  <2>6. ASSUME NEW i \in 1 .. m.live
        PROVE  IF i <= p.live
               THEN live'[i].blk <= p.depth /\ (live'[i].blk = p.depth =>
                      chain'[p.depth].base + live'[i].off + live'[i].size <= p.pos)
               ELSE live'[i].blk >= p.depth /\ (live'[i].blk = p.depth =>
                      p.pos <= chain'[p.depth].base + live'[i].off)
    BY <2>1, <2>4, <1>11 DEF Parts
  <2> HIDE DEF m, d, p
  <2>7. /\ p.depth \in 1 .. Len(chain') /\ p.live <= Len(live')
        /\ chain'[p.depth].base + Hdr <= p.pos
    BY <2>2, <2>3, <2>4, <1>4, <1>11
  <2>8. Len(live') = m.live
    BY <1>11
  <2> QED BY <2>5, <2>6, <2>7, <2>8 DEF Parts, p
<1>20. Nested(marks', chain', live')
  <2>1. \A i, j \in 1 .. q : i < j => /\ marks[i].pos   <= marks[j].pos
                                      /\ marks[i].depth <= marks[j].depth
                                      /\ marks[i].live  <= marks[j].live
    BY <1>12 DEF ArenaInv, Good, Nested
  <2> QED BY <2>1, <1>12, <1>19, SMTT(60) DEF Nested
<1> QED BY <1>4, <1>11, <1>12, <1>13, <1>14, <1>15, <1>17, <1>18, <1>20
        DEF ArenaInv, Good, Typed

-----------------------------------------------------------------------------
(* Every action keeps the invariant.                                        *)

LEMMA AllocKeeps ==
  ASSUME ArenaInv, Alloc
  PROVE  ArenaInv'
<1>1. PICK id \in Blocks \ mapped :
        /\ chain' = << NewBlock(id, 0, Commit, Reserve) >>
        /\ mapped' = mapped \cup {id}
  BY DEF Alloc
<1> DEFINE b == NewBlock(id, 0, Commit, Reserve)
<1>2. /\ b \in Block /\ b.id = id /\ b.base = 0
      /\ Hdr <= b.curr /\ b.curr <= b.commited /\ b.commited <= b.reserved
  BY NewBlockNests, ArenaAssumption
<1> HIDE DEF b
<1>3. chain' = <<b>> /\ chain' \in Seq(Block) /\ Len(chain') = 1 /\ chain'[1] = b
  BY <1>1, <1>2 DEF b
<1>4. /\ chain = <<>> /\ live' = live /\ marks' = marks
      /\ live \in Seq(Span) /\ marks \in Seq(Mark)
  BY DEF Alloc, ArenaInv, Good, Typed
<1>5. Len(live) = 0 /\ Len(marks) = 0
  <2>1. \A i \in 1 .. Len(live) : live[i].blk \in 1 .. 0
    BY <1>4 DEF ArenaInv, Good, Usable
  <2>2. \A k \in 1 .. Len(marks) : marks[k].depth \in 1 .. 0
    BY <1>4 DEF ArenaInv, Good, Nested, Parts
  <2>3. 1 .. 0 = {} /\ Len(live) \in Nat /\ Len(marks) \in Nat
    BY <1>4
  <2>4. \A m \in Nat : m # 0 => 1 \in 1 .. m
    OBVIOUS
  <2> QED BY <2>1, <2>2, <2>3, <2>4
<1>6. mapped' = {id}
  <2>1. mapped = {}
    BY <1>4 DEF ArenaInv, Good, Accounted, Ids
  <2> QED BY <2>1, <1>1
<1>7. Layered(chain')
  BY <1>2, <1>3 DEF Layered
<1>8. Accounted(chain', mapped')
  BY <1>2, <1>3, <1>6 DEF Accounted, Ids
<1>9. Usable(chain', mapped', live') /\ Ordered(live') /\ Nested(marks', chain', live')
  <2>1. 1 .. Len(live') = {} /\ 1 .. Len(marks') = {}
    BY <1>4, <1>5
  <2> QED BY <2>1 DEF Usable, Ordered, Nested
<1> QED BY <1>3, <1>4, <1>6, <1>7, <1>8, <1>9 DEF ArenaInv, Good, Typed

(* The block a push grows the arena by is nested and starts behind the top. *)
LEMMA GrowthBlockNests ==
  ASSUME ArenaInv, chain # <<>>, NEW id \in Blocks,
         NEW size \in Nat, NEW align \in Nat \ {0}
  PROVE  LET b == GrowthBlock(id, size, align) IN
           /\ b \in Block /\ b.id = id /\ b.base = Top.base + Top.reserved
           /\ Hdr <= b.curr /\ b.curr <= b.commited /\ b.commited <= b.reserved
<1> DEFINE need == PushEnd(Top, size, align) + Hdr
           base == Top.base + Top.reserved
<1>1. Top \in Block
  BY DEF Top, ArenaInv, Good, Typed
<1>2. base \in Nat
  BY <1>1 DEF Block
<1>3. need \in Nat \ {0} /\ need <= need
  <2>1. PushEnd(Top, size, align) \in Nat
    BY <1>1, PushEndAbove
  <2>2. \A x \in Nat, h \in Nat \ {0} : x + h \in Nat \ {0} /\ x + h <= x + h
    OBVIOUS
  <2> QED BY <2>1, <2>2, ArenaAssumption
<1>4. GrowthBlock(id, size, align) = IF need > Reserve
                                     THEN NewBlock(id, base, need, need)
                                     ELSE NewBlock(id, base, Commit, Reserve)
  BY DEF GrowthBlock
<1> HIDE DEF need, base
<1>5. CASE need > Reserve
  BY <1>2, <1>3, <1>4, <1>5, NewBlockNests DEF base
<1>6. CASE ~ (need > Reserve)
  BY <1>2, <1>4, <1>6, NewBlockNests, ArenaAssumption DEF base
<1> QED BY <1>5, <1>6

(* A push is placed on the chain, or on the chain grown by one block, and   *)
(* both are good.                                                           *)
LEMMA PushPlaces ==
  ASSUME ArenaInv, NEW size \in Sizes, NEW align \in Aligns,
         NEW maps \in BOOLEAN, NEW commits \in BOOLEAN,
         Push(size, align, maps, commits)
  PROVE  \E c : /\ Good(c, mapped', live, marks) /\ c # <<>>
                /\ PlaceOn(c, size, align, commits)
                /\ \/ c = chain
                   \/ \E b \in Block : /\ c = Append(chain, b)
                                       /\ b.base = Top.base + Top.reserved
                                       /\ Hdr <= b.curr
<1>1. size \in Nat /\ align \in Nat \ {0} /\ chain # <<>>
  BY ArenaAssumption DEF Push
<1>2. CASE /\ LeavesBlock(size, align) /\ maps
           /\ \E id \in Blocks \ mapped :
                /\ mapped' = mapped \cup {id}
                /\ PlaceOn(Append(chain, GrowthBlock(id, size, align)),
                           size, align, commits)
  <2>1. PICK id \in Blocks \ mapped :
          /\ mapped' = mapped \cup {id}
          /\ PlaceOn(Append(chain, GrowthBlock(id, size, align)), size, align, commits)
    BY <1>2
  <2> DEFINE b == GrowthBlock(id, size, align)
  <2>2. /\ b \in Block /\ b.id = id /\ b.base = Top.base + Top.reserved
        /\ Hdr <= b.curr /\ b.curr <= b.commited /\ b.commited <= b.reserved
    BY <1>1, GrowthBlockNests
  <2> HIDE DEF b
  <2>3. Good(Append(chain, b), mapped', live, marks)
    BY <1>1, <2>1, <2>2, GrowthKeepsGood
  <2>4. Append(chain, b) # <<>>
    <3>1. chain \in Seq(Block)
      BY DEF ArenaInv, Good, Typed
    <3> QED BY <3>1, <2>2
  <2>5. PlaceOn(Append(chain, b), size, align, commits)
    BY <2>1 DEF b
  <2> QED BY <2>2, <2>3, <2>4, <2>5
<1>3. CASE mapped' = mapped /\ PlaceOn(chain, size, align, commits)
  BY <1>1, <1>3 DEF ArenaInv
<1> QED BY <1>2, <1>3 DEF Push

LEMMA PushKeeps ==
  ASSUME ArenaInv, NEW size \in Sizes, NEW align \in Aligns,
         NEW maps \in BOOLEAN, NEW commits \in BOOLEAN,
         Push(size, align, maps, commits)
  PROVE  ArenaInv'
<1>1. size \in Nat /\ align \in Nat \ {0} /\ marks' = marks
  BY ArenaAssumption DEF Push
<1>2. PICK c : /\ Good(c, mapped', live, marks) /\ c # <<>>
               /\ PlaceOn(c, size, align, commits)
  BY PushPlaces
<1>3. Good(chain', mapped', live', marks)
  BY <1>1, <1>2, PlaceKeepsGood
<1> QED BY <1>1, <1>3 DEF ArenaInv

LEMMA PushContiguousKeeps ==
  ASSUME ArenaInv, NEW size \in Sizes, NEW align \in Aligns,
         NEW commits \in BOOLEAN, PushContiguous(size, align, commits)
  PROVE  ArenaInv'
<1>1. /\ size \in Nat /\ align \in Nat \ {0} /\ chain # <<>>
      /\ marks' = marks /\ mapped' = mapped
      /\ PlaceOn(chain, size, align, commits)
  BY ArenaAssumption DEF PushContiguous
<1>2. Good(chain', mapped, live', marks)
  BY <1>1, PlaceKeepsGood DEF ArenaInv
<1> QED BY <1>1, <1>2 DEF ArenaInv

LEMMA ScrachNewKeeps ==
  ASSUME ArenaInv, ScrachNew
  PROVE  ArenaInv'
<1> DEFINE n == Len(chain)
           m == [pos |-> Position, depth |-> n, live |-> Len(live)]
<1>1. /\ chain # <<>> /\ chain' = chain /\ mapped' = mapped /\ live' = live
      /\ marks' = Append(marks, m)
  BY DEF ScrachNew
<1>2. /\ chain \in Seq(Block) /\ live \in Seq(Span) /\ marks \in Seq(Mark)
      /\ n \in Nat \ {0} /\ n \in 1 .. n /\ Len(live) \in Nat
  BY <1>1 DEF ArenaInv, Good, Typed
<1>3. /\ chain[n].base \in Nat /\ chain[n].curr \in Nat /\ Hdr \in Nat
      /\ Hdr <= chain[n].curr
      /\ Position = chain[n].base + chain[n].curr
  <2>1. chain[n] \in Block
    BY <1>2
  <2> QED BY <1>2, <2>1, ArenaAssumption DEF Block, Position, Top, ArenaInv, Good, Layered
<1>4. /\ m \in Mark /\ m.pos = chain[n].base + chain[n].curr
      /\ m.depth = n /\ m.live = Len(live)
  BY <1>2, <1>3 DEF Mark
<1> HIDE DEF m
<1>5. Parts(m, chain, live)
  <2>1. ASSUME NEW i \in 1 .. Len(live)
        PROVE  /\ i <= m.live /\ live[i].blk <= m.depth
               /\ live[i].blk = m.depth =>
                    chain[m.depth].base + live[i].off + live[i].size <= m.pos
    <3>1. live[i].blk \in 1 .. n /\ live[i].off + live[i].size <= chain[live[i].blk].curr
      BY DEF ArenaInv, Good, Usable
    <3>2. live[i].off \in Nat /\ live[i].size \in Nat
      <4>1. live[i] \in Span
        BY <1>2
      <4> QED BY <4>1 DEF Span
    <3>3. \A a, s, x, y \in Nat : a + s <= x => y + a + s <= y + x
      OBVIOUS
    <3>4. live[i].blk = n => chain[n].base + live[i].off + live[i].size
                               <= chain[n].base + chain[n].curr
      BY <3>1, <3>2, <3>3, <1>3
    <3>5. i <= Len(live) /\ live[i].blk <= n
      BY <3>1, <1>2
    <3> QED BY <3>4, <3>5, <1>4
  <2>2. /\ m.depth \in 1 .. Len(chain) /\ m.live <= Len(live)
        /\ chain[m.depth].base + Hdr <= m.pos
        /\ m.pos <= chain[m.depth].base + chain[m.depth].curr
    BY <1>2, <1>3, <1>4
  <2> QED BY <2>1, <2>2 DEF Parts
<1>6. ASSUME NEW k \in 1 .. Len(marks)
      PROVE  marks[k].pos <= m.pos /\ marks[k].depth <= m.depth /\ marks[k].live <= m.live
  <2> DEFINE p == marks[k]
  <2>1. p \in Mark /\ p.depth \in 1 .. n /\ p.live <= Len(live)
        /\ p.pos <= chain[p.depth].base + chain[p.depth].curr
    BY <1>2 DEF ArenaInv, Good, Nested, Parts
  <2>2. chain[p.depth].base + chain[p.depth].curr <= chain[n].base + chain[n].curr
    <3>1. CASE p.depth = n
      <4> HIDE DEF p
      <4> QED BY <3>1, <1>3
    <3>2. CASE p.depth < n
      <4>1. chain[p.depth] \in Block
        BY <1>2, <2>1
      <4>2. /\ chain[p.depth].base + chain[p.depth].reserved <= chain[n].base
            /\ chain[p.depth].curr <= chain[p.depth].commited
            /\ chain[p.depth].commited <= chain[p.depth].reserved
        BY <3>2, <1>2, <2>1 DEF ArenaInv, Good, Layered
      <4>3. /\ chain[p.depth].base \in Nat /\ chain[p.depth].curr \in Nat
            /\ chain[p.depth].commited \in Nat /\ chain[p.depth].reserved \in Nat
        BY <4>1 DEF Block
      <4> HIDE DEF p, n
      <4>4. \A a, u, v, w, x, y \in Nat : a + w <= x /\ u <= v /\ v <= w => a + u <= x + y
        OBVIOUS
      <4> QED BY <4>2, <4>3, <4>4, <1>3
    <3> QED BY <3>1, <3>2, <2>1, <1>2
  <2>3. /\ p.pos \in Nat /\ chain[p.depth].base \in Nat /\ chain[p.depth].curr \in Nat
    <3>1. chain[p.depth] \in Block
      BY <1>2, <2>1
    <3> QED BY <3>1, <2>1 DEF Mark, Block
  <2> HIDE DEF p
  <2>4. p.pos <= chain[n].base + chain[n].curr
    BY <2>1, <2>2, <2>3, <1>3, SMTT(60)
  <2> QED BY <2>1, <2>4, <1>2, <1>4 DEF p
<1>7. /\ marks' \in Seq(Mark) /\ Len(marks') = Len(marks) + 1
      /\ marks'[Len(marks) + 1] = m
      /\ \A k \in 1 .. Len(marks) : marks'[k] = marks[k]
  BY <1>1, <1>2, <1>4
<1>8. Nested(marks', chain, live)
  <2>1. \A k \in 1 .. Len(marks) : Parts(marks[k], chain, live)
    BY DEF ArenaInv, Good, Nested
  <2>2. \A j, k \in 1 .. Len(marks) : j < k => /\ marks[j].pos   <= marks[k].pos
                                               /\ marks[j].depth <= marks[k].depth
                                               /\ marks[j].live  <= marks[k].live
    BY DEF ArenaInv, Good, Nested
  <2>3. \A k \in 1 .. Len(marks) + 1 : k \in 1 .. Len(marks) \/ k = Len(marks) + 1
    BY <1>2
  <2>4. \A k \in 1 .. Len(marks) : ~ (Len(marks) + 1 < k)
    BY <1>2
  <2>5. ~ (Len(marks) + 1 < Len(marks) + 1)
    BY <1>2
  <2>6. \A k \in 1 .. Len(marks') : Parts(marks'[k], chain, live)
    BY <2>1, <2>3, <1>5, <1>7
  <2> QED BY <2>2, <2>3, <2>4, <2>5, <2>6, <1>6, <1>7 DEF Nested
<1> QED BY <1>1, <1>2, <1>7, <1>8 DEF ArenaInv, Good, Typed

(* A saved position lies in the block it was saved in.                      *)
LEMMA MarkLies ==
  ASSUME ArenaInv, NEW k \in 1 .. Len(marks)
  PROVE  /\ marks[k] \in Mark
         /\ Larger(marks[k].pos, Hdr) = marks[k].pos
         /\ LiesIn(marks[k].pos, marks[k].depth)
<1>1. marks[k] \in Mark /\ Parts(marks[k], chain, live) /\ chain \in Seq(Block)
  BY DEF ArenaInv, Good, Typed, Nested
<1>2. LiesIn(marks[k].pos, marks[k].depth)
  BY <1>1 DEF Parts, LiesIn
<1>3. chain[marks[k].depth].base \in Nat /\ Hdr \in Nat /\ marks[k].pos \in Nat
  <2>1. chain[marks[k].depth] \in Block
    BY <1>1, <1>2 DEF LiesIn
  <2> QED BY <2>1, <1>1, ArenaAssumption DEF Block, Mark
<1>4. Hdr <= marks[k].pos
  BY <1>2, <1>3 DEF LiesIn
<1> QED BY <1>1, <1>2, <1>3, <1>4 DEF Larger

(* The root's header ends at a position of the root.                        *)
LEMMA RootLies ==
  ASSUME ArenaInv, chain # <<>>
  PROVE  Larger(0, Hdr) = Hdr /\ LiesIn(Hdr, 1) /\ chain[1].base = 0
<1>1. chain \in Seq(Block) /\ 1 \in 1 .. Len(chain) /\ chain[1] \in Block
  BY DEF ArenaInv, Good, Typed
<1>2. chain[1].base = 0 /\ Hdr <= chain[1].curr
  BY <1>1 DEF ArenaInv, Good, Layered
<1> QED BY <1>1, <1>2, ArenaAssumption DEF Larger, LiesIn, Block

LEMMA EndCuts ==
  ASSUME ArenaInv, EndInnermost
  PROVE  LET m == marks[Len(marks)] IN
           /\ Len(marks) \in 1 .. Len(marks)
           /\ CutAt(m.depth, m.pos)
           /\ live' = SubSeq(live, 1, m.live)
<1>1. Len(marks) \in 1 .. Len(marks)
  BY DEF ArenaInv, Good, Typed, EndInnermost
<1> DEFINE m == marks[Len(marks)]
<1>2. m.pos \in Nat /\ Larger(m.pos, Hdr) = m.pos /\ LiesIn(m.pos, m.depth)
  BY <1>1, MarkLies DEF Mark
<1>3. PopTo(m.pos) /\ live' = SubSeq(live, 1, m.live)
  BY DEF EndInnermost
<1> HIDE DEF m
<1>4. CutAt(m.depth, m.pos)
  BY <1>2, <1>3, PopCuts
<1> QED BY <1>1, <1>3, <1>4 DEF m

LEMMA ScrachEndKeeps ==
  ASSUME ArenaInv, ScrachEnd
  PROVE  ArenaInv'
<1>1. /\ Len(marks) \in 1 .. Len(marks)
      /\ CutAt(marks[Len(marks)].depth, marks[Len(marks)].pos)
      /\ live' = SubSeq(live, 1, marks[Len(marks)].live)
  BY EndCuts DEF ScrachEnd
<1>2. marks' = SubSeq(marks, 1, Len(marks) - 1) /\ Len(marks) - 1 \in 0 .. Len(marks)
  BY <1>1 DEF ScrachEnd
<1> QED BY <1>1, <1>2, CutKeepsGood

LEMMA ScrachReuseKeeps ==
  ASSUME ArenaInv, ScrachReuse
  PROVE  ArenaInv'
<1>1. /\ Len(marks) \in 1 .. Len(marks)
      /\ CutAt(marks[Len(marks)].depth, marks[Len(marks)].pos)
      /\ live' = SubSeq(live, 1, marks[Len(marks)].live)
  BY EndCuts DEF ScrachReuse
<1>2. marks \in Seq(Mark)
  BY DEF ArenaInv, Good, Typed
<1>3. marks' = SubSeq(marks, 1, Len(marks)) /\ Len(marks) \in 0 .. Len(marks)
  BY <1>1, <1>2, SubSeqFull DEF ScrachReuse
<1> QED BY <1>1, <1>3, CutKeepsGood

LEMMA ClearKeeps ==
  ASSUME ArenaInv, Clear
  PROVE  ArenaInv' /\ Len(chain') = 1 /\ chain'[1].base = 0 /\ chain'[1].curr = Hdr
<1>1. chain # <<>> /\ PopTo(0) /\ live' = <<>> /\ marks' = <<>>
  BY DEF Clear
<1>2. Larger(0, Hdr) = Hdr /\ LiesIn(Hdr, 1) /\ chain[1].base = 0
  BY <1>1, RootLies
<1>3. CutAt(1, Hdr)
  BY <1>1, <1>2, PopCuts
<1>4. chain[1] \in Block /\ 1 \in 1 .. Len(chain) /\ Hdr \in Nat
  BY <1>2, ArenaAssumption DEF LiesIn, ArenaInv, Good, Typed
<1>5. Hdr <= chain[1].commited /\ chain[1].commited <= chain[1].reserved
  <2>1. /\ Hdr <= chain[1].curr /\ chain[1].curr <= chain[1].commited
        /\ chain[1].commited <= chain[1].reserved
    BY <1>4 DEF ArenaInv, Good, Layered
  <2> QED BY <2>1, <1>4 DEF Block
<1>6. /\ chain' \in Seq(Block) /\ Len(chain') = 1 /\ mapped' = {chain[1].id}
      /\ chain'[1] = [chain[1] EXCEPT !.curr = Hdr]
  <2>1. Hdr - chain[1].base = Hdr
    BY <1>2, <1>4
  <2>2. 1 .. 1 = {1}
    OBVIOUS
  <2> QED BY <1>3, <2>1, <2>2 DEF CutAt
<1>7. /\ chain'[1].id = chain[1].id /\ chain'[1].base = 0 /\ chain'[1].curr = Hdr
      /\ chain'[1].commited = chain[1].commited /\ chain'[1].reserved = chain[1].reserved
  BY <1>2, <1>4, <1>6 DEF Block
<1>8. Layered(chain')
  <2>1. \A i \in 1 .. Len(chain') : i = 1
    BY <1>6
  <2>2. Hdr <= Hdr
    BY <1>4
  <2>3. \A i \in 1 .. Len(chain') : /\ Hdr <= chain'[i].curr
                                    /\ chain'[i].curr <= chain'[i].commited
                                    /\ chain'[i].commited <= chain'[i].reserved
    BY <2>1, <2>2, <1>5, <1>7
  <2>4. \A i, j \in 1 .. Len(chain') : ~ (i < j)
    BY <1>6
  <2> QED BY <2>3, <2>4, <1>7 DEF Layered
<1>9. Accounted(chain', mapped') /\ mapped' \subseteq Blocks
  <2>1. \A i \in 1 .. Len(chain') : i = 1
    BY <1>6
  <2>2. chain[1].id \in Blocks /\ 1 \in 1 .. Len(chain')
    BY <1>4, <1>6 DEF Block
  <2>3. Ids(chain') = {chain[1].id}
    BY <2>1, <2>2, <1>7 DEF Ids
  <2> QED BY <2>1, <2>2, <2>3, <1>6 DEF Accounted
<1>10. Len(live') = 0 /\ Len(marks') = 0 /\ live' \in Seq(Span) /\ marks' \in Seq(Mark)
  BY <1>1
<1>11. Usable(chain', mapped', live') /\ Ordered(live') /\ Nested(marks', chain', live')
  BY <1>10 DEF Usable, Ordered, Nested
<1> QED BY <1>6, <1>7, <1>8, <1>9, <1>10, <1>11 DEF ArenaInv, Good, Typed

(* What holds when there is no arena.                                       *)
LEMMA NoneIsGood == Good(<<>>, {}, <<>>, <<>>)
<1>1. Len(<<>>) = 0 /\ 1 .. 0 = {}
  OBVIOUS
<1>2. <<>> \in Seq(Block) /\ <<>> \in Seq(Span) /\ <<>> \in Seq(Mark)
  OBVIOUS
<1> QED BY <1>1, <1>2
        DEF Good, Typed, Layered, Accounted, Ids, Usable, Ordered, Nested

LEMMA ReleaseKeeps ==
  ASSUME ArenaInv, Release
  PROVE  ArenaInv'
<1>1. chain' = <<>> /\ mapped' = {} /\ live' = <<>> /\ marks' = <<>>
  BY DEF Release, Released, ArenaInv, Good, Accounted
<1> QED BY <1>1, NoneIsGood DEF ArenaInv

-----------------------------------------------------------------------------
(* The theorems.                                                            *)

(* The inductive invariant: blocks are layered, every mapping is accounted  *)
(* for, spans are usable and ordered, and every saved position parts them.  *)
THEOREM ArenaInvariant == Spec => []ArenaInv
<1>1. Init => ArenaInv
  BY NoneIsGood DEF Init, ArenaInv
<1>2. ArenaInv /\ [Next]_vars => ArenaInv'
  <2> SUFFICES ASSUME ArenaInv, [Next]_vars PROVE ArenaInv'
    OBVIOUS
  <2>1. CASE Alloc
    BY <2>1, AllocKeeps
  <2>2. ASSUME NEW size \in Sizes, NEW align \in Aligns,
               NEW maps \in BOOLEAN, NEW commits \in BOOLEAN,
               Push(size, align, maps, commits)
        PROVE  ArenaInv'
    BY <2>2, PushKeeps
  <2>3. ASSUME NEW size \in Sizes, NEW align \in Aligns,
               NEW commits \in BOOLEAN, PushContiguous(size, align, commits)
        PROVE  ArenaInv'
    BY <2>3, PushContiguousKeeps
  <2>4. CASE ScrachNew
    BY <2>4, ScrachNewKeeps
  <2>5. CASE ScrachEnd
    BY <2>5, ScrachEndKeeps
  <2>6. CASE ScrachReuse
    BY <2>6, ScrachReuseKeeps
  <2>7. CASE Clear
    BY <2>7, ClearKeeps
  <2>8. CASE Release
    BY <2>8, ReleaseKeeps
  <2>9. CASE UNCHANGED vars
    BY <2>9 DEF vars, ArenaInv, Good, Typed, Layered, Accounted, Ids, Usable,
                Ordered, Nested, Parts
  <2> QED BY <2>1, <2>2, <2>3, <2>4, <2>5, <2>6, <2>7, <2>8, <2>9 DEF Next
<1> QED BY <1>1, <1>2, PTL DEF Spec

(* Every variable keeps its type.                                           *)
THEOREM TypeCorrect == Spec => []TypeOK
<1>1. ArenaInv => TypeOK
  BY DEF ArenaInv, Good, TypeOK
<1> QED BY <1>1, ArenaInvariant, PTL

(* No granted span meets a header, another span, uncommitted bytes or a     *)
(* block the OS has taken back.                                             *)
THEOREM MemorySafe == Spec => []LiveIsUsable
<1>1. ArenaInv => LiveIsUsable
  BY DEF ArenaInv, Good, LiveIsUsable
<1> QED BY <1>1, ArenaInvariant, PTL

(* No mapping is lost and none is used by two blocks.                       *)
THEOREM NothingLeaks == Spec => []NoBlockLeak
<1>1. ArenaInv => NoBlockLeak
  BY DEF ArenaInv, Good, NoBlockLeak
<1> QED BY <1>1, ArenaInvariant, PTL

(* The asserts of arenaPopTo hold for every position still in hand.         *)
THEOREM AssertsHold == Spec => []PopAsserts
<1>1. ASSUME ArenaInv PROVE PopAsserts
  <2>1. ASSUME chain # <<>>, NEW u \in Nat, NEW d, LiesIn(u, d)
        PROVE  LET b == chain[PopDepth(u)]
               IN u - b.base <= b.curr /\ Larger(u - b.base, Hdr) <= b.curr
    <3>1. PopDepth(u) = d
      BY <2>1, <1>1, PopDepthFinds
    <3>2. /\ chain[d].base \in Nat /\ chain[d].curr \in Nat /\ Hdr \in Nat
          /\ chain[d].base + Hdr <= u /\ u <= chain[d].base + chain[d].curr
      <4>1. chain[d] \in Block
        BY <2>1, <1>1 DEF LiesIn, ArenaInv, Good, Typed
      <4> QED BY <2>1, <4>1, ArenaAssumption DEF LiesIn, Block
    <3> QED BY <2>1, <3>1, <3>2 DEF Larger
  <2>2. ASSUME NEW k \in 1 .. Len(marks), chain # <<>>
        PROVE  LET u == Larger(marks[k].pos, Hdr)
                   b == chain[PopDepth(u)]
               IN u - b.base <= b.curr /\ Larger(u - b.base, Hdr) <= b.curr
    <3>1. /\ marks[k].pos \in Nat /\ Larger(marks[k].pos, Hdr) = marks[k].pos
          /\ LiesIn(marks[k].pos, marks[k].depth)
      BY <1>1, MarkLies DEF Mark
    <3> QED BY <2>1, <2>2, <3>1
  <2>3. ASSUME chain # <<>>
        PROVE  LET u == Larger(0, Hdr)
                   b == chain[PopDepth(u)]
               IN u - b.base <= b.curr /\ Larger(u - b.base, Hdr) <= b.curr
    <3>1. Larger(0, Hdr) = Hdr /\ LiesIn(Hdr, 1) /\ Hdr \in Nat
      BY <1>1, <2>3, RootLies, ArenaAssumption
    <3> QED BY <2>1, <2>3, <3>1
  <2> QED BY <2>2, <2>3 DEF PopAsserts
<1> QED BY <1>1, ArenaInvariant, PTL

(* Cutting at a scratch brings its position back.                           *)
LEMMA CutPosition ==
  ASSUME ArenaInv, NEW k \in 1 .. Len(marks), CutAt(marks[k].depth, marks[k].pos)
  PROVE  /\ chain' # <<>> /\ Len(chain') = marks[k].depth
         /\ (Position)' = marks[k].pos
<1> DEFINE d == marks[k].depth
           p == marks[k].pos
<1>1. p \in Nat /\ d \in 1 .. Len(chain) /\ chain \in Seq(Block)
  BY MarkLies DEF LiesIn, Mark, ArenaInv, Good, Typed
<1>2. chain[d] \in Block
  BY <1>1
<1>3. /\ chain' \in Seq(Block) /\ Len(chain') = d
      /\ chain'[d] = [chain[d] EXCEPT !.curr = p - chain[d].base]
  BY DEF CutAt
<1> HIDE DEF d, p
<1>4. chain'[d].base = chain[d].base /\ chain'[d].curr = p - chain[d].base
      /\ chain[d].base \in Nat
  BY <1>2, <1>3 DEF Block
<1>5. (Position)' = chain'[d].base + chain'[d].curr
  BY <1>3 DEF Position, Top
<1> QED BY <1>1, <1>3, <1>4, <1>5 DEF d, p

(* Ending a scratch restores the position and the number of blocks.         *)
THEOREM RewindRestoresPosition == Spec => RewindRestores
<1>1. ASSUME ArenaInv, ScrachEnd \/ ScrachReuse
      PROVE  LET m == marks[Len(marks)] IN
               /\ chain' # <<>> /\ Len(chain') = m.depth
               /\ (Position)' = m.pos
  BY <1>1, EndCuts, CutPosition DEF ScrachEnd, ScrachReuse
<1>2. ArenaInv /\ [Next]_vars =>
        [ScrachEnd \/ ScrachReuse =>
           LET m == marks[Len(marks)] IN
             /\ chain' # <<>> /\ Len(chain') = m.depth
             /\ (Position)' = m.pos]_vars
  BY <1>1
<1> QED BY <1>2, ArenaInvariant, PTL DEF Spec, RewindRestores
-----------------------------------------------------------------------------
(* The arena implements the bump stack: every step of the chain of blocks   *)
(* is a step, or a stutter, of one cursor over one line of positions.       *)

(* The global position of a good arena's current block.                     *)
LEMMA PositionType ==
  ASSUME ArenaInv, chain # <<>>
  PROVE  /\ Len(chain) \in 1 .. Len(chain) /\ Top \in Block
         /\ Position \in Nat /\ Position > 0 /\ AbsPos = Position
<1>1. chain \in Seq(Block) /\ Len(chain) \in 1 .. Len(chain) /\ Top \in Block
  BY DEF ArenaInv, Good, Typed, Top
<1>2. Hdr <= Top.curr /\ Hdr \in Nat \ {0}
  BY <1>1, ArenaAssumption DEF ArenaInv, Good, Layered, Top
<1> QED BY <1>1, <1>2, SMTT(60) DEF Position, AbsPos, Block

AbsSpan == [lo : Nat, hi : Nat]
AbsMark == [pos : Nat, spans : Nat]

(* The abstract spans and saved positions are sequences.                    *)
LEMMA SpansOfGood ==
  ASSUME NEW c, NEW mp, NEW lv, NEW mk, Good(c, mp, lv, mk)
  PROVE  /\ SpansOf(c, lv) \in Seq(AbsSpan) /\ Len(SpansOf(c, lv)) = Len(lv)
         /\ \A i \in 1 .. Len(lv) :
              SpansOf(c, lv)[i] =
                 [lo |-> c[lv[i].blk].base + lv[i].off,
                  hi |-> c[lv[i].blk].base + lv[i].off + lv[i].size]
<1>1. c \in Seq(Block) /\ lv \in Seq(Span) /\ Len(lv) \in Nat
  BY DEF Good, Typed
<1>2. ASSUME NEW i \in 1 .. Len(lv)
      PROVE  [lo |-> c[lv[i].blk].base + lv[i].off,
              hi |-> c[lv[i].blk].base + lv[i].off + lv[i].size] \in AbsSpan
  <2>1. lv[i] \in Span /\ lv[i].blk \in 1 .. Len(c)
    BY <1>1 DEF Good, Usable
  <2>2. c[lv[i].blk] \in Block
    BY <1>1, <2>1
  <2>3. /\ c[lv[i].blk].base \in Nat /\ lv[i].off \in Nat /\ lv[i].size \in Nat
    BY <2>1, <2>2 DEF Block, Span
  <2>4. \A x, y, z \in Nat : x + y \in Nat /\ x + y + z \in Nat
    OBVIOUS
  <2> QED BY <2>3, <2>4 DEF AbsSpan
<1> QED BY <1>1, <1>2 DEF SpansOf

LEMMA SavedOfGood ==
  ASSUME NEW mk \in Seq(Mark)
  PROVE  /\ SavedOf(mk) \in Seq(AbsMark) /\ Len(SavedOf(mk)) = Len(mk)
         /\ \A k \in 1 .. Len(mk) :
              SavedOf(mk)[k] = [pos |-> mk[k].pos, spans |-> mk[k].live]
<1>1. \A k \in 1 .. Len(mk) : mk[k] \in Mark
  OBVIOUS
<1>2. \A k \in 1 .. Len(mk) : [pos |-> mk[k].pos, spans |-> mk[k].live] \in AbsMark
  BY <1>1 DEF Mark, AbsMark
<1> QED BY <1>2 DEF SavedOf

(* A push moves no block, so no granted span, and moves the cursor forward. *)
LEMMA PushRefines ==
  ASSUME ArenaInv, ArenaInv', chain # <<>>, marks' = marks,
         NEW size \in Nat, NEW align \in Nat \ {0}, NEW commits \in BOOLEAN,
         NEW c, Good(c, mapped', live, marks), c # <<>>,
         PlaceOn(c, size, align, commits),
         \/ c = chain
         \/ \E b \in Block : /\ c = Append(chain, b)
                             /\ b.base = Top.base + Top.reserved
                             /\ Hdr <= b.curr
  PROVE  Abs!Grant \/ Abs!Refuse
<1> DEFINE n   == Len(c)
           end == PushEnd(c[n], size, align)
           pos == Position
<1>1. /\ chain \in Seq(Block) /\ c \in Seq(Block) /\ live \in Seq(Span)
      /\ n \in Nat \ {0} /\ n \in 1 .. n /\ c[n] \in Block
      /\ Top \in Block /\ pos \in Nat /\ pos > 0 /\ AbsPos = pos
  BY PositionType DEF ArenaInv, Good, Typed
<1>2. /\ end \in Nat /\ c[n].curr + size <= end
      /\ chain' \in Seq(Block) /\ Len(chain') = n
      /\ \A i \in 1 .. n : /\ chain'[i].base = c[i].base
                           /\ c[i].curr <= chain'[i].curr
      /\ \/ live' = live
         \/ /\ live' = Append(live, [blk |-> n, off |-> end - size, size |-> size])
            /\ chain'[n].curr = end
  BY PlaceEffect
<1> HIDE DEF end, pos
<1>3. /\ pos <= c[n].base + c[n].curr
      /\ \A i \in 1 .. Len(chain) : i \in 1 .. n /\ c[i] = chain[i]
  <2>1. CASE c = chain
    <3>1. pos = c[n].base + c[n].curr
      BY <2>1 DEF pos, Position, Top
    <3> QED BY <2>1, <3>1, <1>1
  <2>2. CASE \E b \in Block : /\ c = Append(chain, b)
                              /\ b.base = Top.base + Top.reserved
                              /\ Hdr <= b.curr
    <3>1. PICK b \in Block : /\ c = Append(chain, b)
                             /\ b.base = Top.base + Top.reserved
                             /\ Hdr <= b.curr
      BY <2>2
    <3>2. /\ n = Len(chain) + 1 /\ c[n] = b
          /\ \A i \in 1 .. Len(chain) : i \in 1 .. n /\ c[i] = chain[i]
      BY <3>1, <1>1
    <3>3. Top.curr <= Top.commited /\ Top.commited <= Top.reserved
      BY PositionType DEF ArenaInv, Good, Layered, Top
    <3>4. pos = Top.base + Top.curr
      BY DEF pos, Position
    <3>5. /\ Top.base \in Nat /\ Top.curr \in Nat /\ Top.commited \in Nat
          /\ Top.reserved \in Nat /\ b.curr \in Nat
      BY <1>1 DEF Block
    <3>6. \A x, u, v, w, y \in Nat : u <= v /\ v <= w => x + u <= x + w + y
      OBVIOUS
    <3>7. pos <= b.base + b.curr
      BY <3>1, <3>3, <3>4, <3>5, <3>6
    <3> QED BY <3>2, <3>7
  <2> QED BY <2>1, <2>2
<1>4. /\ AbsPos' = chain'[n].base + chain'[n].curr
      /\ chain'[n].base = c[n].base /\ chain'[n].curr \in Nat
      /\ c[n].base \in Nat /\ c[n].curr \in Nat /\ c[n].curr <= chain'[n].curr
  <2>1. chain' # <<>> /\ chain'[n] \in Block
    BY <1>1, <1>2
  <2> QED BY <2>1, <1>1, <1>2 DEF AbsPos, Position, Top, Block
<1>5. pos <= AbsPos' /\ AbsPos' \in Nat
  <2>1. \A p, b, x, y \in Nat : p <= b + x /\ x <= y => p <= b + y /\ b + y \in Nat
    OBVIOUS
  <2> QED BY <2>1, <1>1, <1>3, <1>4, SMTT(60)
<1>6. AbsSaved' = AbsSaved
  BY DEF AbsSaved
<1>7. ASSUME NEW i \in 1 .. Len(live)
      PROVE  SpansOf(chain, live)[i] =
               [lo |-> chain'[live[i].blk].base + live[i].off,
                hi |-> chain'[live[i].blk].base + live[i].off + live[i].size]
  <2>1. live[i].blk \in 1 .. Len(chain)
    BY DEF ArenaInv, Good, Usable
  <2>2. chain'[live[i].blk].base = chain[live[i].blk].base
    BY <2>1, <1>2, <1>3
  <2> QED BY <2>2, SpansOfGood DEF ArenaInv
<1>s. /\ AbsSpans \in Seq(AbsSpan) /\ Len(AbsSpans) = Len(live)
      /\ AbsSpans' \in Seq(AbsSpan) /\ Len(AbsSpans') = Len(live')
      /\ \A i \in 1 .. Len(live') :
            AbsSpans'[i] =
               [lo |-> chain'[live'[i].blk].base + live'[i].off,
                hi |-> chain'[live'[i].blk].base + live'[i].off + live'[i].size]
  BY SpansOfGood DEF AbsSpans, ArenaInv
<1>8. CASE live' = live
  <2>1. \A i \in 1 .. Len(live) : AbsSpans[i] = AbsSpans'[i]
    BY <1>7, <1>8, <1>s DEF AbsSpans
  <2>2. AbsSpans = AbsSpans'
    BY <2>1, <1>8, <1>s, SeqEqual
  <2> QED BY <2>2, <1>1, <1>5, <1>6 DEF Abs!Refuse
<1>9. CASE /\ live' = Append(live, [blk |-> n, off |-> end - size, size |-> size])
           /\ chain'[n].curr = end
  <2> DEFINE l  == Len(live)
             lo == c[n].base + (end - size)
             a  == [lo |-> lo, hi |-> AbsPos']
             t  == Append(AbsSpans, a)
  <2>1. /\ Len(live') = l + 1 /\ l \in Nat
        /\ \A i \in 1 .. l : i \in 1 .. l + 1 /\ live'[i] = live[i]
        /\ live'[l + 1] = [blk |-> n, off |-> end - size, size |-> size]
        /\ \A i \in 1 .. l + 1 : i \in 1 .. l \/ i = l + 1
    BY <1>1, <1>9
  <2>2. /\ AbsPos' = lo + size /\ lo \in Nat /\ lo \in pos .. AbsPos'
    <3>1. \A b, e, s, u, p \in Nat : u + s <= e /\ p <= b + u =>
             /\ b + e = b + (e - s) + s /\ b + (e - s) \in Nat
             /\ p <= b + (e - s) /\ b + (e - s) <= b + e /\ b + e \in Nat
      OBVIOUS
    <3>2. AbsPos' = c[n].base + end
      BY <1>4, <1>9
    <3>3. /\ AbsPos' = lo + size /\ lo \in Nat /\ pos <= lo /\ lo <= AbsPos'
          /\ AbsPos' \in Nat
      <4> DEFINE B == c[n].base
                 U == c[n].curr
      <4>1. /\ B \in Nat /\ end \in Nat /\ U \in Nat /\ pos \in Nat
            /\ U + size <= end /\ pos <= B + U
        BY <1>1, <1>2, <1>3, <1>4
      <4>2. AbsPos' = B + end /\ lo = B + (end - size)
        BY <3>2
      <4> HIDE DEF n, B, U, lo
      <4>3. \A e, u, z \in Nat : u + z <= e => e - z \in Nat /\ u <= e - z /\ e - z + z = e
                                              /\ e - z <= e
        OBVIOUS
      <4>4. end - size \in Nat /\ U <= end - size /\ end - size <= end
            /\ (end - size) + size = end
        BY <4>1, <4>3
      <4>5. \A p, x, u, w, e, z \in Nat :
              p <= x + u /\ u <= w /\ w <= e /\ w + z = e =>
                 /\ x + e = x + w + z /\ x + w \in Nat /\ p <= x + w
                 /\ x + w <= x + e /\ x + e \in Nat
        OBVIOUS
      <4>6. /\ B + end = B + (end - size) + size /\ B + (end - size) \in Nat
            /\ pos <= B + (end - size) /\ B + (end - size) <= B + end
            /\ B + end \in Nat
        BY <4>1, <4>4, <4>5
      <4> QED BY <4>2, <4>6
    <3> HIDE DEF lo
    <3> QED BY <3>3, <1>1
  <2> HIDE DEF lo
  <2>3. a \in AbsSpan
    BY <2>2, <1>5 DEF AbsSpan
  <2>4. \A i \in 1 .. l : AbsSpans'[i] = AbsSpans[i]
    BY <2>1, <1>7, <1>s DEF AbsSpans
  <2>5. AbsSpans'[l + 1] = a
    <3>1. l + 1 \in 1 .. Len(live')
      BY <2>1
    <3>2. AbsSpans'[l + 1] = [lo |-> chain'[n].base + (end - size),
                              hi |-> chain'[n].base + (end - size) + size]
      BY <3>1, <2>1, <1>s
    <3> QED BY <3>2, <2>2, <1>4 DEF lo
  <2> HIDE DEF a
  <2>6. /\ t \in Seq(AbsSpan) /\ Len(t) = l + 1
        /\ t[l + 1] = a
        /\ \A i \in 1 .. l : t[i] = AbsSpans[i]
    BY <2>3, <1>s, AppendProperties
  <2> HIDE DEF t
  <2>7. AbsSpans' = t
    <3>1. Len(AbsSpans') = Len(t)
      BY <2>1, <2>6, <1>s
    <3>2. \A i \in 1 .. Len(AbsSpans') : AbsSpans'[i] = t[i]
      BY <2>1, <2>4, <2>5, <2>6, <1>s
    <3> QED BY <3>1, <3>2, <2>6, <1>s, SeqEqual
  <2>8. AbsSpans' = Append(AbsSpans, [lo |-> lo, hi |-> AbsPos'])
    BY <2>7 DEF t, a
  <2> QED BY <2>2, <2>8, <1>1, <1>6 DEF Abs!Grant
<1> QED BY <1>2, <1>8, <1>9

(* The abstract spans of the next state.                                    *)
LEMMA AbsSpansNext ==
  ASSUME ArenaInv'
  PROVE  /\ AbsSpans' \in Seq(AbsSpan) /\ Len(AbsSpans') = Len(live')
         /\ \A i \in 1 .. Len(live') :
              AbsSpans'[i] =
                [lo |-> chain'[live'[i].blk].base + live'[i].off,
                 hi |-> chain'[live'[i].blk].base + live'[i].off + live'[i].size]
  BY SpansOfGood DEF AbsSpans, ArenaInv

(* Cutting the chain at a scratch rewinds the cursor to the saved position  *)
(* and gives up the spans granted since.                                    *)
LEMMA CutRefines ==
  ASSUME ArenaInv, ArenaInv', NEW k, k = Len(marks), k \in 1 .. Len(marks),
         CutAt(marks[k].depth, marks[k].pos),
         live' = SubSeq(live, 1, marks[k].live)
  PROVE  Abs!Rewound
<1> DEFINE m == marks[k]
           v == m.live
<1>1. /\ marks \in Seq(Mark) /\ m \in Mark /\ Parts(m, chain, live)
      /\ Len(live) \in Nat
  BY MarkLies DEF ArenaInv, Good, Typed, Nested
<1>2. v \in 0 .. Len(live) /\ v \in Nat /\ m.depth \in 1 .. Len(chain)
  BY <1>1 DEF Parts, Mark
<1>3. /\ AbsSaved \in Seq(AbsMark) /\ Len(AbsSaved) = k
      /\ AbsSaved[k] = [pos |-> m.pos, spans |-> v]
  BY <1>1, SavedOfGood DEF AbsSaved
<1>4. AbsPos' = m.pos
  BY CutPosition DEF AbsPos
<1>5. /\ AbsSpans \in Seq(AbsSpan) /\ Len(AbsSpans) = Len(live)
      /\ AbsSpans' \in Seq(AbsSpan) /\ Len(AbsSpans') = Len(live')
      /\ \A i \in 1 .. Len(live) :
            AbsSpans[i] = [lo |-> chain[live[i].blk].base + live[i].off,
                           hi |-> chain[live[i].blk].base + live[i].off + live[i].size]
      /\ \A i \in 1 .. Len(live') :
            AbsSpans'[i] =
               [lo |-> chain'[live'[i].blk].base + live'[i].off,
                hi |-> chain'[live'[i].blk].base + live'[i].off + live'[i].size]
  <2>1. Good(chain, mapped, live, marks) /\ Good(chain', mapped', live', marks')
    BY DEF ArenaInv
  <2>2. AbsSpans = SpansOf(chain, live) /\ AbsSpans' = SpansOf(chain', live')
    BY DEF AbsSpans
  <2>3. /\ AbsSpans \in Seq(AbsSpan) /\ Len(AbsSpans) = Len(live)
        /\ \A i \in 1 .. Len(live) :
             AbsSpans[i] = [lo |-> chain[live[i].blk].base + live[i].off,
                            hi |-> chain[live[i].blk].base + live[i].off + live[i].size]
    BY <2>1, <2>2, SpansOfGood
  <2>4. /\ AbsSpans' \in Seq(AbsSpan) /\ Len(AbsSpans') = Len(live')
        /\ \A i \in 1 .. Len(live') :
             AbsSpans'[i] =
               [lo |-> chain'[live'[i].blk].base + live'[i].off,
                hi |-> chain'[live'[i].blk].base + live'[i].off + live'[i].size]
    BY AbsSpansNext
  <2> QED BY <2>3, <2>4
<1>6. /\ Len(live') = v
      /\ \A i \in 1 .. v : i \in 1 .. Len(live) /\ live'[i] = live[i]
  <2>1. live \in Seq(Span)
    BY DEF ArenaInv, Good, Typed
  <2>2. \A i \in 1 .. v : i \in 1 .. Len(live) /\ live[i] \in Span
    BY <1>1, <1>2, <2>1
  <2> HIDE DEF v
  <2> QED BY <1>2, <2>2, SubSeqProperties DEF v
<1>7. /\ Len(chain') = m.depth
      /\ \A i \in 1 .. m.depth : chain'[i].base = chain[i].base
  <2>1. \A i \in 1 .. m.depth : chain[i] \in Block
    BY <1>2 DEF ArenaInv, Good, Typed
  <2>2. /\ Len(chain') = m.depth
        /\ \A i \in 1 .. m.depth : i # m.depth => chain'[i] = chain[i]
        /\ chain'[m.depth] = [chain[m.depth] EXCEPT !.curr = m.pos - chain[m.depth].base]
    BY DEF CutAt
  <2>3. m.depth \in 1 .. m.depth
    BY <1>2
  <2> HIDE DEF m
  <2>4. chain'[m.depth].base = chain[m.depth].base
    BY <2>1, <2>2, <2>3 DEF Block
  <2> QED BY <2>2, <2>4
<1>8. \A i \in 1 .. v : AbsSpans'[i] = AbsSpans[i]
  <2>1. ASSUME NEW i \in 1 .. v PROVE chain'[live[i].blk].base = chain[live[i].blk].base
    <3>1. live'[i].blk \in 1 .. Len(chain')
      BY <1>6 DEF ArenaInv, Good, Usable
    <3> QED BY <3>1, <1>6, <1>7
  <2> HIDE DEF v
  <2>2. ASSUME NEW i \in 1 .. v PROVE AbsSpans'[i] = AbsSpans[i]
    <3>1. i \in 1 .. Len(live') /\ i \in 1 .. Len(live) /\ live'[i] = live[i]
      BY <1>6
    <3>2. AbsSpans'[i] = [lo |-> chain'[live[i].blk].base + live[i].off,
                          hi |-> chain'[live[i].blk].base + live[i].off + live[i].size]
      BY <3>1, <1>5, ZenonT(60)
    <3>3. AbsSpans[i] = [lo |-> chain[live[i].blk].base + live[i].off,
                         hi |-> chain[live[i].blk].base + live[i].off + live[i].size]
      BY <3>1, <1>5
    <3> QED BY <2>1, <3>2, <3>3
  <2> QED BY <2>2
<1>9. /\ SubSeq(AbsSpans, 1, v) \in Seq(AbsSpan) /\ Len(SubSeq(AbsSpans, 1, v)) = v
      /\ \A i \in 1 .. v : SubSeq(AbsSpans, 1, v)[i] = AbsSpans[i]
  <2>1. \A i \in 1 .. v : AbsSpans[i] \in AbsSpan
    BY <1>5, <1>6
  <2> HIDE DEF v
  <2> QED BY <1>2, <2>1, SubSeqProperties
<1>10. AbsSpans' = SubSeq(AbsSpans, 1, v)
  <2> HIDE DEF v
  <2>1. Len(AbsSpans') = Len(SubSeq(AbsSpans, 1, v))
    BY <1>5, <1>6, <1>9
  <2>2. \A i \in 1 .. Len(AbsSpans') : AbsSpans'[i] = SubSeq(AbsSpans, 1, v)[i]
    BY <1>5, <1>6, <1>8, <1>9
  <2> QED BY <2>1, <2>2, <1>5, <1>9, SeqEqual
<1>11. AbsSaved # <<>>
  BY <1>3, <1>1
<1>12. AbsSaved[Len(AbsSaved)].pos = m.pos /\ AbsSaved[Len(AbsSaved)].spans = v
  BY <1>3
<1> HIDE DEF m, v
<1> QED BY <1>4, <1>10, <1>11, <1>12 DEF Abs!Rewound

(* The scratches left when the innermost has ended.                         *)
LEMMA SavedFront ==
  ASSUME ArenaInv, ArenaInv', marks # <<>>,
         marks' = SubSeq(marks, 1, Len(marks) - 1)
  PROVE  AbsSaved' = SubSeq(AbsSaved, 1, Len(AbsSaved) - 1)
<1> DEFINE k == Len(marks)
<1>1. /\ marks \in Seq(Mark) /\ marks' \in Seq(Mark) /\ k \in Nat \ {0}
  BY DEF ArenaInv, Good, Typed
<1>2. /\ AbsSaved \in Seq(AbsMark) /\ Len(AbsSaved) = k
      /\ \A i \in 1 .. k : AbsSaved[i] = [pos |-> marks[i].pos, spans |-> marks[i].live]
      /\ AbsSaved' \in Seq(AbsMark) /\ Len(AbsSaved') = Len(marks')
      /\ \A i \in 1 .. Len(marks') :
           AbsSaved'[i] = [pos |-> marks'[i].pos, spans |-> marks'[i].live]
  BY <1>1, SavedOfGood DEF AbsSaved
<1>3. \A i \in 1 .. k - 1 : i \in 1 .. k /\ marks[i] \in Mark /\ AbsSaved[i] \in AbsMark
  BY <1>1, <1>2
<1>4. k - 1 \in Int /\ (1 <= k - 1 => k - 1 - 1 + 1 = k - 1) /\ (~(1 <= k - 1) => k - 1 = 0)
  <2>1. \A x \in Nat \ {0} : x - 1 \in Int /\ (1 <= x - 1 => x - 1 - 1 + 1 = x - 1)
                             /\ (~(1 <= x - 1) => x - 1 = 0)
    OBVIOUS
  <2> QED BY <2>1, <1>1
<1>5. Len(marks') = k - 1 /\ \A i \in 1 .. k - 1 : marks'[i] = marks[i]
  BY <1>1, <1>3, <1>4, SubSeqProperties
<1> DEFINE t == SubSeq(AbsSaved, 1, k - 1)
<1>6. /\ t \in Seq(AbsMark) /\ Len(t) = k - 1 /\ \A i \in 1 .. k - 1 : t[i] = AbsSaved[i]
  BY <1>3, <1>4, SubSeqProperties
<1> HIDE DEF t
<1>7. \A i \in 1 .. Len(AbsSaved') : AbsSaved'[i] = t[i]
  <2>1. ASSUME NEW i \in 1 .. Len(AbsSaved') PROVE AbsSaved'[i] = t[i]
    <3>1. i \in 1 .. k - 1 /\ i \in 1 .. Len(marks')
      BY <1>2, <1>5
    <3>2. AbsSaved'[i] = [pos |-> marks[i].pos, spans |-> marks[i].live]
      BY <3>1, <1>2, <1>5
    <3>3. t[i] = [pos |-> marks[i].pos, spans |-> marks[i].live]
      BY <3>1, <1>2, <1>3, <1>6
    <3> QED BY <3>2, <3>3
  <2> QED BY <2>1
<1>8. AbsSaved' = t
  BY <1>2, <1>5, <1>6, <1>7, SeqEqual
<1> QED BY <1>2, <1>8 DEF t

(* What is abstracted to an empty bump stack.                               *)
LEMMA EmptySpans ==
  ASSUME NEW c, NEW lv, NEW mk, Len(lv) = 0, Len(mk) = 0
  PROVE  SpansOf(c, lv) = <<>> /\ SavedOf(mk) = <<>>
<1>1. 1 .. 0 = {}
  OBVIOUS
<1> QED BY <1>1 DEF SpansOf, SavedOf

LEMMA NoneInUse ==
  ASSUME ArenaInv, chain = <<>>
  PROVE  Len(live) = 0 /\ Len(marks) = 0
<1>1. live \in Seq(Span) /\ marks \in Seq(Mark) /\ Len(live) \in Nat /\ Len(marks) \in Nat
  BY DEF ArenaInv, Good, Typed
<1>2. Len(chain) = 0 /\ 1 .. 0 = {}
  OBVIOUS
<1>3. \A i \in 1 .. Len(live) : live[i].blk \in 1 .. 0
  BY <1>2 DEF ArenaInv, Good, Usable
<1>4. \A k \in 1 .. Len(marks) : marks[k].depth \in 1 .. 0
  BY <1>2 DEF ArenaInv, Good, Nested, Parts
<1>5. \A m \in Nat : m # 0 => 1 \in 1 .. m
  OBVIOUS
<1> QED BY <1>1, <1>2, <1>3, <1>4, <1>5

LEMMA AllocRefines ==
  ASSUME ArenaInv, Alloc
  PROVE  Abs!Open
<1>1. PICK id \in Blocks \ mapped : chain' = << NewBlock(id, 0, Commit, Reserve) >>
  BY DEF Alloc
<1>2. chain = <<>> /\ live' = live /\ marks' = marks
  BY DEF Alloc
<1>3. Len(live) = 0 /\ Len(marks) = 0
  BY <1>2, NoneInUse
<1>4. AbsPos = 0 /\ AbsSpans = <<>> /\ AbsSaved = <<>>
  BY <1>2, <1>3, EmptySpans DEF AbsPos, AbsSpans, AbsSaved
<1>5. AbsSpans' = <<>> /\ AbsSaved' = <<>>
  BY <1>2, <1>3, EmptySpans DEF AbsSpans, AbsSaved
<1>6. AbsPos' = Hdr /\ Hdr > 0
  <2> DEFINE b == NewBlock(id, 0, Commit, Reserve)
  <2>1. b.base = 0 /\ b.curr = Hdr
    BY DEF NewBlock
  <2> HIDE DEF b
  <2>2. chain' # <<>> /\ Len(chain') = 1 /\ chain'[1] = b
    BY <1>1 DEF b
  <2> QED BY <2>1, <2>2, ArenaAssumption DEF AbsPos, Position, Top
<1> QED BY <1>4, <1>5, <1>6 DEF Abs!Open, Abs!Closed

LEMMA ScrachNewRefines ==
  ASSUME ArenaInv, ArenaInv', ScrachNew
  PROVE  Abs!Save
<1> DEFINE k == Len(marks)
           m == [pos |-> Position, depth |-> Len(chain), live |-> Len(live)]
           a == [pos |-> AbsPos, spans |-> Len(AbsSpans)]
           t == Append(AbsSaved, a)
<1>1. /\ chain # <<>> /\ chain' = chain /\ live' = live /\ marks' = Append(marks, m)
  BY DEF ScrachNew
<1>2. /\ marks \in Seq(Mark) /\ marks' \in Seq(Mark) /\ k \in Nat
      /\ Len(chain) \in Nat /\ Len(live) \in Nat
  BY DEF ArenaInv, Good, Typed
<1>3. Position \in Nat /\ Position > 0 /\ AbsPos = Position
  BY <1>1, PositionType
<1>4. Len(AbsSpans) = Len(live)
  BY SpansOfGood DEF AbsSpans, ArenaInv
<1>5. /\ AbsSaved \in Seq(AbsMark) /\ Len(AbsSaved) = k
      /\ \A i \in 1 .. k : AbsSaved[i] = [pos |-> marks[i].pos, spans |-> marks[i].live]
      /\ AbsSaved' \in Seq(AbsMark) /\ Len(AbsSaved') = Len(marks')
      /\ \A i \in 1 .. Len(marks') :
           AbsSaved'[i] = [pos |-> marks'[i].pos, spans |-> marks'[i].live]
  BY <1>2, SavedOfGood DEF AbsSaved
<1>6. m.pos = AbsPos /\ m.live = Len(AbsSpans) /\ m \in Mark
  BY <1>2, <1>3, <1>4 DEF Mark
<1>7. a \in AbsMark
  BY <1>2, <1>3, <1>4 DEF AbsMark
<1>8. a = [pos |-> m.pos, spans |-> m.live]
  BY <1>6
<1> HIDE DEF a, m
<1>9. /\ Len(marks') = k + 1 /\ marks'[k + 1] = m
      /\ \A i \in 1 .. k : marks'[i] = marks[i]
      /\ \A i \in 1 .. k + 1 : i \in 1 .. k \/ i = k + 1
  BY <1>1, <1>2, <1>6
<1>10. /\ t \in Seq(AbsMark) /\ Len(t) = k + 1 /\ t[k + 1] = a
       /\ \A i \in 1 .. k : t[i] = AbsSaved[i]
  BY <1>5, <1>7, AppendProperties
<1> HIDE DEF t
<1>11. \A i \in 1 .. Len(AbsSaved') : AbsSaved'[i] = t[i]
  BY <1>5, <1>8, <1>9, <1>10
<1>12. AbsSaved' = t
  BY <1>5, <1>9, <1>10, <1>11, SeqEqual
<1>13. AbsPos' = AbsPos /\ AbsSpans' = AbsSpans
  BY <1>1 DEF AbsPos, AbsSpans, Position, Top
<1> QED BY <1>3, <1>12, <1>13 DEF Abs!Save, t, a

LEMMA ClearRefines ==
  ASSUME ArenaInv, Clear
  PROVE  Abs!Reset
<1>1. chain # <<>> /\ live' = <<>> /\ marks' = <<>>
  BY DEF Clear
<1>2. Len(chain') = 1 /\ chain'[1].base = 0 /\ chain'[1].curr = Hdr /\ ArenaInv'
  BY ClearKeeps
<1>3. AbsPos' = Hdr
  <2>1. chain' # <<>>
    <3>1. chain' = <<>> => Len(chain') = 0
      OBVIOUS
    <3> QED BY <3>1, <1>2
  <2> QED BY <2>1, <1>2, ArenaAssumption DEF AbsPos, Position, Top
<1>4. AbsPos = Position /\ Hdr <= Position /\ AbsPos > 0
  <2>1. /\ Top \in Block /\ Position > 0 /\ AbsPos = Position
        /\ Len(chain) \in 1 .. Len(chain)
    BY <1>1, PositionType
  <2>2. Hdr <= Top.curr
    BY <2>1 DEF ArenaInv, Good, Layered, Top
  <2>3. Top.base \in Nat /\ Top.curr \in Nat /\ Hdr \in Nat
    BY <2>1, ArenaAssumption DEF Block
  <2>4. \A h, b, x \in Nat : h <= x => h <= b + x
    OBVIOUS
  <2> QED BY <2>1, <2>2, <2>3, <2>4 DEF Position
<1>5. AbsSpans' = <<>> /\ AbsSaved' = <<>>
  BY <1>1, EmptySpans DEF AbsSpans, AbsSaved
<1> QED BY <1>3, <1>4, <1>5, ArenaAssumption DEF Abs!Reset

LEMMA ReleaseRefines ==
  ASSUME ArenaInv, Release
  PROVE  Abs!Close
<1>1. chain # <<>> /\ chain' = <<>> /\ live' = <<>> /\ marks' = <<>>
  BY DEF Release
<1>2. AbsPos > 0
  BY <1>1, PositionType
<1>3. AbsPos' = 0 /\ AbsSpans' = <<>> /\ AbsSaved' = <<>>
  BY <1>1, EmptySpans DEF AbsPos, AbsSpans, AbsSaved
<1> QED BY <1>2, <1>3 DEF Abs!Close

(* Every behaviour of the arena is, seen through positions, a behaviour of  *)
(* the bump stack: pushes only append behind the cursor, a refused push     *)
(* takes nothing from anyone, and ending a scratch gives back exactly what  *)
(* was granted since it was begun.                                          *)
THEOREM ArenaIsABumpStack == Spec => ImplementsBumpStack
<1>1. Init => Abs!Closed
  <2> SUFFICES ASSUME Init PROVE Abs!Closed
    OBVIOUS
  <2>1. Len(live) = 0 /\ Len(marks) = 0 /\ chain = <<>>
    BY DEF Init
  <2> QED BY <2>1, EmptySpans DEF Abs!Closed, AbsPos, AbsSpans, AbsSaved
<1>2. ArenaInv /\ ArenaInv' /\ [Next]_vars => [Abs!Next]_(Abs!vars)
  <2> SUFFICES ASSUME ArenaInv, ArenaInv', [Next]_vars
               PROVE  Abs!Next \/ UNCHANGED Abs!vars
    OBVIOUS
  <2>1. CASE Alloc
    BY <2>1, AllocRefines DEF Abs!Next
  <2>2. ASSUME NEW size \in Sizes, NEW align \in Aligns,
               NEW maps \in BOOLEAN, NEW commits \in BOOLEAN,
               Push(size, align, maps, commits)
        PROVE  Abs!Next
    <3>1. /\ size \in Nat /\ align \in Nat \ {0} /\ chain # <<>> /\ marks' = marks
      BY <2>2, ArenaAssumption DEF Push
    <3>2. PICK c : /\ Good(c, mapped', live, marks) /\ c # <<>>
                   /\ PlaceOn(c, size, align, commits)
                   /\ \/ c = chain
                      \/ \E b \in Block : /\ c = Append(chain, b)
                                          /\ b.base = Top.base + Top.reserved
                                          /\ Hdr <= b.curr
      BY <2>2, PushPlaces
    <3>3. Abs!Grant \/ Abs!Refuse
      BY <3>1, <3>2, PushRefines
    <3> QED BY <3>3 DEF Abs!Next
  <2>3. ASSUME NEW size \in Sizes, NEW align \in Aligns,
               NEW commits \in BOOLEAN, PushContiguous(size, align, commits)
        PROVE  Abs!Next
    <3>1. /\ size \in Nat /\ align \in Nat \ {0} /\ chain # <<>> /\ marks' = marks
          /\ PlaceOn(chain, size, align, commits)
      BY <2>3, ArenaAssumption DEF PushContiguous
    <3>2. Good(chain, mapped', live, marks)
      BY <2>3 DEF PushContiguous, ArenaInv
    <3>3. Abs!Grant \/ Abs!Refuse
      BY <3>1, <3>2, PushRefines
    <3> QED BY <3>3 DEF Abs!Next
  <2>4. CASE ScrachNew
    BY <2>4, ScrachNewRefines DEF Abs!Next
  <2>5. CASE ScrachEnd
    <3>1. Abs!Rewound /\ marks # <<>> /\ marks' = SubSeq(marks, 1, Len(marks) - 1)
      BY <2>5, EndCuts, CutRefines DEF ScrachEnd, EndInnermost
    <3>2. AbsSaved' = SubSeq(AbsSaved, 1, Len(AbsSaved) - 1)
      BY <3>1, SavedFront
    <3> QED BY <3>1, <3>2 DEF Abs!Next, Abs!Rewind
  <2>6. CASE ScrachReuse
    <3>1. Abs!Rewound
      BY <2>6, EndCuts, CutRefines DEF ScrachReuse
    <3>2. AbsSaved' = AbsSaved
      BY <2>6 DEF ScrachReuse, AbsSaved
    <3> QED BY <3>1, <3>2 DEF Abs!Next, Abs!Reuse
  <2>7. CASE Clear
    BY <2>7, ClearRefines DEF Abs!Next
  <2>8. CASE Release
    BY <2>8, ReleaseRefines DEF Abs!Next
  <2>9. CASE UNCHANGED vars
    BY <2>9 DEF vars, Abs!vars, AbsPos, AbsSpans, AbsSaved, Position, Top
  <2> QED BY <2>1, <2>2, <2>3, <2>4, <2>5, <2>6, <2>7, <2>8, <2>9 DEF Next
<1> QED BY <1>1, <1>2, ArenaInvariant, PTL DEF Spec, ImplementsBumpStack, Abs!Spec
-----------------------------------------------------------------------------
(* The reasons a push can fail.                                             *)

(* A number rounded up to pages is page aligned.                            *)
LEMMA AlignedToPage ==
  ASSUME NEW x \in Nat
  PROVE  AlignPow2(x, Page) % Page = 0
<1>1. \A q \in Nat, b \in Nat \ {0} : (q * b) % b = 0
  BY Z3
<1>2. (x + Page - 1) \div Page \in Nat /\ Page \in Nat \ {0}
  BY ArenaAssumption, Z3
<1> QED BY <1>1, <1>2 DEF AlignPow2

(* A push that returns nothing ended at or behind the committed prefix.     *)
LEMMA RefusedAtPrefix ==
  ASSUME NEW c \in Seq(Block), c # <<>>, NEW size, NEW align, NEW commits,
         live \in Seq(Span), PlaceOn(c, size, align, commits), live' = live
  PROVE  LET n   == Len(c)
             end == PushEnd(c[n], size, align)
             has == CommitFor(c[n], end, commits)
         IN /\ chain' = [c EXCEPT ![n].commited = has]
            /\ ~ (has > end)
<1>1. \A x : Append(live, x) # live
  BY AppendProperties
<1> QED BY <1>1 DEF PlaceOn

(* A block the arena has just grown by is reserved beyond the end of the    *)
(* push it was made for, and committed in whole pages.                      *)
LEMMA GrowthIsEnough ==
  ASSUME ArenaInv, chain # <<>>, NEW id \in Blocks, NEW size \in Nat,
         NEW align \in Nat \ {0}
  PROVE  LET b   == GrowthBlock(id, size, align)
             end == PushEnd(b, size, align)
         IN /\ end < b.reserved /\ b.commited % Page = 0
            /\ b.granule \in Nat \ {0}
<1> DEFINE b    == GrowthBlock(id, size, align)
           need == PushEnd(Top, size, align) + Hdr
           base == Top.base + Top.reserved
<1>1. /\ Top \in Block /\ Hdr <= Top.curr /\ Top.curr \in Nat
      /\ Len(chain) \in 1 .. Len(chain)
  BY PositionType DEF ArenaInv, Good, Layered, Top, Block
<1>2. /\ Hdr \in Nat \ {0} /\ Page \in Nat \ {0}
      /\ Commit \in Nat \ {0} /\ Reserve \in Nat \ {0}
  BY ArenaAssumption
<1>3. PushEnd(Top, size, align) \in Nat /\ need \in Nat \ {0}
  <2>1. PushEnd(Top, size, align) \in Nat
    BY <1>1, PushEndAbove
  <2> QED BY <2>1, <1>2
<1>4. /\ b.curr = Hdr /\ b.commited % Page = 0 /\ b.granule \in Nat \ {0}
      /\ b.reserved \in Nat /\ need <= b.reserved
  <2>1. CASE need > Reserve
    <3>1. b = NewBlock(id, base, need, need)
      BY <2>1 DEF GrowthBlock
    <3> HIDE DEF b, need, base
    <3> QED BY <3>1, <1>2, <1>3, AlignUp, AlignedToPage DEF NewBlock
  <2>2. CASE ~ (need > Reserve)
    <3>1. b = NewBlock(id, base, Commit, Reserve)
      BY <2>2 DEF GrowthBlock
    <3>2. AlignPow2(Reserve, Page) \in Nat /\ AlignPow2(Reserve, Page) >= Reserve
      BY <1>2, AlignUp
    <3>3. AlignPow2(Commit, Page) % Page = 0
      BY <1>2, AlignedToPage
    <3> HIDE DEF b, need, base
    <3> QED BY <2>2, <3>1, <3>2, <3>3, <1>2, <1>3 DEF NewBlock
  <2> QED BY <2>1, <2>2
<1>5. /\ PushEnd(b, size, align) <= PushEnd(Top, size, align)
      /\ PushEnd(b, size, align) \in Nat
  <2>1. AlignPow2(Hdr, align) <= AlignPow2(Top.curr, align)
    BY <1>1, <1>2, AlignMonotone
  <2>2. AlignPow2(Hdr, align) \in Nat /\ AlignPow2(Top.curr, align) \in Nat
    BY <1>1, <1>2, AlignUp
  <2> HIDE DEF b
  <2> QED BY <2>1, <2>2, <1>4 DEF PushEnd
<1> HIDE DEF b
<1>6. PushEnd(b, size, align) < b.reserved
  BY <1>2, <1>3, <1>4, <1>5
<1> QED BY <1>4, <1>6 DEF b

(* When the OS refuses nothing, a push on a growing arena fails only by     *)
(* ending exactly at the committed prefix: the code compares with `>'.      *)
LEMMA PushRefusedExactly ==
  ASSUME ArenaInv, NEW size \in Sizes, NEW align \in Aligns,
         Push(size, align, TRUE, TRUE), live' = live
  PROVE  (PushEnd(Top, size, align))' = (Top.commited)'
<1>1. size \in Nat /\ align \in Nat \ {0} /\ chain # <<>>
  BY ArenaAssumption DEF Push
<1>2. chain \in Seq(Block) /\ live \in Seq(Span) /\ Top \in Block
  BY <1>1, PositionType DEF ArenaInv, Good, Typed
<1>3. PushEnd(Top, size, align) \in Nat /\ Top.commited \in Nat
  BY <1>1, <1>2, PushEndAbove DEF Block
<1>4. CASE ~ LeavesBlock(size, align)
  <2>1. PlaceOn(chain, size, align, TRUE)
    BY <1>4 DEF Push
  <2>2. ~ (CommitFor(Top, PushEnd(Top, size, align), TRUE)
             > PushEnd(Top, size, align))
    BY <2>1, <1>1, <1>2, RefusedAtPrefix DEF Top
  <2> QED BY <2>2, <1>3, <1>4 DEF LeavesBlock, CommitFor
<1>5. CASE LeavesBlock(size, align)
  <2>1. PICK id \in Blocks \ mapped :
          PlaceOn(Append(chain, GrowthBlock(id, size, align)), size, align, TRUE)
    BY <1>5 DEF Push
  <2> DEFINE b   == GrowthBlock(id, size, align)
             c   == Append(chain, b)
             end == PushEnd(b, size, align)
             has == CommitFor(b, end, TRUE)
  <2>2. b \in Block /\ b.commited <= b.reserved
    BY <1>1, GrowthBlockNests
  <2>3. end < b.reserved /\ b.commited % Page = 0 /\ b.granule \in Nat \ {0}
    BY <1>1, GrowthIsEnough
  <2>4. end \in Nat
    BY <2>2, <1>1, PushEndAbove
  <2> HIDE DEF b
  <2>5. /\ c \in Seq(Block) /\ c # <<>> /\ Len(c) \in 1 .. Len(c)
        /\ c[Len(c)] = b
    BY <1>2, <2>2
  <2>6. PlaceOn(c, size, align, TRUE)
    BY <2>1 DEF b
  <2> HIDE DEF c
  <2>7. /\ chain' = [c EXCEPT ![Len(c)].commited = has]
        /\ ~ (has > end)
    <3>1. /\ chain' = [c EXCEPT ![Len(c)].commited =
                         CommitFor(c[Len(c)], PushEnd(c[Len(c)], size, align), TRUE)]
          /\ ~ (CommitFor(c[Len(c)], PushEnd(c[Len(c)], size, align), TRUE)
                  > PushEnd(c[Len(c)], size, align))
      BY <2>5, <2>6, <1>2, RefusedAtPrefix
    <3> QED BY <3>1, <2>5
  <2>8. has = end
    <3>1. AlignPow2(end, b.granule) \in Nat /\ AlignPow2(end, b.granule) >= end
      BY <2>3, <2>4, AlignUp
    <3>2. b.commited \in Nat /\ b.reserved \in Nat
      BY <2>2 DEF Block
    <3> HIDE DEF end
    <3> QED BY <3>1, <3>2, <2>3, <2>4, <2>7 DEF has, CommitFor, Smaller
  <2>9. Top' = [b EXCEPT !.commited = has]
    <3> HIDE DEF has
    <3> QED BY <2>5, <2>7 DEF Top
  <2>10. (Top').curr = b.curr /\ (Top').commited = has
    <3> HIDE DEF has
    <3> QED BY <2>2, <2>9 DEF Block
  <2>11. (PushEnd(Top, size, align))' = AlignPow2(b.curr, align) + size
    BY <2>10 DEF PushEnd, AlignPow2
  <2> QED BY <2>8, <2>10, <2>11 DEF PushEnd
<1> QED BY <1>4, <1>5

(* Every push that fails although the OS refused nothing ended exactly at   *)
(* the committed prefix of the block it would have been placed in.          *)
THEOREM OnlyExactFitsAreRefused == Spec => OnlyExactFitsFail
<1>1. ArenaInv /\ [Next]_vars =>
        [\A size \in Sizes, align \in Aligns :
           Push(size, align, TRUE, TRUE) /\ live' = live =>
             (PushEnd(Top, size, align))' = (Top.commited)']_vars
  BY PushRefusedExactly
<1> QED BY <1>1, ArenaInvariant, PTL DEF Spec, OnlyExactFitsFail
=============================================================================
