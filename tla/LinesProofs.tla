----------------------------- MODULE LinesProofs -----------------------------
(* Proofs for the two that split a text into lines, Config and Request, for *)
(* all files and all requests of any length: the lines they make are those  *)
(* of the text, a file is read as it is written, the headers are those of   *)
(* the request, and what is asked for does not depend on how the network    *)
(* cuts it.                                                                 *)
EXTENDS Config, Request, LeastNumber, TLAPS

(* LowestOf gives the least element of a set of naturals that is not empty. *)
LEMMA LowestIs ==
  ASSUME NEW S \in SUBSET Nat, S # {}
  PROVE  LowestOf(S) \in S /\ \A y \in S : LowestOf(S) <= y
BY LeastExists DEF LowestOf

(* Positions in a text have a last one.                                     *)
LEMMA GreatestExists ==
  ASSUME NEW n \in Nat, NEW S \in SUBSET (1 .. n), S # {}
  PROVE  \E x \in S : \A y \in S : y <= x
<1> DEFINE T == {n - x : x \in S}
<1>0. \A x \in S : x \in Int /\ n - x \in Nat
  OBVIOUS
<1>1. T \in SUBSET Nat /\ T # {}
  BY <1>0
<1>2. PICK t \in T : \A u \in T : t <= u
  BY <1>1, LeastExists
<1>3. PICK x \in S : t = n - x
  BY <1>2
<1>4. ASSUME NEW y \in S
      PROVE  y <= x
  <2>1. n - y \in T
    OBVIOUS
  <2>2. t <= n - y
    BY <1>2, <2>1
  <2> QED BY <2>2, <1>0, <1>3
<1> QED BY <1>4
-----------------------------------------------------------------------------
(* The lines of a text.                                                     *)

(* The function that tells the second halves of pairs exists.               *)
LEMMA SecondExists ==
  ASSUME NEW n \in Nat, NEW H
  PROVE  \E s : s = [i \in 0 .. n |-> i > 0 /\ ~s[i - 1] /\ i \in H]
<1> DEFINE Is(s, m) == s = [i \in 0 .. m |-> i > 0 /\ ~s[i - 1] /\ i \in H]
           Without == {m \in Nat : ~ \E s : Is(s, m)}
<1> SUFFICES ASSUME Without # {} PROVE FALSE
  OBVIOUS
<1>1. PICK m \in Without : \A k \in Without : m <= k
  BY LeastExists
<1>2. m # 0
  <2> DEFINE z == [i \in 0 .. 0 |-> FALSE]
  <2>1. \A i \in 0 .. 0 : z[i] = (i > 0 /\ ~z[i - 1] /\ i \in H)
    <3>1. \A i \in 0 .. 0 : z[i] = FALSE /\ ~(i > 0)
      OBVIOUS
    <3> HIDE DEF z
    <3> QED BY <3>1
  <2>2. Is(z, 0)
    BY <2>1
  <2> QED BY <1>1, <2>2
<1>3. PICK s : Is(s, m - 1)
  BY <1>1, <1>2
<1> DEFINE g == [i \in 0 .. m |-> IF i = m THEN ~s[m - 1] /\ m \in H ELSE s[i]]
<1>4. \A i \in 0 .. m : g[i] = (i > 0 /\ ~g[i - 1] /\ i \in H)
  <2> TAKE i \in 0 .. m
  <2>1. CASE i = m
    BY <1>2, <2>1
  <2>2. CASE i # m
    <3>1. i \in 0 .. m - 1 /\ g[i] = s[i] /\ (i > 0 => g[i - 1] = s[i - 1])
      BY <2>2
    <3>2. s[i] = (i > 0 /\ ~s[i - 1] /\ i \in H)
      BY <1>3, <3>1
    <3> QED BY <3>1, <3>2
  <2> QED BY <2>1, <2>2
<1>5. Is(g, m)
  BY <1>4
<1> QED BY <1>1, <1>5

HalfAt(t) == {i \in 1 .. Len(t) : {IF i = 1 THEN CR ELSE t[i - 1], t[i]} = {CR, LF}}

LEMMA SecondIs ==
  ASSUME NEW t \in Seq(Signs), NEW i \in 0 .. Len(t)
  PROVE  Second(t)[i] <=> i > 0 /\ ~Second(t)[i - 1] /\ i \in HalfAt(t)
<1> DEFINE Half(j) == {IF j = 1 THEN CR ELSE t[j - 1], t[j]} = {CR, LF}
<1>0. Len(t) \in Nat /\ \A j \in 0 .. Len(t) : j > 0 => (j \in HalfAt(t) <=> Half(j))
  <2>1. \A j \in 1 .. Len(t) : j \in HalfAt(t) <=> Half(j)
    BY DEF HalfAt
  <2> HIDE DEF Half
  <2> QED BY <2>1
<1>1. PICK s : s = [j \in 0 .. Len(t) |-> j > 0 /\ ~s[j - 1] /\ j \in HalfAt(t)]
  <2> HIDE DEF Half
  <2> QED BY <1>0, SecondExists
<1>2. s = [j \in 0 .. Len(t) |-> j > 0 /\ ~s[j - 1] /\ Half(j)]
  <2> HIDE DEF Half
  <2>1. \A j \in 0 .. Len(t) : (j > 0 /\ ~s[j - 1] /\ j \in HalfAt(t)) = (j > 0 /\ ~s[j - 1] /\ Half(j))
    BY <1>0
  <2> QED BY <1>1, <2>1
<1>3. Second(t) = [j \in 0 .. Len(t) |-> j > 0 /\ ~Second(t)[j - 1] /\ Half(j)]
  BY <1>2 DEF Second
<1> HIDE DEF Half
<1>4. Second(t)[i] = (i > 0 /\ ~Second(t)[i - 1] /\ Half(i))
  BY <1>3
<1> QED BY <1>0, <1>4

(* The second half of a pair is behind a line end that is not itself one;   *)
(* the CR that is taken to be before the text is such an end.               *)
LEMMA LineEndsAre ==
  ASSUME NEW t \in Seq(Signs), NEW i \in 1 .. Len(t), t[i] \in {LF, CR}
  PROVE  i \notin LineEnds(t) <=> IF i = 1 THEN t[i] = LF
                                 ELSE i - 1 \in LineEnds(t) /\ Pair(t[i - 1], t[i])
<1>1. i \notin LineEnds(t) <=> Second(t)[i]
  BY DEF LineEnds
<1>2. Second(t)[i] <=> ~Second(t)[i - 1] /\ i \in HalfAt(t)
  BY SecondIs
<1>3. CASE i = 1
  <2>1. ~Second(t)[0]
    <3>1. 0 \in 0 .. Len(t)
      OBVIOUS
    <3> QED BY <3>1, SecondIs
  <2>2. i \in HalfAt(t) <=> t[i] = LF
    BY <1>3, LinesAssumption DEF HalfAt
  <2> QED BY <1>1, <1>2, <1>3, <2>1, <2>2
<1>4. CASE i # 1
  <2>1. i \in HalfAt(t) <=> Pair(t[i - 1], t[i])
    BY <1>4 DEF HalfAt, Pair
  <2>2. Pair(t[i - 1], t[i]) => t[i - 1] \in {LF, CR}
    BY DEF Pair
  <2>3. t[i - 1] \in {LF, CR} => (i - 1 \in LineEnds(t) <=> ~Second(t)[i - 1])
    BY <1>4 DEF LineEnds
  <2> QED BY <1>1, <1>2, <1>4, <2>1, <2>2, <2>3
<1> QED BY <1>3, <1>4

(* A line goes from behind the last LF or CR before its end.                *)
LEMMA LineOfIs ==
  ASSUME NEW t \in Seq(Signs), NEW e \in 1 .. Len(t)
  PROVE  /\ LineOf(t, e) = [from |-> LineOf(t, e).from, to |-> e]
         /\ LineOf(t, e).from \in 1 .. e
         /\ LineOf(t, e).from > 1 => t[LineOf(t, e).from - 1] \in {LF, CR}
         /\ \A i \in LineOf(t, e).from .. e - 1 : t[i] \notin {LF, CR}
<1> DEFINE before == {i \in 1 .. e - 1 : t[i] \in {LF, CR}}
           last   == CHOOSE i \in before : \A j \in before : j <= i
<1>1. LineOf(t, e) = [from |-> IF before = {} THEN 1 ELSE 1 + last, to |-> e]
  BY DEF LineOf
<1>2. CASE before = {}
  BY <1>1, <1>2
<1>3. CASE before # {}
  <2>1. before \in SUBSET (1 .. e - 1) /\ e - 1 \in Nat
    OBVIOUS
  <2>2. \E i \in before : \A j \in before : j <= i
    <3> HIDE DEF before
    <3> QED BY <1>3, <2>1, GreatestExists
  <2>3. last \in before /\ \A j \in before : j <= last
    BY <2>2
  <2> HIDE DEF last
  <2>4. LineOf(t, e).from = 1 + last /\ LineOf(t, e).to = e /\ last \in 1 .. e - 1 /\ t[last] \in {LF, CR}
    BY <1>1, <1>3, <2>3
  <2>5. \A i \in 1 + last .. e - 1 : t[i] \notin {LF, CR}
    BY <2>3, <2>4
  <2> QED BY <1>1, <1>3, <2>4, <2>5
<1> QED BY <1>2, <1>3

(* Where splitting stands: at the start, or behind a line end of which no   *)
(* half is left.                                                            *)
Placed(t, r, mark) ==
  /\ r \in 1 .. Len(t) + 1 /\ mark \in {LF, CR, Unset}
  /\ \/ r = 1 /\ mark = CR
     \/ /\ r > 1 /\ t[r - 1] \in {LF, CR}
        /\ r <= Len(t) /\ t[r] \in {LF, CR} => r \in LineEnds(t) /\ ~Pair(mark, t[r])

(* One round of str_split_line finds the next line of the text, or there is *)
(* none.                                                                    *)
LEMMA NextLineIs ==
  ASSUME NEW t \in Seq(Signs), NEW r, NEW mark, Placed(t, r, mark)
  PROVE  LET l == NextLine(t, r, mark)
         IN IF l = Unset THEN \A e \in LineEnds(t) : e < r
            ELSE /\ l.to \in LineEnds(t) /\ r <= l.to
                 /\ \A e \in LineEnds(t) : e < l.rest <=> e < r \/ e = l.to
                 /\ [from |-> l.from, to |-> l.to] = LineOf(t, l.to)
                 /\ Placed(t, l.rest, l.end)
<1> DEFINE from == From(t, r, mark)
           e    == LowestOf(Ends(t, from))
<1>0. r \in 1 .. Len(t) + 1 /\ Len(t) \in Nat
  BY DEF Placed
<1>1. /\ from \in r .. r + 1 /\ from <= Len(t) + 1
      /\ from > 1 => t[from - 1] \in {LF, CR}
      /\ from # r => r = 1 /\ t[1] = LF /\ r <= Len(t)
      /\ from <= Len(t) /\ t[from] \in {LF, CR} => from \in LineEnds(t)
  <2>1. CASE r = 1 /\ mark = CR
    <3>1. from = IF 1 <= Len(t) /\ t[1] = LF THEN 2 ELSE 1
      BY <2>1, LinesAssumption DEF From, Pair
    <3>2. CASE 1 <= Len(t) /\ t[1] = LF
      <4>1. from = 2 /\ 1 \in 1 .. Len(t)
        BY <3>1, <3>2
      <4>2. 1 \notin LineEnds(t)
        BY <3>2, <4>1, LineEndsAre
      <4>3. 2 <= Len(t) /\ t[2] \in {LF, CR} => 2 \in LineEnds(t)
        BY <1>0, <4>2, LineEndsAre
      <4> QED BY <1>0, <2>1, <3>2, <4>1, <4>3
    <3>3. CASE ~(1 <= Len(t) /\ t[1] = LF)
      <4>1. from = 1
        BY <3>1, <3>3
      <4>2. 1 <= Len(t) /\ t[1] \in {LF, CR} => 1 \in LineEnds(t)
        BY <1>0, <3>3, LineEndsAre
      <4> QED BY <1>0, <2>1, <4>1, <4>2
    <3> QED BY <3>2, <3>3
  <2>2. CASE ~(r = 1 /\ mark = CR)
    <3>1. from = r
      BY <2>2, <1>0 DEF From, Placed, Pair
    <3> QED BY <1>0, <2>2, <3>1 DEF Placed
  <2> QED BY <2>1, <2>2
<1> HIDE DEF from
<1>2. \A i \in LineEnds(t) : i >= r => i \in Ends(t, from)
  <2> TAKE i \in LineEnds(t)
  <2> HAVE i >= r
  <2>1. i \in 1 .. Len(t) /\ t[i] \in {LF, CR}
    BY DEF LineEnds
  <2>2. i >= from
    <3>1. CASE i = r /\ from # r
      BY <1>1, <2>1, <3>1, LineEndsAre
    <3>2. CASE ~(i = r /\ from # r)
      BY <1>0, <1>1, <2>1, <3>2
    <3> QED BY <3>1, <3>2
  <2> QED BY <1>1, <2>1, <2>2 DEF Ends
<1>3. NextLine(t, r, mark) = IF Ends(t, from) = {} THEN Unset
        ELSE [from |-> from, to |-> e, rest |-> Behind(t, e), end |-> Kept(t, e)]
  BY DEF NextLine, from
<1>4. CASE Ends(t, from) = {}
  <2>1. \A i \in LineEnds(t) : i < r
    BY <1>0, <1>2, <1>4 DEF LineEnds
  <2> QED BY <1>3, <1>4, <2>1
<1>5. CASE Ends(t, from) # {}
  <2>1. e \in Ends(t, from) /\ \A i \in Ends(t, from) : e <= i
    <3>1. Ends(t, from) \in SUBSET Nat
      BY <1>0, <1>1 DEF Ends
    <3> QED BY <1>5, <3>1, LowestIs
  <2> HIDE DEF e
  <2>2. e \in from .. Len(t) /\ e \in 1 .. Len(t) /\ t[e] \in {LF, CR}
    BY <1>0, <1>1, <2>1 DEF Ends
  <2>3. \A i \in from .. e - 1 : t[i] \notin {LF, CR}
    BY <1>0, <1>1, <2>1, <2>2 DEF Ends
  <2>4. e \in LineEnds(t)
    <3>1. CASE e = from
      BY <1>1, <2>2, <3>1
    <3>2. CASE e # from
      <4>1. t[e - 1] \notin {LF, CR} /\ e # 1
        BY <1>0, <1>1, <2>2, <2>3, <3>2
      <4>2. ~Pair(t[e - 1], t[e])
        BY <4>1 DEF Pair
      <4> QED BY <2>2, <4>1, <4>2, LineEndsAre
    <3> QED BY <3>1, <3>2
  <2>5. LineOf(t, e) = [from |-> from, to |-> e]
    <3>1. LineOf(t, e).from = from
      <4> DEFINE f == LineOf(t, e).from
      <4>1. /\ f \in 1 .. e /\ (f > 1 => t[f - 1] \in {LF, CR})
            /\ \A i \in f .. e - 1 : t[i] \notin {LF, CR}
        BY <2>2, LineOfIs
      <4>2. from \in 1 .. e
        BY <1>0, <1>1, <2>2
      <4> HIDE DEF f
      <4>3. ~(f < from)
        <5> SUFFICES ASSUME f < from PROVE FALSE
          OBVIOUS
        <5>1. from - 1 \in f .. e - 1
          BY <1>0, <2>2, <4>1, <4>2
        <5> QED BY <1>1, <4>1, <4>2, <5>1
      <4>4. ~(from < f)
        <5> SUFFICES ASSUME from < f PROVE FALSE
          OBVIOUS
        <5>1. f - 1 \in from .. e - 1
          BY <1>0, <2>2, <4>1, <4>2
        <5> QED BY <2>3, <4>1, <4>2, <5>1
      <4> QED BY <4>1, <4>2, <4>3, <4>4 DEF f
    <3> QED BY <2>2, <3>1, LineOfIs
  <2>6. Paired(t, e) => e + 1 \in 1 .. Len(t) /\ t[e + 1] \in {LF, CR} /\ e + 1 \notin LineEnds(t)
    <3> SUFFICES ASSUME Paired(t, e)
                 PROVE  e + 1 \in 1 .. Len(t) /\ t[e + 1] \in {LF, CR} /\ e + 1 \notin LineEnds(t)
      OBVIOUS
    <3>1. e + 1 \in 1 .. Len(t) /\ Pair(t[e], t[e + 1])
      BY <2>2 DEF Paired
    <3>2. t[e + 1] \in {LF, CR}
      BY <3>1 DEF Pair
    <3>3. e + 1 # 1 /\ (e + 1) - 1 = e
      BY <2>2
    <3> QED BY <2>4, <3>1, <3>2, <3>3, LineEndsAre
  <2>7. Placed(t, Behind(t, e), Kept(t, e))
    <3>1. CASE Paired(t, e)
      <4>1. Behind(t, e) = e + 2 /\ Kept(t, e) = Unset
        BY <3>1 DEF Behind, Kept
      <4>2. e + 2 <= Len(t) /\ t[e + 2] \in {LF, CR} => e + 2 \in LineEnds(t)
        <5>1. (e + 2) - 1 = e + 1 /\ e + 2 # 1
          BY <2>2
        <5> QED BY <2>2, <2>6, <3>1, <5>1, LineEndsAre
      <4>3. \A x : ~Pair(Unset, x)
        BY LinesAssumption DEF Pair
      <4>4. e + 2 \in 1 .. Len(t) + 1 /\ e + 2 > 1 /\ (e + 2) - 1 = e + 1
        BY <2>2, <2>6, <3>1
      <4> QED BY <2>6, <3>1, <4>1, <4>2, <4>3, <4>4 DEF Placed
    <3>2. CASE ~Paired(t, e)
      <4>1. Behind(t, e) = e + 1 /\ Kept(t, e) = t[e]
        BY <3>2 DEF Behind, Kept
      <4>2. e + 1 <= Len(t) => ~Pair(t[e], t[e + 1])
        BY <2>2, <3>2 DEF Paired
      <4>3. e + 1 <= Len(t) /\ t[e + 1] \in {LF, CR} => e + 1 \in LineEnds(t)
        <5>1. (e + 1) - 1 = e /\ e + 1 # 1
          BY <2>2
        <5> QED BY <2>2, <4>2, <5>1, LineEndsAre
      <4>4. e + 1 \in 1 .. Len(t) + 1 /\ e + 1 > 1 /\ (e + 1) - 1 = e
        BY <2>2
      <4> QED BY <2>2, <4>1, <4>2, <4>3, <4>4 DEF Placed
    <3> QED BY <3>1, <3>2
  <2>8. \A i \in LineEnds(t) : i < Behind(t, e) <=> i < r \/ i = e
    <3> TAKE i \in LineEnds(t)
    <3>1. i \in 1 .. Len(t)
      BY DEF LineEnds
    <3>2. i >= r => i >= e
      BY <1>2, <2>1
    <3>3. r <= e
      BY <1>0, <1>1, <2>2
    <3>4. Behind(t, e) = e + 1 \/ (Behind(t, e) = e + 2 /\ i # e + 1)
      BY <2>6 DEF Behind
    <3> QED BY <1>0, <2>2, <3>1, <3>2, <3>3, <3>4
  <2>9. r <= e
    BY <1>0, <1>1, <2>2
  <2>10. [from |-> from, to |-> e, rest |-> Behind(t, e), end |-> Kept(t, e)] # Unset
    <3>1. Kept(t, e) \in {LF, CR, Unset} /\ Behind(t, e) \in Nat /\ from \in Nat /\ e \in Nat
      BY <1>0, <1>1, <2>2 DEF Kept, Behind
    <3> QED BY <3>1, LinesAssumption
  <2> DEFINE l == NextLine(t, r, mark)
  <2>11. l # Unset /\ l.from = from /\ l.to = e /\ l.rest = Behind(t, e) /\ l.end = Kept(t, e)
    BY <1>3, <1>5, <2>10
  <2> HIDE DEF l
  <2> QED BY <2>4, <2>5, <2>7, <2>8, <2>9, <2>11 DEF l
<1> QED BY <1>4, <1>5
-----------------------------------------------------------------------------
(* The lines of a file.                                                     *)

LEMMA FileLineIs ==
  ASSUME text \in Seq(Signs), NEW l \in FileLines
  PROVE  /\ l \in Slices /\ l = LineOf(text, l.to)
         /\ l.to \in LineEnds(text) /\ l.to \in 1 .. Len(text) /\ text[l.to] \in {LF, CR}
         /\ \A i \in l.from .. l.to - 1 : text[i] \notin {LF, CR}
<1>1. PICK e \in LineEnds(text) : l = LineOf(text, e)
  BY DEF FileLines
<1>2. e \in 1 .. Len(text) /\ text[e] \in {LF, CR}
  BY DEF LineEnds
<1>3. l.to = e
  BY <1>1, <1>2, LineOfIs
<1>4. l.from \in 1 .. e /\ l = [from |-> l.from, to |-> e]
  BY <1>1, <1>2, LineOfIs
<1>5. \A i \in l.from .. e - 1 : text[i] \notin {LF, CR}
  BY <1>1, <1>2, LineOfIs
<1>6. l \in Slices
  <2>1. l.from \in 1 .. Len(text) + 1 /\ e \in 1 .. Len(text) + 1 /\ l.from <= e
    BY <1>2, <1>4
  <2>2. l \in [from : 1 .. Len(text) + 1, to : 1 .. Len(text) + 1]
    BY <1>4, <2>1
  <2> QED BY <1>3, <2>1, <2>2 DEF Slices
<1> QED BY <1>1, <1>2, <1>3, <1>5, <1>6

(* Of two lines, one ends before the other begins.                          *)
LEMMA LinesApart ==
  ASSUME text \in Seq(Signs), NEW l \in FileLines, NEW m \in FileLines
  PROVE  /\ l.to = m.to => l = m
         /\ l.to < m.to => l.to < m.from
<1>1. l.to = m.to => l = m
  BY FileLineIs
<1>2. ASSUME l.to < m.to PROVE l.to < m.from
  <2>1. l.to \in Nat /\ m.to \in Nat /\ m.from \in Nat
    BY FileLineIs DEF Slices
  <2>2. ~(l.to \in m.from .. m.to - 1)
    BY FileLineIs
  <2> QED BY <1>2, <2>1, <2>2
<1> QED BY <1>1, <1>2

(* Every line has the text of one that is the first with its text.          *)
LEMMA FirstWithText ==
  ASSUME text \in Seq(Signs), NEW l \in FileLines
  PROVE  \E k \in FirstLines : k.to <= l.to /\ Chars(k) = Chars(l)
<1> DEFINE S == {k \in FileLines : Chars(k) = Chars(l)}
           T == {k.to : k \in S}
<1>1. T \in SUBSET Nat /\ T # {}
  BY FileLineIs
<1>2. PICK n \in T : \A x \in T : n <= x
  <2> HIDE DEF T
  <2> QED BY <1>1, LeastExists
<1>3. PICK k \in S : k.to = n
  OBVIOUS
<1>4. \A x \in S : k.to <= x.to
  BY <1>2, <1>3
<1>5. ASSUME NEW x \in FileLines, x.to < k.to PROVE Chars(x) # Chars(k)
  <2>1. k.to \in Nat /\ x.to \in Nat
    BY FileLineIs
  <2> QED BY <1>3, <1>4, <1>5, <2>1
<1>6. k \in FirstLines
  BY <1>5 DEF FirstLines
<1> QED BY <1>4, <1>6
-----------------------------------------------------------------------------
(* The inductive invariant for the configuration.                           *)

\* A slice of the file that a line end follows somewhere.
Inside(s) == s \in Slices /\ \E e \in s.from .. Len(text) : text[e] \in {LF, CR}

\* What was made of the text so far are the lines that end before the rest.
Listed ==
  /\ Placed(text, rest, end)
  /\ \A i \in DOMAIN lines : lines[i] \in FirstLines
  /\ {lines[i] : i \in DOMAIN lines} = {l \in FirstLines : l.to < rest}
  /\ \A i, j \in DOMAIN lines : i < j => lines[i].to < lines[j].to
  /\ pc = "open" => rest = 1
  /\ pc \in {"parse", "folders", "crashed"} => \A e \in LineEnds(text) : e < rest
  /\ pc = "done" /\ lines # <<>> => \A e \in LineEnds(text) : e < rest

Typed ==
  /\ text \in Texts
  /\ pc \in {"open", "split", "parse", "folders", "done", "crashed"}
  /\ lines \in Seq(Slices)
  /\ next \in 1 .. Len(lines) + 1
  /\ value = Unset \/ Inside(value)
  /\ DOMAIN conf = Keys /\ conf = [k \in Keys |-> conf[k]]
  /\ \A k \in Keys : conf[k] = Unset \/ Inside(conf[k])
  /\ throttle \in {"zero", "garbage"}
  /\ DOMAIN opened = FolderKeys \cup LogKeys

\* The values that the lines read so far give a key.
GivenYet(k) ==
  {ReadWith(l) : l \in {m \in {lines[i] : i \in 1 .. next - 1} : ~IsComment(m) /\ Chars(KeyOf(m)) = <<k>>}}
FilledYet(k) == {v \in GivenYet(k) : Chars(v) # <<>>}

\* What a key has by then.
HasYet(k) ==
  /\ GivenYet(k) = {} => conf[k] = Unset
  /\ k \in PlacesKeys /\ FilledYet(k) # {} =>
       conf[k] \in FilledYet(k) /\ \A v \in FilledYet(k) : conf[k].to <= v.to
  /\ GivenYet(k) # {} /\ ~(k \in PlacesKeys /\ FilledYet(k) # {}) =>
       conf[k] \in GivenYet(k) /\ \A v \in GivenYet(k) : v.to <= conf[k].to

\* The lines read so far that have a value, and what is left of the last one.
SourcesYet == {m \in {lines[i] : i \in 1 .. next - 1} : ~IsComment(m) /\ Equals(m) # {}}
LeftOver   == value = IF SourcesYet = {} THEN Unset ELSE ValueOf(Last(SourcesYet))

Parsed ==
  /\ pc \in {"open", "split"} => next = 1 /\ value = Unset /\ conf = [k \in Keys |-> Unset]
  /\ pc # "crashed" => LeftOver /\ \A k \in Keys : HasYet(k)
  /\ pc \in {"folders", "done"} /\ lines # <<>> => next = Len(lines) + 1

\* A folder that the file names is not opened: behind its name the line goes
\* on to its end, and the system is given all of that for a path.
NamedFoldersStayClosed ==
  pc = "done" => \A k \in FolderKeys : conf[k] # Unset => opened[k] = Unset

ConfigInv == Typed /\ Listed /\ Parsed /\ NamedFoldersStayClosed

LEMMA ConfigText == ASSUME text \in Texts PROVE text \in Seq(Signs)
BY ConfigAssumption

(* What is said of the text stays true while the text stays.                *)
LEMMA SameText ==
  ASSUME text' = text
  PROVE  /\ FileLines' = FileLines /\ FirstLines' = FirstLines /\ Slices' = Slices
         /\ \A s : Chars(s)' = Chars(s) /\ (Inside(s)' <=> Inside(s))
         /\ \A l : (IsComment(l)' <=> IsComment(l)) /\ Equals(l)' = Equals(l)
         /\ \A l : KeyOf(l)' = KeyOf(l) /\ ValueOf(l)' = ValueOf(l)
         /\ \A l : Sources(l)' = Sources(l) /\ ReadWith(l)' = ReadWith(l)
<1>1. FileLines' = FileLines
  BY DEF FileLines
<1>2. \A s : Chars(s)' = Chars(s)
  BY DEF Chars
<1>3. FirstLines' = FirstLines
  BY <1>1, <1>2 DEF FirstLines
<1>4. Slices' = Slices
  BY DEF Slices
<1>5. \A s : Inside(s)' <=> Inside(s)
  BY <1>4 DEF Inside
<1>6. \A l : (IsComment(l)' <=> IsComment(l)) /\ Equals(l)' = Equals(l)
  BY DEF IsComment, Equals
<1>7. \A l : KeyOf(l)' = KeyOf(l) /\ ValueOf(l)' = ValueOf(l)
  BY <1>6 DEF KeyOf, ValueOf
<1>8. \A l : Sources(l)' = Sources(l)
  BY <1>3, <1>6 DEF Sources
<1>9. \A l : ReadWith(l)' = ReadWith(l)
  BY <1>7, <1>8 DEF ReadWith
<1> QED BY <1>1, <1>2, <1>3, <1>4, <1>5, <1>6, <1>7, <1>8, <1>9

LEMMA ConfigStarts == ASSUME ConfigInit PROVE ConfigInv
<1>1. text \in Seq(Signs)
  BY ConfigText DEF ConfigInit
<1>2. Typed
  BY <1>1 DEF ConfigInit, Typed
<1>3. Listed
  <2>1. Placed(text, rest, end)
    BY <1>1 DEF ConfigInit, Placed
  <2>2. {l \in FirstLines : l.to < rest} = {}
    <3>1. \A l \in FirstLines : l.to \in 1 .. Len(text)
      BY <1>1, FileLineIs DEF FirstLines
    <3> QED BY <3>1 DEF ConfigInit
  <2>3. {lines[i] : i \in DOMAIN lines} = {} /\ DOMAIN lines = {}
    BY DEF ConfigInit
  <2> QED BY <2>1, <2>2, <2>3 DEF ConfigInit, Listed
<1>4. Parsed
  <2>1. \A k \in Keys : GivenYet(k) = {}
    BY DEF ConfigInit, GivenYet
  <2>2. \A k \in Keys : HasYet(k)
    BY <2>1 DEF ConfigInit, HasYet, FilledYet
  <2>3. LeftOver
    BY DEF ConfigInit, LeftOver, SourcesYet
  <2> QED BY <2>2, <2>3 DEF ConfigInit, Parsed
<1>5. NamedFoldersStayClosed
  BY DEF ConfigInit, NamedFoldersStayClosed
<1> QED BY <1>2, <1>3, <1>4, <1>5 DEF ConfigInv

(* The keys have what they had as long as no line is read.                  *)
LEMMA SameKeys ==
  ASSUME ConfigInv, text' = text, next' = next, conf' = conf, value' = value,
         \A i \in 1 .. next - 1 : lines'[i] = lines[i]
  PROVE  /\ \A k \in Keys : HasYet(k) => HasYet(k)'
         /\ LeftOver => LeftOver'
<1>1. {lines'[i] : i \in 1 .. next' - 1} = {lines[i] : i \in 1 .. next - 1}
  OBVIOUS
<1>2. \A k : GivenYet(k)' = GivenYet(k)
  BY <1>1, SameText DEF GivenYet
<1>3. \A k : FilledYet(k)' = FilledYet(k)
  BY <1>2, SameText DEF FilledYet
<1>4. SourcesYet' = SourcesYet
  BY <1>1, SameText DEF SourcesYet
<1>5. ASSUME LeftOver PROVE LeftOver'
  BY <1>4, <1>5, SameText DEF LeftOver, Last
<1> QED BY <1>2, <1>3, <1>5 DEF HasYet

LEMMA OpenKeeps == ASSUME ConfigInv, Open PROVE ConfigInv'
<1>1. /\ pc = "open" /\ pc' \in {"split", "done"} /\ text' = text
      /\ UNCHANGED <<rest, end, lines, next, value, conf, throttle, opened>>
  BY DEF Open
<1>2. lines = <<>>
  <2>1. {lines[i] : i \in DOMAIN lines} = {l \in FirstLines : l.to < 1} /\ lines \in Seq(Slices)
    BY <1>1 DEF ConfigInv, Listed, Typed
  <2>2. \A l \in FirstLines : l.to \in 1 .. Len(text)
    BY ConfigText, FileLineIs DEF FirstLines, ConfigInv, Typed
  <2>3. {lines[i] : i \in DOMAIN lines} = {}
    BY <2>1, <2>2
  <2> QED BY <2>1, <2>3
<1>3. Typed'
  BY <1>1, SameText DEF ConfigInv, Typed
<1>4. Listed'
  BY <1>1, <1>2, SameText DEF ConfigInv, Listed
<1>5. Parsed'
  BY <1>1, <1>2, SameKeys, SameText DEF ConfigInv, Parsed
<1>6. NamedFoldersStayClosed'
  BY <1>1 DEF ConfigInv, Parsed, NamedFoldersStayClosed, Keys
<1> QED BY <1>3, <1>4, <1>5, <1>6 DEF ConfigInv

(* A line that is found is the next of the first lines with their text, or  *)
(* its text is in the list.                                                 *)
LEMMA FoundLine ==
  ASSUME Typed, Listed, NEW line, NextLine(text, rest, end) # Unset,
         line = [from |-> NextLine(text, rest, end).from, to |-> NextLine(text, rest, end).to]
  PROVE  LET more == NextLine(text, rest, end).rest
         IN /\ line \in FileLines /\ \A i \in DOMAIN lines : lines[i].to < line.to
            /\ line \in FirstLines <=> ~ \E i \in DOMAIN lines : Chars(lines[i]) = Chars(line)
            /\ {l \in FirstLines : l.to < more} = {l \in FirstLines : l.to < rest} \cup ({line} \cap FirstLines)
<1> DEFINE l == NextLine(text, rest, end)
<1>1. text \in Seq(Signs)
  BY ConfigText DEF Typed
<1>2. /\ l.to \in LineEnds(text) /\ rest <= l.to
      /\ \A e \in LineEnds(text) : e < l.rest <=> e < rest \/ e = l.to
      /\ line = LineOf(text, l.to) /\ Placed(text, l.rest, l.end)
  BY <1>1, NextLineIs DEF Listed
<1> HIDE DEF l
<1>3. line \in FileLines
  BY <1>2 DEF FileLines
<1>4. line.to = l.to
  BY <1>1, <1>2, LineOfIs DEF LineEnds
<1>5. \A x \in FirstLines : x \in FileLines /\ x.to \in LineEnds(text) /\ x.to \in Nat /\ (x.to = l.to => x = line)
  BY <1>1, <1>3, <1>4, FileLineIs, LinesApart DEF FirstLines
<1>6. rest \in Nat /\ l.to \in Nat /\ l.rest \in Nat
  BY <1>2 DEF Listed, Placed, LineEnds
<1>7. \A i \in DOMAIN lines : lines[i] \in FirstLines /\ lines[i].to < rest
  BY DEF Listed
<1>8. \A i \in DOMAIN lines : lines[i].to < line.to
  BY <1>2, <1>4, <1>5, <1>6, <1>7
<1>9. line \in FirstLines <=> ~ \E i \in DOMAIN lines : Chars(lines[i]) = Chars(line)
  <2>1. ASSUME line \in FirstLines, NEW i \in DOMAIN lines
        PROVE  Chars(lines[i]) # Chars(line)
    BY <1>5, <1>7, <1>8, <2>1 DEF FirstLines
  <2>2. ASSUME line \notin FirstLines
        PROVE  \E i \in DOMAIN lines : Chars(lines[i]) = Chars(line)
    <3>1. PICK k \in FirstLines : k.to <= line.to /\ Chars(k) = Chars(line)
      BY <1>1, <1>3, FirstWithText
    <3>2. k.to < rest
      <4>1. k.to \in LineEnds(text) /\ k.to \in Nat /\ k.to # l.to
        BY <1>5, <2>2, <3>1
      <4>2. k.to < l.to /\ l.to < l.rest
        BY <1>2, <1>4, <1>6, <3>1, <4>1
      <4> QED BY <1>2, <1>6, <4>1, <4>2
    <3>3. k \in {lines[i] : i \in DOMAIN lines}
      BY <3>2 DEF Listed
    <3> QED BY <3>1, <3>3
  <2> QED BY <2>1, <2>2
<1>10. {x \in FirstLines : x.to < l.rest} = {x \in FirstLines : x.to < rest} \cup ({line} \cap FirstLines)
  BY <1>2, <1>4, <1>5
<1> QED BY <1>3, <1>8, <1>9, <1>10 DEF l

LEMMA BuildLinesKeeps == ASSUME ConfigInv, BuildLines PROVE ConfigInv'
<1>1. /\ pc = "split" /\ text' = text
      /\ UNCHANGED <<next, value, conf, throttle, opened>>
  BY DEF BuildLines
<1>2. text \in Seq(Signs) /\ Placed(text, rest, end) /\ lines \in Seq(Slices) /\ next = 1
  BY <1>1, ConfigText DEF ConfigInv, Typed, Listed, Parsed
<1>3. NamedFoldersStayClosed' /\ pc' \in {"split", "parse"}
  BY <1>1 DEF NamedFoldersStayClosed, BuildLines
<1>4. CASE NextLine(text, rest, end) = Unset
  <2>1. pc' = "parse" /\ UNCHANGED <<rest, end, lines>>
    BY <1>4 DEF BuildLines
  <2>2. \A e \in LineEnds(text) : e < rest
    BY <1>2, <1>4, NextLineIs
  <2>3. Typed'
    BY <1>1, <2>1, SameText DEF ConfigInv, Typed
  <2>4. Listed'
    BY <1>1, <2>1, <2>2, SameText DEF ConfigInv, Listed
  <2>5. Parsed'
    BY <1>1, <2>1, SameText, SameKeys DEF ConfigInv, Parsed
  <2> QED BY <1>3, <2>3, <2>4, <2>5 DEF ConfigInv
<1>5. CASE NextLine(text, rest, end) # Unset
  <2> DEFINE l    == NextLine(text, rest, end)
             line == [from |-> l.from, to |-> l.to]
  <2>1. pc' = "split" /\ lines' = WithLine(lines, line) /\ rest' = l.rest /\ end' = l.end
    BY <1>1, <1>5 DEF BuildLines
  <2>2. Placed(text, l.rest, l.end)
    BY <1>2, <1>5, NextLineIs
  <2>3. /\ line \in FileLines /\ \A i \in DOMAIN lines : lines[i].to < line.to
        /\ line \in FirstLines <=> ~ \E i \in DOMAIN lines : Chars(lines[i]) = Chars(line)
        /\ {x \in FirstLines : x.to < l.rest} = {x \in FirstLines : x.to < rest} \cup ({line} \cap FirstLines)
    BY <1>5, FoundLine DEF ConfigInv
  <2> HIDE DEF l, line
  <2>4. line \in Slices
    BY <1>2, <2>3, FileLineIs
  <2>5. lines' = IF line \in FirstLines THEN Append(lines, line) ELSE lines
    BY <2>1, <2>3 DEF WithLine
  <2>6. Placed(text, rest, end)'
    BY <1>1, <2>1, <2>2
  <2>7. CASE line \notin FirstLines
    <3>1. lines' = lines /\ {x \in FirstLines : x.to < rest'} = {x \in FirstLines : x.to < rest}
      BY <2>1, <2>3, <2>5, <2>7
    <3>2. Typed'
      BY <1>1, <1>3, <3>1, SameText DEF ConfigInv, Typed
    <3>3. Listed'
      BY <1>1, <2>1, <2>6, <3>1, SameText DEF ConfigInv, Listed
    <3>4. Parsed'
      BY <1>1, <2>1, <3>1, SameText, SameKeys DEF ConfigInv, Parsed
    <3> QED BY <1>3, <3>2, <3>3, <3>4 DEF ConfigInv
  <2>8. CASE line \in FirstLines
    <3>1. /\ lines' \in Seq(Slices) /\ Len(lines') = Len(lines) + 1
          /\ DOMAIN lines' = 1 .. Len(lines) + 1 /\ DOMAIN lines = 1 .. Len(lines) /\ Len(lines) \in Nat
          /\ \A i \in DOMAIN lines : lines'[i] = lines[i]
          /\ lines'[Len(lines) + 1] = line
      BY <1>2, <2>4, <2>5, <2>8
    <3>2. {lines'[i] : i \in DOMAIN lines'} = {lines[i] : i \in DOMAIN lines} \cup {line}
      BY <3>1
    <3>3. {x \in FirstLines : x.to < rest'} = {x \in FirstLines : x.to < rest} \cup {line}
      BY <2>1, <2>3, <2>8
    <3>4. Typed'
      BY <1>1, <1>2, <1>3, <3>1, SameText DEF ConfigInv, Typed
    <3>5. Listed'
      <4>1. \A i \in DOMAIN lines' : lines'[i] \in FirstLines
        BY <2>8, <3>1 DEF ConfigInv, Listed
      <4>2. \A i, j \in DOMAIN lines' : i < j => lines'[i].to < lines'[j].to
        BY <2>3, <3>1 DEF ConfigInv, Listed
      <4>3. {lines'[i] : i \in DOMAIN lines'} = {x \in FirstLines : x.to < rest'}
        BY <3>2, <3>3 DEF ConfigInv, Listed
      <4> QED BY <1>1, <2>1, <2>6, <4>1, <4>2, <4>3, SameText DEF Listed
    <3>6. Parsed'
      <4>1. (\A k \in Keys : HasYet(k) => HasYet(k)') /\ (LeftOver => LeftOver')
        BY <1>1, <1>2, <3>1, SameKeys
      <4> QED BY <1>1, <2>1, <4>1, SameText DEF ConfigInv, Parsed
    <3> QED BY <1>3, <3>4, <3>5, <3>6 DEF ConfigInv
  <2> QED BY <2>7, <2>8
<1> QED BY <1>4, <1>5

(* The value of a line is a part of it, behind its first character.         *)
LEMMA ValueIs ==
  ASSUME text \in Seq(Signs), NEW l \in FileLines, Equals(l) # {}
  PROVE  /\ Inside(ValueOf(l)) /\ ValueOf(l) # Unset
         /\ l.from < ValueOf(l).from /\ ValueOf(l).from <= ValueOf(l).to /\ ValueOf(l).to <= l.to
<1> DEFINE first == LowestOf(Equals(l))
           more  == Equals(l) \ {first}
           last  == IF more = {} THEN l.to ELSE LowestOf(more)
<1>1. l.from \in 1 .. Len(text) + 1 /\ l.to \in 1 .. Len(text) /\ text[l.to] \in {LF, CR} /\ Len(text) \in Nat
  BY FileLineIs DEF Slices
<1>2. Equals(l) \in SUBSET (l.from .. l.to - 1) /\ Equals(l) \in SUBSET Nat
  BY <1>1 DEF Equals
<1>3. first \in Equals(l) /\ \A i \in Equals(l) : first <= i
  BY <1>2, LowestIs
<1> HIDE DEF first
<1>4. last \in first + 1 .. l.to
  <2>1. CASE more = {}
    BY <1>1, <1>2, <1>3, <2>1
  <2>2. CASE more # {}
    <3>1. more \in SUBSET Nat
      BY <1>2
    <3> HIDE DEF more
    <3>2. LowestOf(more) \in more
      BY <2>2, <3>1, LowestIs
    <3> USE DEF more
    <3>3. LowestOf(more) \in Equals(l) /\ LowestOf(more) # first
      BY <3>2
    <3> HIDE DEF more
    <3> QED BY <1>1, <1>2, <1>3, <2>2, <3>3 DEF last
  <2> QED BY <2>1, <2>2
<1>5. ValueOf(l) = [from |-> first + 1, to |-> last]
  BY DEF ValueOf, first
<1> HIDE DEF last
<1>6. first \in l.from .. l.to - 1
  BY <1>2, <1>3
<1>7. ValueOf(l).from = first + 1 /\ ValueOf(l).to = last
  BY <1>5
<1>8. ValueOf(l) \in Slices
  BY <1>1, <1>4, <1>5, <1>6 DEF Slices
<1>9. l.to \in ValueOf(l).from .. Len(text)
  BY <1>1, <1>4, <1>6, <1>7
<1>10. ValueOf(l) # Unset
  <2>1. first + 1 \in Nat /\ last \in Nat
    BY <1>1, <1>4, <1>6
  <2> QED BY <1>5, <2>1, LinesAssumption
<1> QED BY <1>1, <1>4, <1>6, <1>7, <1>8, <1>9, <1>10 DEF Inside

(* Values come in the order of their lines.                                 *)
LEMMA ValuesApart ==
  ASSUME text \in Seq(Signs), NEW l \in FileLines, NEW m \in FileLines,
         Equals(l) # {}, Equals(m) # {}, l.to < m.to
  PROVE  ValueOf(l).to < ValueOf(m).to
<1>1. l.to < m.from
  BY LinesApart
<1>2. /\ ValueOf(l).to <= l.to /\ m.from < ValueOf(m).from /\ ValueOf(m).from <= ValueOf(m).to
      /\ ValueOf(l).to \in Nat /\ ValueOf(m).to \in Nat /\ ValueOf(m).from \in Nat
      /\ l.to \in Nat /\ m.from \in Nat
  BY ValueIs, FileLineIs DEF Inside, Slices
<1> QED BY <1>1, <1>2

(* The last line of some is one of them.                                    *)
LEMMA LastIs ==
  ASSUME text \in Seq(Signs), NEW S \in SUBSET FileLines, S # {}
  PROVE  /\ Last(S) \in S /\ \A m \in S : m.to <= Last(S).to
         /\ \A l \in S : (\A m \in S : m.to <= l.to) => l = Last(S)
<1> DEFINE T == {m.to : m \in S}
<1>1. T \in SUBSET (1 .. Len(text)) /\ T # {} /\ Len(text) \in Nat
  BY FileLineIs
<1>2. PICK n \in T : \A x \in T : x <= n
  <2> HIDE DEF T
  <2> QED BY <1>1, GreatestExists
<1>3. \E l \in S : \A m \in S : m.to <= l.to
  BY <1>2
<1>4. Last(S) \in S /\ \A m \in S : m.to <= Last(S).to
  BY <1>3 DEF Last
<1>5. ASSUME NEW l \in S, \A m \in S : m.to <= l.to PROVE l = Last(S)
  <2>1. l.to <= Last(S).to /\ Last(S).to <= l.to /\ l.to \in Nat /\ Last(S).to \in Nat
    BY <1>4, <1>5, FileLineIs
  <2> QED BY <1>4, <2>1, LinesApart
<1> QED BY <1>4, <1>5

(* What a line is read with: its own value, or that of a line before it.    *)
LEMMA SourceIs ==
  ASSUME text \in Seq(Signs), NEW l \in FileLines, Sources(l) # {}
  PROVE  LET m == Last(Sources(l)) IN
         /\ m \in Sources(l) /\ m \in FileLines /\ Equals(m) # {} /\ ReadWith(l) = ValueOf(m)
         /\ m.to <= l.to /\ \A n \in Sources(l) : n.to <= m.to
<1>1. Sources(l) \in SUBSET FileLines
  BY DEF Sources, FirstLines
<1>2. Last(Sources(l)) \in Sources(l) /\ \A n \in Sources(l) : n.to <= Last(Sources(l)).to
  BY <1>1, LastIs
<1> QED BY <1>1, <1>2 DEF Sources, ReadWith

LEMMA ReadWithIs ==
  ASSUME text \in Seq(Signs), NEW l \in FileLines
  PROVE  /\ Inside(ReadWith(l)) /\ ReadWith(l) # Unset
         /\ ReadWith(l).to \in Nat /\ ReadWith(l).to <= l.to
<1>1. CASE Sources(l) = {}
  <2>1. l.to \in 1 .. Len(text) /\ text[l.to] \in {LF, CR} /\ Len(text) \in Nat
    BY FileLineIs
  <2>2. ReadWith(l) = [from |-> l.to, to |-> l.to]
    BY <1>1 DEF ReadWith
  <2>3. ReadWith(l) \in Slices /\ l.to \in ReadWith(l).from .. Len(text)
    BY <2>1, <2>2 DEF Slices
  <2>4. ReadWith(l) # Unset
    BY <2>1, <2>2, LinesAssumption
  <2> QED BY <2>1, <2>2, <2>3, <2>4 DEF Inside
<1>2. CASE Sources(l) # {}
  <2> DEFINE m == Last(Sources(l))
  <2>1. m \in FileLines /\ Equals(m) # {} /\ ReadWith(l) = ValueOf(m) /\ m.to <= l.to
    BY <1>2, SourceIs
  <2> HIDE DEF m
  <2>2. Inside(ValueOf(m)) /\ ValueOf(m) # Unset /\ ValueOf(m).to <= m.to
    BY <2>1, ValueIs
  <2>3. ValueOf(m).to \in Nat /\ m.to \in Nat /\ l.to \in Nat
    BY <2>1, <2>2, FileLineIs DEF Inside, Slices
  <2> QED BY <2>1, <2>2, <2>3
<1> QED BY <1>1, <1>2

(* What lines are read with comes in their order.                           *)
LEMMA ReadingsApart ==
  ASSUME text \in Seq(Signs), NEW l \in FileLines, NEW m \in FileLines, l.to <= m.to
  PROVE  /\ ReadWith(l).to <= ReadWith(m).to
         /\ ReadWith(l).to = ReadWith(m).to => ReadWith(l) = ReadWith(m)
<1>1. l.to \in Nat /\ m.to \in Nat /\ ReadWith(l).to \in Nat /\ ReadWith(m).to \in Nat
  BY FileLineIs, ReadWithIs
<1>2. Sources(l) \subseteq Sources(m)
  <2> SUFFICES ASSUME NEW n \in Sources(l) PROVE n \in Sources(m)
    OBVIOUS
  <2>1. n \in FileLines /\ n.to <= l.to /\ n.to \in Nat
    BY FileLineIs DEF Sources, FirstLines
  <2> QED BY <1>1, <2>1 DEF Sources
<1>3. CASE Sources(m) = {}
  <2>1. ReadWith(l) = [from |-> l.to, to |-> l.to] /\ ReadWith(m) = [from |-> m.to, to |-> m.to]
    BY <1>2, <1>3 DEF ReadWith
  <2> QED BY <1>1, <2>1
<1>4. CASE Sources(m) # {}
  <2> DEFINE c == Last(Sources(m))
             b == Last(Sources(l))
  <2>1. c \in Sources(m) /\ c \in FileLines /\ Equals(c) # {} /\ ReadWith(m) = ValueOf(c)
    BY <1>4, SourceIs
  <2>2. \A n \in Sources(m) : n.to <= c.to
    BY <1>4, SourceIs
  <2> HIDE DEF c
  <2>3. CASE Sources(l) = {}
    <3>1. ReadWith(l) = [from |-> l.to, to |-> l.to]
      BY <2>3 DEF ReadWith
    <3>2. ~(c.to <= l.to) /\ c.to \in Nat
      BY <2>1, <2>3, FileLineIs DEF Sources
    <3>3. l.to < c.from
      BY <1>1, <2>1, <3>2, LinesApart
    <3>4. /\ c.from < ValueOf(c).from /\ ValueOf(c).from <= ValueOf(c).to
          /\ c.from \in Nat /\ ValueOf(c).from \in Nat /\ ValueOf(c).to \in Nat
      <4>1. c \in Slices /\ ValueOf(c) \in Slices
        BY <2>1, ValueIs, FileLineIs DEF Inside
      <4>2. c.from < ValueOf(c).from /\ ValueOf(c).from <= ValueOf(c).to
        BY <2>1, ValueIs
      <4> QED BY <4>1, <4>2 DEF Slices
    <3>5. l.to < ValueOf(c).to
      BY <1>1, <3>3, <3>4
    <3> QED BY <1>1, <2>1, <3>1, <3>5
  <2>4. CASE Sources(l) # {}
    <3>1. b \in Sources(l) /\ b \in FileLines /\ Equals(b) # {} /\ ReadWith(l) = ValueOf(b)
      BY <2>4, SourceIs
    <3> HIDE DEF b
    <3>2. b.to <= c.to /\ b.to \in Nat /\ c.to \in Nat
      BY <1>2, <2>1, <2>2, <3>1, FileLineIs
    <3>3. CASE b.to = c.to
      <4>1. b = c
        BY <2>1, <3>1, <3>3, LinesApart
      <4> QED BY <1>1, <2>1, <3>1, <4>1
    <3>4. CASE b.to < c.to
      <4>1. ValueOf(b).to < ValueOf(c).to
        BY <2>1, <3>1, <3>4, ValuesApart
      <4> QED BY <1>1, <2>1, <3>1, <4>1
    <3> QED BY <3>2, <3>3, <3>4
  <2> QED BY <2>3, <2>4
<1> QED BY <1>3, <1>4

(* What the file gives a key when one more line is read.                    *)
LEMMA OneMore ==
  ASSUME next \in 1 .. Len(lines), lines \in Seq(Slices), text' = text, lines' = lines, next' = next + 1
  PROVE  /\ \A k : GivenYet(k)' = GivenYet(k) \cup
           (IF ~IsComment(lines[next]) /\ Chars(KeyOf(lines[next])) = <<k>> THEN {ReadWith(lines[next])} ELSE {})
         /\ SourcesYet' = SourcesYet \cup
           (IF ~IsComment(lines[next]) /\ Equals(lines[next]) # {} THEN {lines[next]} ELSE {})
<1>1. {lines'[i] : i \in 1 .. next' - 1} = {lines[i] : i \in 1 .. next - 1} \cup {lines[next]}
  OBVIOUS
<1> QED BY <1>1, SameText DEF GivenYet, SourcesYet

(* An assignment keeps the types and gives one key the value of the line.   *)
LEMMA AssignTypes ==
  ASSUME Typed, NEW l, NEW v, Assign(l, v), text' = text, Inside(v)
  PROVE  /\ value' = Unset \/ Inside(value')
         /\ DOMAIN conf' = Keys /\ conf' = [k \in Keys |-> conf'[k]]
         /\ \A k \in Keys : conf'[k] = Unset \/ Inside(conf'[k])
         /\ throttle' \in {"zero", "garbage"}
<1>1. value' = Unset \/ Inside(value')
  BY DEF Assign, Typed
<1>2. CASE UNCHANGED conf /\ throttle' \in {"zero", "garbage"}
  BY <1>1, <1>2 DEF Typed
<1>3. CASE \E k \in Keys : Set(k, v) /\ throttle' = throttle
  <2>1. PICK k \in Keys : Set(k, v) /\ throttle' = throttle
    BY <1>3
  <2>2. conf' = conf \/ conf' = [conf EXCEPT ![k] = v]
    BY <2>1 DEF Set
  <2> QED BY <1>1, <2>1, <2>2 DEF Typed
<1>4. \/ UNCHANGED conf /\ throttle' \in {"zero", "garbage"}
      \/ \E k \in Keys : Set(k, v) /\ throttle' = throttle
  BY DEF Assign, Typed
<1> QED BY <1>2, <1>3, <1>4

(* A line sets the key it names, and no other.                              *)
LEMMA SetKeepsHas ==
  ASSUME Typed, NEW k \in Keys, NEW j \in Keys, NEW v, v # Unset, Set(k, v), text' = text,
         HasYet(j), GivenYet(j)' = GivenYet(j) \cup (IF j = k THEN {v} ELSE {}),
         \A x \in GivenYet(j) : x # Unset /\ x.to \in Nat /\ x.to <= v.to, v.to \in Nat
  PROVE  HasYet(j)'
<1>0. \A s : Chars(s)' = Chars(s)
  BY SameText
<1>1. CASE j # k
  <2>1. conf'[j] = conf[j]
    BY <1>1 DEF Set, Typed
  <2>2. GivenYet(j)' = GivenYet(j)
    BY <1>1
  <2>3. FilledYet(j)' = FilledYet(j)
    BY <1>0, <2>2 DEF FilledYet
  <2> QED BY <2>1, <2>2, <2>3 DEF HasYet
<1>2. CASE j = k
  <2>1. GivenYet(k)' = GivenYet(k) \cup {v}
    BY <1>2
  <2>2. FilledYet(k)' = FilledYet(k) \cup (IF Chars(v) # <<>> THEN {v} ELSE {})
    BY <1>0, <2>1 DEF FilledYet
  <2>3. conf'[k] = IF k \in PlacesKeys /\ conf[k] # Unset /\ Chars(conf[k]) # <<>> THEN conf[k] ELSE v
    BY DEF Set, Typed
  <2>4. \A x \in FilledYet(k) : x \in GivenYet(k) /\ Chars(x) # <<>>
    BY DEF FilledYet
  <2>5. CASE k \in PlacesKeys /\ FilledYet(k) # {}
    <3>1. conf[k] \in FilledYet(k) /\ \A x \in FilledYet(k) : conf[k].to <= x.to
      BY <1>2, <2>5 DEF HasYet
    <3>2. conf'[k] = conf[k]
      BY <1>2, <2>3, <2>4, <2>5, <3>1
    <3>3. \A x \in FilledYet(k)' : conf[k].to <= x.to
      BY <1>2, <2>2, <2>4, <3>1
    <3> QED BY <1>2, <2>1, <2>2, <2>5, <3>1, <3>2, <3>3 DEF HasYet
  <2>6. CASE ~(k \in PlacesKeys /\ FilledYet(k) # {})
    <3>1. conf'[k] = v
      <4>1. CASE k \in PlacesKeys /\ conf[k] # Unset
        <5>1. conf[k] \in GivenYet(k)
          BY <1>2, <2>6, <4>1 DEF HasYet
        <5>2. Chars(conf[k]) = <<>>
          BY <2>6, <4>1, <5>1 DEF FilledYet
        <5> QED BY <2>3, <5>2
      <4>2. CASE ~(k \in PlacesKeys /\ conf[k] # Unset)
        BY <2>3, <4>2
      <4> QED BY <4>1, <4>2
    <3>2. CASE k \in PlacesKeys /\ FilledYet(k)' # {}
      <4>1. FilledYet(k)' = {v}
        BY <2>2, <2>6, <3>2
      <4> QED BY <1>2, <2>1, <3>1, <3>2, <4>1 DEF HasYet
    <3>3. CASE ~(k \in PlacesKeys /\ FilledYet(k)' # {})
      <4>1. v \in GivenYet(k)' /\ \A x \in GivenYet(k)' : x.to <= v.to
        BY <1>2, <2>1
      <4> QED BY <1>2, <3>1, <3>3, <4>1 DEF HasYet
    <3> QED BY <3>2, <3>3
  <2> QED BY <2>5, <2>6
<1> QED BY <1>1, <1>2

LEMMA SameHas ==
  ASSUME NEW j, text' = text, conf'[j] = conf[j], GivenYet(j)' = GivenYet(j), HasYet(j)
  PROVE  HasYet(j)'
<1>1. FilledYet(j)' = FilledYet(j)
  BY SameText DEF FilledYet
<1> QED BY <1>1 DEF HasYet

(* The lines up to the one that is read are all that end there or before.   *)
LEMMA LinesSoFar ==
  ASSUME ConfigInv, pc = "parse", next \in 1 .. Len(lines)
  PROVE  /\ \A i \in 1 .. next - 1 : lines[i] \in FileLines /\ lines[i].to < lines[next].to
         /\ lines[next] \in FirstLines
         /\ \A m \in FirstLines : m.to <= lines[next].to =>
              m \in {lines[i] : i \in 1 .. next - 1} \/ m = lines[next]
<1>1. text \in Seq(Signs) /\ DOMAIN lines = 1 .. Len(lines) /\ Len(lines) \in Nat
  BY ConfigText DEF ConfigInv, Typed
<1>2. /\ \A i \in 1 .. Len(lines) : lines[i] \in FirstLines /\ lines[i] \in FileLines /\ lines[i].to \in Nat
      /\ \A i, j \in 1 .. Len(lines) : i < j => lines[i].to < lines[j].to
  <2>1. /\ \A i \in 1 .. Len(lines) : lines[i] \in FirstLines /\ lines[i] \in FileLines
        /\ \A i, j \in 1 .. Len(lines) : i < j => lines[i].to < lines[j].to
    BY <1>1 DEF ConfigInv, Listed, FirstLines
  <2>2. \A m \in FileLines : m.to \in Nat
    BY <1>1, FileLineIs
  <2> QED BY <2>1, <2>2
<1>3. ASSUME NEW m \in FirstLines, m.to <= lines[next].to
      PROVE  m \in {lines[i] : i \in 1 .. next - 1} \/ m = lines[next]
  <2>1. m.to < rest
    BY <1>1, FileLineIs DEF FirstLines, ConfigInv, Listed
  <2>2. m \in {lines[i] : i \in DOMAIN lines}
    BY <2>1 DEF ConfigInv, Listed
  <2>3. PICK i \in 1 .. Len(lines) : m = lines[i]
    BY <1>1, <2>2
  <2>4. i <= next
    BY <1>2, <1>3, <2>3
  <2> QED BY <2>3, <2>4
<1>4. \A i \in 1 .. next - 1 : i \in 1 .. Len(lines) /\ i < next
  BY <1>1
<1> QED BY <1>2, <1>3, <1>4

LEMMA ParseLineKeeps == ASSUME ConfigInv, ParseLine PROVE ConfigInv'
<1> DEFINE l == lines[next]
           v == IF Found(l) = Unset THEN [from |-> l.to, to |-> l.to] ELSE Found(l)
<1>1. /\ pc = "parse" /\ next <= Len(lines) /\ next' = next + 1
      /\ UNCHANGED <<text, rest, end, lines, opened>>
      /\ \/ IsComment(l) /\ Skip /\ pc' = pc
         \/ ~IsComment(l) /\ pc' = pc /\ Assign(l, v)
         \/ ~IsComment(l) /\ Found(l) = Unset /\ Skip /\ pc' = "crashed"
  BY DEF ParseLine
<1>2. /\ text \in Seq(Signs) /\ lines \in Seq(Slices) /\ next \in 1 .. Len(lines) /\ Len(lines) \in Nat
      /\ DOMAIN lines = 1 .. Len(lines)
  BY <1>1, ConfigText DEF ConfigInv, Typed
<1>3. l \in FileLines
  BY <1>2 DEF ConfigInv, Listed, FirstLines
<1>4. Inside(v)
  <2>1. CASE Found(l) = Unset
    <3>1. l.to \in 1 .. Len(text) /\ text[l.to] \in {LF, CR}
      BY <1>2, <1>3, FileLineIs
    <3>2. [from |-> l.to, to |-> l.to] \in Slices
      BY <1>2, <3>1 DEF Slices
    <3>3. l.to \in [from |-> l.to, to |-> l.to].from .. Len(text)
      BY <1>2, <3>1
    <3> QED BY <2>1, <3>1, <3>2, <3>3 DEF Inside
  <2>2. CASE Found(l) # Unset
    <3>1. CASE Equals(l) = {}
      BY <2>2, <3>1 DEF Found, ConfigInv, Typed
    <3>2. CASE Equals(l) # {}
      BY <1>2, <1>3, <2>2, <3>2, ValueIs DEF Found
    <3> QED BY <3>1, <3>2
  <2> QED BY <2>1, <2>2
<1> HIDE DEF l, v
<1>5. pc' \in {"parse", "crashed"}
  BY <1>1
<1>6. NamedFoldersStayClosed'
  BY <1>5 DEF NamedFoldersStayClosed
<1>7. Listed'
  BY <1>1, <1>5, SameText DEF ConfigInv, Listed
<1>8. Typed'
  <2>1. next' \in 1 .. Len(lines) + 1
    BY <1>1, <1>2
  <2>2. CASE Skip
    BY <1>1, <1>5, <2>1, <2>2, SameText DEF Skip, ConfigInv, Typed
  <2>3. CASE Assign(l, v)
    <3>1. /\ value' = Unset \/ Inside(value')
          /\ DOMAIN conf' = Keys /\ conf' = [k \in Keys |-> conf'[k]]
          /\ \A k \in Keys : conf'[k] = Unset \/ Inside(conf'[k])
          /\ throttle' \in {"zero", "garbage"}
      BY <1>1, <1>4, <2>3, AssignTypes DEF ConfigInv
    <3> QED BY <1>1, <1>5, <2>1, <3>1, SameText DEF ConfigInv, Typed
  <2> QED BY <1>1, <2>2, <2>3
<1>9. Parsed'
  <2> SUFFICES ASSUME pc' = "parse"
               PROVE  LeftOver' /\ \A j \in Keys : HasYet(j)'
    BY <1>1, <1>5 DEF Parsed
  <2>1. LeftOver /\ \A j \in Keys : HasYet(j)
    BY <1>1 DEF ConfigInv, Parsed
  <2>2. /\ \A k : GivenYet(k)' = GivenYet(k) \cup
              (IF ~IsComment(l) /\ Chars(KeyOf(l)) = <<k>> THEN {ReadWith(l)} ELSE {})
        /\ SourcesYet' = SourcesYet \cup (IF ~IsComment(l) /\ Equals(l) # {} THEN {l} ELSE {})
    BY <1>1, <1>2, OneMore DEF l
  <2>3. CASE IsComment(l) /\ Skip
    <3>1. LeftOver'
      BY <1>1, <2>1, <2>2, <2>3, SameText DEF Skip, LeftOver, Last
    <3>2. \A j \in Keys : HasYet(j)'
      BY <1>1, <2>1, <2>2, <2>3, SameHas DEF Skip
    <3> QED BY <3>1, <3>2
  <2>4. CASE ~IsComment(l) /\ Assign(l, v)
    <3>1. /\ \A i \in 1 .. next - 1 : lines[i] \in FileLines /\ lines[i].to < l.to
          /\ l \in FirstLines /\ \A m \in FirstLines : m.to <= l.to =>
               m \in {lines[i] : i \in 1 .. next - 1} \/ m = l
      BY <1>1, <1>2, LinesSoFar DEF l
    <3>2. Sources(l) = SourcesYet'
      <4>1. l.to \in Nat /\ \A i \in 1 .. next - 1 : lines[i] \in FirstLines /\ lines[i].to <= l.to
        <5>1. l.to \in Nat /\ \A i \in 1 .. next - 1 : lines[i].to \in Nat
          <6>1. \A m \in FileLines : m.to \in Nat
            BY <1>2, FileLineIs
          <6>2. l \in FileLines
            BY <3>1 DEF FirstLines
          <6> QED BY <3>1, <6>1, <6>2
        <5>2. \A i \in 1 .. next - 1 : lines[i] \in FirstLines
          BY <1>2, <1>3, <3>1 DEF ConfigInv, Listed
        <5> QED BY <3>1, <5>1, <5>2
      <4> QED BY <2>2, <2>4, <3>1, <4>1 DEF Sources, SourcesYet
    <3>3. v = ReadWith(l) /\ LeftOver'
      <4>1. CASE Equals(l) # {}
        <5>1. l \in Sources(l) /\ Sources(l) \in SUBSET FileLines /\ \A m \in Sources(l) : m.to <= l.to
          BY <2>4, <3>1, <4>1, <1>2, <1>3, FileLineIs DEF Sources, FirstLines
        <5>2. l = Last(Sources(l))
          BY <1>2, <5>1, LastIs
        <5>3. v = ValueOf(l)
          BY <1>2, <1>3, <4>1, ValueIs DEF v, Found
        <5>4. ReadWith(l) = ValueOf(l)
          BY <5>1, <5>2 DEF ReadWith
        <5>5. value' = v
          BY <2>4, <4>1 DEF Assign
        <5>6. LeftOver' <=> value' = ValueOf(Last(Sources(l)))
          BY <1>1, <3>2, <5>1, SameText DEF LeftOver, Last
        <5> QED BY <5>2, <5>3, <5>4, <5>5, <5>6
      <4>2. CASE Equals(l) = {}
        <5>1. Sources(l) = SourcesYet /\ SourcesYet' = SourcesYet /\ value' = value /\ Found(l) = value
          BY <2>2, <2>4, <3>2, <4>2 DEF Assign, Found
        <5>2. LeftOver'
          BY <1>1, <2>1, <5>1, SameText DEF LeftOver, Last
        <5>3. CASE SourcesYet = {}
          BY <2>1, <5>1, <5>2, <5>3 DEF LeftOver, ReadWith, v
        <5>4. CASE SourcesYet # {}
          <6>1. value = ReadWith(l)
            BY <2>1, <5>1, <5>4 DEF LeftOver, ReadWith
          <6>2. ReadWith(l) # Unset
            BY <1>2, <1>3, ReadWithIs
          <6> QED BY <5>1, <5>2, <6>1, <6>2 DEF v
        <5> QED BY <5>3, <5>4
      <4> QED BY <4>1, <4>2
    <3> SUFFICES ASSUME NEW j \in Keys PROVE HasYet(j)'
      BY <3>3
    <3>4. v # Unset /\ v.to \in Nat
      BY <1>2, <1>3, <3>3, ReadWithIs
    <3>5. \A x \in GivenYet(j) : x # Unset /\ x.to \in Nat /\ x.to <= v.to
      <4> TAKE x \in GivenYet(j)
      <4>1. PICK i \in 1 .. next - 1 : x = ReadWith(lines[i])
        BY DEF GivenYet
      <4>2. lines[i] \in FileLines /\ lines[i].to <= l.to
        BY <1>2, <1>3, <3>1, FileLineIs
      <4> QED BY <1>2, <1>3, <3>3, <4>1, <4>2, ReadWithIs, ReadingsApart
    <3>6. CASE \E k \in Keys : Chars(KeyOf(l)) = <<k>> /\ Set(k, v)
      <4>1. PICK k \in Keys : Chars(KeyOf(l)) = <<k>> /\ Set(k, v)
        BY <3>6
      <4>2. Chars(KeyOf(l)) = <<j>> <=> j = k
        BY <4>1
      <4>3. GivenYet(j)' = GivenYet(j) \cup (IF j = k THEN {v} ELSE {})
        BY <2>2, <2>4, <3>3, <4>2
      <4> QED BY <1>1, <2>1, <3>4, <3>5, <4>1, <4>3, SetKeepsHas DEF ConfigInv
    <3>7. CASE UNCHANGED conf /\ \A k \in Keys : Chars(KeyOf(l)) # <<k>>
      BY <1>1, <2>1, <2>2, <3>7, SameHas
    <3>8. \/ \E k \in Keys : Chars(KeyOf(l)) = <<k>> /\ Set(k, v)
          \/ UNCHANGED conf /\ \A k \in Keys : Chars(KeyOf(l)) # <<k>>
      <4>1. \A k \in Keys : <<"server_throttle">> # <<k>>
        BY DEF Keys, PlacesKeys, FolderKeys, LogKeys
      <4> QED BY <2>4, <4>1 DEF Assign
    <3> QED BY <3>6, <3>7, <3>8
  <2> QED BY <1>1, <2>3, <2>4
<1> QED BY <1>6, <1>7, <1>8, <1>9 DEF ConfigInv

LEMMA OpenLogsKeeps == ASSUME ConfigInv, OpenLogs PROVE ConfigInv'
<1>1. /\ pc = "parse" /\ pc' = "folders" /\ next > Len(lines) /\ DOMAIN opened' = DOMAIN opened
      /\ UNCHANGED <<text, rest, end, lines, next, value, conf, throttle>>
  BY DEF OpenLogs
<1>2. next = Len(lines) + 1
  BY <1>1 DEF ConfigInv, Typed
<1>3. Typed'
  BY <1>1, SameText DEF ConfigInv, Typed
<1>4. Listed'
  BY <1>1, SameText DEF ConfigInv, Listed
<1>5. Parsed'
  BY <1>1, <1>2, SameText, SameKeys DEF ConfigInv, Parsed
<1> QED BY <1>1, <1>3, <1>4, <1>5 DEF ConfigInv, NamedFoldersStayClosed

(* No folder has the name that the system is given.                         *)
LEMMA NoSuchFolder ==
  ASSUME text \in Seq(Signs), NEW s, Inside(s)
  PROVE  OpenDirectory(s) = Unset
<1>1. PICK e \in s.from .. Len(text) : text[e] \in {LF, CR}
  BY DEF Inside
<1>2. s.from \in 1 .. Len(text) + 1 /\ Len(text) \in Nat
  BY DEF Inside, Slices
<1> DEFINE path == SubSeq(text, s.from, Len(text))
           i    == e - s.from + 1
<1>3. i \in 1 .. Len(path) /\ path[i] = text[e]
  <2>1. Len(path) = Len(text) - s.from + 1 /\ i \in 1 .. Len(text) - s.from + 1 /\ s.from + i - 1 = e
    BY <1>1, <1>2
  <2> QED BY <1>2, <2>1
<1> HIDE DEF path, i
<1>4. path \notin Folders
  BY <1>1, <1>3, ConfigAssumption
<1> QED BY <1>4 DEF OpenDirectory, Opens, CString, path

LEMMA OpenFoldersKeeps == ASSUME ConfigInv, OpenFolders PROVE ConfigInv'
<1>1. /\ pc = "folders" /\ pc' = "done"
      /\ UNCHANGED <<text, rest, end, lines, next, value, conf, throttle>>
      /\ DOMAIN opened' = FolderKeys \cup LogKeys
      /\ \A k \in FolderKeys : conf[k] # Unset => opened'[k] = OpenDirectory(conf[k])
  BY DEF OpenFolders
<1>2. text \in Seq(Signs)
  BY ConfigText DEF ConfigInv, Typed
<1>3. Typed'
  BY <1>1, SameText DEF ConfigInv, Typed
<1>4. Listed'
  BY <1>1, SameText DEF ConfigInv, Listed
<1>5. Parsed'
  BY <1>1, SameText, SameKeys DEF ConfigInv, Parsed
<1>6. NamedFoldersStayClosed'
  <2>1. \A k \in FolderKeys : conf[k] = Unset \/ Inside(conf[k])
    BY DEF ConfigInv, Typed, Keys
  <2> QED BY <1>1, <1>2, <2>1, NoSuchFolder DEF NamedFoldersStayClosed
<1> QED BY <1>3, <1>4, <1>5, <1>6 DEF ConfigInv

LEMMA ConfigInvariant == ConfigSpec => []ConfigInv
<1>1. ConfigInv /\ [ConfigNext]_configVars => ConfigInv'
  <2> SUFFICES ASSUME ConfigInv, [ConfigNext]_configVars PROVE ConfigInv'
    OBVIOUS
  <2>1. CASE UNCHANGED configVars
    <3>1. Typed'
      BY <2>1, SameText DEF configVars, ConfigInv, Typed
    <3>2. Listed'
      BY <2>1, SameText DEF configVars, ConfigInv, Listed
    <3>3. Parsed'
      BY <2>1, SameText, SameKeys DEF configVars, ConfigInv, Parsed
    <3> QED BY <2>1, <3>1, <3>2, <3>3 DEF configVars, ConfigInv, NamedFoldersStayClosed
  <2> QED BY <2>1, OpenKeeps, BuildLinesKeeps, ParseLineKeeps, OpenLogsKeeps, OpenFoldersKeeps
          DEF ConfigNext
<1> QED BY <1>1, ConfigStarts, PTL DEF ConfigSpec

(* Every slice that is made of a file lies in it, whatever the file holds.  *)
THEOREM ConfigTypes == ConfigSpec => []ConfigTypeOK
<1>1. ConfigInv => ConfigTypeOK
  <2> SUFFICES ASSUME ConfigInv PROVE ConfigTypeOK
    OBVIOUS
  <2>1. rest \in 1 .. Len(text) + 1 /\ end \in {LF, CR, Unset}
    BY DEF ConfigInv, Listed, Placed
  <2>2. \A i \in DOMAIN lines : lines[i] \in Slices
    BY DEF ConfigInv, Typed
  <2> QED BY <2>1, <2>2 DEF ConfigInv, Typed, ConfigTypeOK, Inside
<1> QED BY <1>1, ConfigInvariant, PTL

(* The list of lines is that of the file, whatever line ends it mixes       *)
(* (str_list_build_from_lines, str_split_line, str_list_add_from_str).      *)
THEOREM ListIsTheFile == ConfigSpec => []LinesAreTheFile
<1>1. ConfigInv => LinesAreTheFile
  <2> SUFFICES ASSUME ConfigInv, pc = "parse"
               PROVE  {l \in FirstLines : l.to < rest} = FirstLines
    BY DEF LinesAreTheFile, ConfigInv, Listed
  <2>1. \A l \in FirstLines : l.to \in LineEnds(text)
    BY ConfigText, FileLineIs DEF ConfigInv, Typed, FirstLines
  <2> QED BY <2>1 DEF ConfigInv, Listed
<1> QED BY <1>1, ConfigInvariant, PTL

(* Every file is read as it is written, whatever it holds and however long  *)
(* it is (parse_config_file).                                               *)
THEOREM FilesAreRead == ConfigSpec => []ReadAsWritten
<1>1. ConfigInv => ReadAsWritten
  <2> SUFFICES ASSUME ConfigInv, pc = "done", lines # <<>>, NEW k \in Keys
               PROVE  LET given  == Given(k)
                          filled == {v \in given : Chars(v) # <<>>}
                      IN conf[k] = CASE given = {} -> Unset
                                     [] k \in PlacesKeys /\ filled # {} -> First(filled)
                                     [] OTHER -> Last(given)
    BY DEF ReadAsWritten
  <2>0. text \in Seq(Signs) /\ lines \in Seq(Slices)
    BY ConfigText DEF ConfigInv, Typed
  <2>1. {lines[i] : i \in 1 .. next - 1} = FirstLines
    <3>1. next - 1 = Len(lines)
      BY <2>0 DEF ConfigInv, Parsed
    <3>2. \A l \in FirstLines : l.to \in LineEnds(text)
      BY <2>0, FileLineIs DEF FirstLines
    <3>3. {l \in FirstLines : l.to < rest} = FirstLines
      BY <3>2 DEF ConfigInv, Listed
    <3>4. {lines[i] : i \in DOMAIN lines} = FirstLines
      BY <3>3 DEF ConfigInv, Listed
    <3> QED BY <2>0, <3>1, <3>4
  <2>2. GivenYet(k) = Given(k)
    BY <2>1 DEF GivenYet, Given
  <2> DEFINE given  == Given(k)
             filled == {v \in given : Chars(v) # <<>>}
  <2>3. FilledYet(k) = filled
    BY <2>2 DEF FilledYet
  <2>4. HasYet(k)
    BY DEF ConfigInv, Parsed
  <2>5. \A x, y \in given : x.to \in Nat /\ (x.to = y.to => x = y)
    <3> TAKE x, y \in given
    <3>1. PICK l \in FileLines : x = ReadWith(l)
      BY DEF Given, FirstLines
    <3>2. PICK m \in FileLines : y = ReadWith(m)
      BY DEF Given, FirstLines
    <3>3. x.to \in Nat /\ y.to \in Nat /\ l.to \in Nat /\ m.to \in Nat
      BY <2>0, <3>1, <3>2, ReadWithIs, FileLineIs
    <3>4. /\ l.to <= m.to => x.to <= y.to /\ (x.to = y.to => x = y)
          /\ m.to <= l.to => y.to <= x.to /\ (y.to = x.to => y = x)
      BY <2>0, <3>1, <3>2, ReadingsApart
    <3> QED BY <3>3, <3>4
  <2> HIDE DEF given
  <2>6. CASE given = {}
    BY <2>2, <2>4, <2>6 DEF HasYet, given
  <2>7. CASE k \in PlacesKeys /\ filled # {}
    <3>1. conf[k] \in filled /\ \A x \in filled : conf[k].to <= x.to
      BY <2>3, <2>4, <2>7 DEF HasYet
    <3>2. \A x \in filled : (\A y \in filled : x.to <= y.to) => x = conf[k]
      BY <2>5, <3>1
    <3>3. First(filled) = conf[k]
      BY <3>1, <3>2 DEF First
    <3>4. given # {}
      BY <2>7
    <3> QED BY <2>7, <3>3, <3>4 DEF given
  <2>8. CASE given # {} /\ ~(k \in PlacesKeys /\ filled # {})
    <3>1. conf[k] \in given /\ \A x \in given : x.to <= conf[k].to
      BY <2>2, <2>3, <2>4, <2>8 DEF HasYet, given
    <3>2. \A x \in given : (\A y \in given : y.to <= x.to) => x = conf[k]
      BY <2>5, <3>1
    <3>3. Last(given) = conf[k]
      BY <3>1, <3>2 DEF Last
    <3> QED BY <2>8, <3>3 DEF given
  <2> QED BY <2>6, <2>7, <2>8
<1> QED BY <1>1, ConfigInvariant, PTL

(* A folder that a file names is never opened, neither the root folder nor  *)
(* the working directory (osOpenDirectory).                                 *)
THEOREM NamedFoldersClosed == ConfigSpec => []NamedFoldersStayClosed
<1>1. ConfigInv => NamedFoldersStayClosed
  BY DEF ConfigInv
<1> QED BY <1>1, ConfigInvariant, PTL
-----------------------------------------------------------------------------
(* How far reading has come: the part of it that is under way, and what of  *)
(* the text or of the list that part has before it.                         *)
Stage == CASE pc = "open" -> 4 [] pc = "split" -> 3 [] pc = "parse" -> 2
           [] pc = "folders" -> 1 [] OTHER -> 0
Ahead == CASE pc = "split" -> Len(text) + 1 - rest
           [] pc = "parse" -> Len(lines) + 1 - next
           [] OTHER        -> 0

ReadsOn == Stage' < Stage \/ (Stage' = Stage /\ Ahead' < Ahead)

LEMMA AheadCounted == ConfigInv => Stage \in Nat /\ Ahead \in Nat
<1> SUFFICES ASSUME ConfigInv PROVE Stage \in Nat /\ Ahead \in Nat
  OBVIOUS
<1>1. text \in Seq(Signs) /\ lines \in Seq(Slices)
  BY ConfigText DEF ConfigInv, Typed
<1>2. Len(text) \in Nat /\ Len(lines) \in Nat
  BY <1>1
<1>3. rest \in 1 .. Len(text) + 1 /\ next \in 1 .. Len(lines) + 1
  BY DEF ConfigInv, Typed, Listed, Placed
<1> QED BY <1>2, <1>3 DEF Stage, Ahead

LEMMA ReadingFalls == ASSUME ConfigInv, ConfigNext PROVE ReadsOn
<1>1. text \in Seq(Signs) /\ lines \in Seq(Slices)
  BY ConfigText DEF ConfigInv, Typed
<1>2. Len(text) \in Nat /\ Len(lines) \in Nat
  BY <1>1
<1>3. rest \in 1 .. Len(text) + 1 /\ next \in 1 .. Len(lines) + 1
  BY DEF ConfigInv, Typed, Listed, Placed
<1>4. CASE Open
  BY <1>4 DEF Open, ReadsOn, Stage
<1>5. CASE BuildLines
  <2> DEFINE l == NextLine(text, rest, end)
  <2>1. CASE l = Unset
    BY <1>5, <2>1 DEF BuildLines, ReadsOn, Stage
  <2>2. CASE l # Unset
    <3>1. /\ l.to \in LineEnds(text) /\ rest <= l.to /\ Placed(text, l.rest, l.end)
          /\ \A e \in LineEnds(text) : e < l.rest <=> e < rest \/ e = l.to
      BY <1>1, <2>2, NextLineIs DEF ConfigInv, Listed
    <3>2. pc = "split" /\ pc' = "split" /\ rest' = l.rest /\ text' = text
      BY <1>5, <2>2 DEF BuildLines
    <3> HIDE DEF l
    <3>3. l.to \in Nat /\ l.rest \in Nat /\ l.to < l.rest
      BY <3>1 DEF LineEnds, Placed
    <3>4. Ahead' < Ahead /\ Stage' = Stage
      BY <1>2, <1>3, <3>1, <3>2, <3>3 DEF Ahead, Stage
    <3> QED BY <3>4 DEF ReadsOn
  <2> QED BY <2>1, <2>2
<1>6. CASE ParseLine
  <2>1. pc = "parse" /\ next' = next + 1 /\ lines' = lines /\ pc' \in {"parse", "crashed"}
    BY <1>6 DEF ParseLine
  <2>2. CASE pc' = "parse"
    <3>1. Ahead' < Ahead /\ Stage' = Stage
      BY <1>2, <1>3, <2>1, <2>2 DEF Ahead, Stage
    <3> QED BY <3>1 DEF ReadsOn
  <2>3. CASE pc' = "crashed"
    BY <2>1, <2>3 DEF ReadsOn, Stage
  <2> QED BY <2>1, <2>2, <2>3
<1>7. CASE OpenLogs
  BY <1>7 DEF OpenLogs, ReadsOn, Stage
<1>8. CASE OpenFolders
  BY <1>8 DEF OpenFolders, ReadsOn, Stage
<1> QED BY <1>4, <1>5, <1>6, <1>7, <1>8 DEF ConfigNext

(* No step of reading a file of any length is for nothing: each brings the  *)
(* end of the file, of the list or of the reading nearer, so that there are *)
(* finitely many of them (str_list_build_from_lines, parse_config_file).    *)
THEOREM ReadingGetsOn ==
  ConfigSpec => /\ [](Stage \in Nat /\ Ahead \in Nat)
                /\ [][ReadsOn]_configVars
<1>1. ConfigInv => Stage \in Nat /\ Ahead \in Nat
  BY AheadCounted
<1>2. ConfigInv /\ [ConfigNext]_configVars => [ReadsOn]_configVars
  BY ReadingFalls
<1> QED BY <1>1, <1>2, ConfigInvariant, PTL DEF ConfigSpec
-----------------------------------------------------------------------------
(* The first line of a request, and its header.                             *)

(* The first line that str_split_line finds is the first line of the text,  *)
(* if it has come whole.                                                    *)
LEMMA FirstRound ==
  ASSUME NEW t \in Seq(Signs)
  PROVE  IF FirstEnds(t) = {} THEN NextLine(t, 1, CR) = Unset
         ELSE /\ NextLine(t, 1, CR) # Unset
              /\ SubSeq(t, NextLine(t, 1, CR).from, NextLine(t, 1, CR).to - 1) = FirstLine(t)
<1>1. From(t, 1, CR) = IF 1 <= Len(t) /\ t[1] = LF THEN 2 ELSE 1
  <2>1. LF # CR
    BY LinesAssumption
  <2>2. \A y : Pair(CR, y) <=> y = LF
    BY <2>1 DEF Pair
  <2> QED BY <2>2 DEF From
<1>2. Ends(t, From(t, 1, CR)) = FirstEnds(t)
  BY <1>1 DEF Ends, FirstEnds
<1>3. CASE FirstEnds(t) = {}
  BY <1>2, <1>3 DEF NextLine
<1>4. CASE FirstEnds(t) # {}
  <2> DEFINE e == LowestOf(FirstEnds(t))
  <2>0. FirstEnds(t) \in SUBSET Nat
    BY DEF FirstEnds
  <2>1. e \in FirstEnds(t)
    BY <1>4, <2>0, LowestIs
  <2>2. e \in 1 .. Len(t) /\ t[e] \in {LF, CR}
    BY <2>1 DEF FirstEnds
  <2>3. NextLine(t, 1, CR) = [from |-> From(t, 1, CR), to |-> e, rest |-> Behind(t, e), end |-> Kept(t, e)]
    BY <1>2, <1>4 DEF NextLine
  <2>4. NextLine(t, 1, CR) # Unset
    BY <2>2, <2>3, <1>1, LinesAssumption DEF Behind, Kept
  <2>5. From(t, 1, CR) = IF t[1] = LF THEN 2 ELSE 1
    BY <1>1, <2>2
  <2>6. FirstLine(t) = SubSeq(t, From(t, 1, CR), e - 1)
    BY <2>5 DEF FirstLine
  <2> HIDE DEF e
  <2>7. NextLine(t, 1, CR).from = From(t, 1, CR) /\ NextLine(t, 1, CR).to = e
    BY <2>3
  <2> QED BY <1>4, <2>4, <2>6, <2>7
<1> QED BY <1>3, <1>4

(* What a later round finds lies in the text.                               *)
LEMMA LaterRound ==
  ASSUME NEW t \in Seq(Signs), NEW r \in 1 .. Len(t) + 1, NEW c \in {LF, CR, Unset},
         NextLine(t, r, c) # Unset
  PROVE  LET l == NextLine(t, r, c)
         IN /\ l.from \in 1 .. Len(t) /\ l.to \in l.from .. Len(t)
            /\ l.rest \in 1 .. Len(t) + 1 /\ l.end \in {LF, CR, Unset}
            /\ SubSeq(t, l.from, l.to - 1) \in Seq(Signs)
<1> DEFINE from == From(t, r, c)
           e    == LowestOf(Ends(t, from))
<1>1. from \in Nat \ {0}
  BY DEF From
<1>2. Ends(t, from) # {} /\ Ends(t, from) \in SUBSET Nat
  BY <1>1 DEF NextLine, Ends
<1>3. e \in Ends(t, from)
  BY <1>2, LowestIs
<1>4. e \in from .. Len(t) /\ t[e] \in {LF, CR}
  BY <1>3 DEF Ends
<1>5. NextLine(t, r, c) = [from |-> from, to |-> e, rest |-> Behind(t, e), end |-> Kept(t, e)]
  BY <1>2 DEF NextLine
<1>6. Behind(t, e) \in 1 .. Len(t) + 1 /\ Kept(t, e) \in {LF, CR, Unset}
  BY <1>1, <1>4 DEF Behind, Kept, Paired
<1> HIDE DEF from, e
<1>7. SubSeq(t, from, e - 1) \in Seq(Signs)
  BY <1>1, <1>4
<1> QED BY <1>1, <1>4, <1>5, <1>6, <1>7

(* Once the first line has come whole it is the first line of the request.  *)
LEMMA FirstLineStays ==
  ASSUME NEW s \in Seq(Signs), NEW n \in 0 .. Len(s), FirstEnds(SubSeq(s, 1, n)) # {}
  PROVE  /\ FirstLine(SubSeq(s, 1, n)) = FirstLine(s)
         /\ FirstLine(s) \in Seq(Signs)
<1> DEFINE t == SubSeq(s, 1, n)
           a == IF s[1] = LF THEN 2 ELSE 1
<1>1. t \in Seq(Signs) /\ Len(t) = n /\ \A i \in 1 .. n : t[i] = s[i]
  OBVIOUS
<1>2. FirstEnds(t) = {i \in FirstEnds(s) : i <= n}
  BY <1>1 DEF FirstEnds
<1> DEFINE d == LowestOf(FirstEnds(t))
           e == LowestOf(FirstEnds(s))
<1>3. /\ d \in FirstEnds(t) /\ \A y \in FirstEnds(t) : d <= y
      /\ e \in FirstEnds(s) /\ \A y \in FirstEnds(s) : e <= y
  <2>1. FirstEnds(t) \in SUBSET Nat /\ FirstEnds(s) \in SUBSET Nat /\ FirstEnds(s) # {}
    BY <1>2 DEF FirstEnds
  <2> QED BY <2>1, LowestIs
<1>4. d = e
  BY <1>2, <1>3 DEF FirstEnds
<1>5. e \in 1 .. n /\ t[1] = s[1]
  BY <1>1, <1>2, <1>3, <1>4 DEF FirstEnds
<1>6. FirstLine(t) = SubSeq(t, a, e - 1) /\ FirstLine(s) = SubSeq(s, a, e - 1)
  BY <1>4, <1>5 DEF FirstLine
<1> HIDE DEF t, d, e
<1>7. SubSeq(t, a, e - 1) = SubSeq(s, a, e - 1) /\ SubSeq(s, a, e - 1) \in Seq(Signs)
  BY <1>1, <1>5
<1>8. FirstLine(t) = FirstLine(s) /\ FirstLine(s) \in Seq(Signs)
  BY <1>6, <1>7
<1> QED BY <1>8 DEF t

Entry == [key : Seq(Signs \cup {RequestKey}), value : Seq(Signs)]

(* str_trim keeps a part of the string.                                     *)
LEMMA TrimType ==
  ASSUME NEW s \in Seq(Signs)
  PROVE  Trim(s) \in Seq(Signs)
<1> DEFINE kept == 1 .. Len(s) \ At(s, Space)
           last == CHOOSE i \in kept : \A j \in kept : j <= i
<1>1. CASE kept = {}
  BY <1>1 DEF Trim
<1>2. CASE kept # {}
  <2>0. Len(s) \in Nat /\ kept \in SUBSET Nat /\ kept \in SUBSET (1 .. Len(s))
    OBVIOUS
  <2>1. LowestOf(kept) \in 1 .. Len(s)
    <3> HIDE DEF kept
    <3> QED BY <1>2, <2>0, LowestIs
  <2>2. last \in 1 .. Len(s)
    <3> HIDE DEF kept
    <3>1. \E i \in kept : \A j \in kept : j <= i
      BY <1>2, <2>0, GreatestExists
    <3>2. last \in kept
      BY <3>1
    <3> QED BY <2>0, <3>2
  <2>3. Trim(s) = SubSeq(s, LowestOf(kept), last)
    BY <1>2 DEF Trim
  <2> HIDE DEF last, kept
  <2> QED BY <2>1, <2>2, <2>3
<1> QED BY <1>1, <1>2

(* A line makes an entry of the list, with a value.                         *)
LEMMA HeaderType ==
  ASSUME NEW s \in Seq(Signs)
  PROVE  Header(s) \in Entry
<1>1. CASE At(s, Colon) # {}
  <2>0. At(s, Colon) \in SUBSET Nat /\ At(s, Colon) \subseteq 1 .. Len(s)
    BY DEF At
  <2>1. LowestOf(At(s, Colon)) \in 1 .. Len(s)
    BY <1>1, <2>0, LowestIs
  <2>2. Before(s, Colon) \in Seq(Signs) /\ Rest(s, Colon) \in Seq(Signs)
    BY <2>1 DEF Before, Rest
  <2>3. Before(s, Colon) \in Seq(Signs \cup {RequestKey}) /\ <<RequestKey>> \in Seq(Signs \cup {RequestKey})
    BY <2>2
  <2> QED BY <2>2, <2>3, TrimType DEF Header, Entry
<1>2. CASE At(s, Colon) = {}
  <2>1. <<RequestKey>> \in Seq(Signs \cup {RequestKey})
    OBVIOUS
  <2> QED BY <1>2, <2>1, TrimType DEF Header, Entry
<1> QED BY <1>1, <1>2

(* A first line as a browser sends it names its page.                       *)
LEMMA BrowserLine ==
  ASSUME NEW line \in Seq(Signs), AsBrowsersSend(line)
  PROVE  LET path == SubSeq(line, 3, Len(line) - 2)
         IN Asked(Header(line).value).path = IF path = <<Slash>> THEN Index ELSE path
<1> DEFINE n    == Len(line)
           more == SubSeq(line, 3, n)
           path == SubSeq(line, 3, n - 2)
           kept == 1 .. n \ At(line, Space)
<1>1. n \in Nat /\ n >= 5 /\ line[1] = Get /\ At(line, Space) = {2, n - 1} /\ At(line, Colon) = {}
  BY DEF AsBrowsersSend
<1>2. Trim(line) = line
  <2>0. kept = {i \in 1 .. n : i # 2 /\ i # n - 1}
    BY <1>1
  <2>1. kept \in SUBSET Nat /\ 1 \in kept /\ n \in kept /\ \A i \in kept : 1 <= i /\ i <= n
    <3> HIDE DEF n
    <3> QED BY <1>1, <2>0
  <2>2. LowestOf(kept) = 1
    <3> HIDE DEF kept, n
    <3>1. LowestOf(kept) \in kept /\ LowestOf(kept) <= 1
      BY <2>1, LowestIs
    <3>2. LowestOf(kept) \in Nat /\ 1 <= LowestOf(kept)
      BY <2>1, <3>1
    <3> QED BY <3>1, <3>2
  <2>3. (CHOOSE i \in kept : \A j \in kept : j <= i) = n
    <3> HIDE DEF kept, n
    <3> DEFINE last == CHOOSE i \in kept : \A j \in kept : j <= i
    <3>1. last \in kept /\ \A j \in kept : j <= last
      BY <2>1
    <3> HIDE DEF last
    <3>2. last = n
      BY <1>1, <2>1, <3>1
    <3> QED BY <3>2 DEF last
  <2>4. Trim(line) = SubSeq(line, 1, n)
    BY <2>1, <2>2, <2>3 DEF Trim
  <2>5. SubSeq(line, 1, Len(line)) = line
    OBVIOUS
  <2> QED BY <2>4, <2>5
<1>3. Header(line).value = line
  BY <1>1, <1>2 DEF Header
<1>4. LowestOf(At(line, Space)) = 2
  <2>1. At(line, Space) \in SUBSET Nat /\ 2 \in At(line, Space) /\ \A i \in At(line, Space) : 2 <= i
    BY <1>1
  <2>2. LowestOf(At(line, Space)) \in At(line, Space) /\ LowestOf(At(line, Space)) <= 2
    BY <2>1, LowestIs
  <2> QED BY <2>1, <2>2
<1>5. Rest(line, Space) = more
  BY <1>4 DEF Rest
<1>6. Len(more) = n - 2 /\ \A i \in 1 .. n - 2 : more[i] = line[i + 2]
  BY <1>1
<1>7. At(more, Space) = {n - 3}
  <2>1. \A i \in 1 .. n - 2 : more[i] = Space <=> i + 2 \in At(line, Space)
    BY <1>1, <1>6 DEF At
  <2>2. \A i \in 1 .. n - 2 : more[i] = Space <=> i = n - 3
    BY <1>1, <2>1
  <2>3. At(more, Space) = {i \in 1 .. n - 2 : more[i] = Space}
    BY <1>6 DEF At
  <2> HIDE DEF more
  <2> QED BY <1>1, <2>2, <2>3
<1>8. LowestOf(At(more, Space)) = n - 3
  <2>0. n - 3 \in Nat
    BY <1>1
  <2> HIDE DEF more, n
  <2>1. At(more, Space) \in SUBSET Nat /\ At(more, Space) # {}
    BY <1>7, <2>0
  <2>2. LowestOf(At(more, Space)) \in At(more, Space)
    BY <2>1, LowestIs
  <2> QED BY <1>7, <2>2
<1>9. Before(more, Space) = SubSeq(more, 1, n - 4)
  BY <1>1, <1>8 DEF Before
<1>10. SubSeq(more, 1, n - 4) = path
  BY <1>1, <1>6
<1>11. SecondWord(line) = path
  BY <1>5, <1>7, <1>9, <1>10 DEF SecondWord
<1>12. path # <<>>
  BY <1>1
<1>13. Asked(line) = Page(PathOf(line), TypeOf(PathOf(line)))
  <2>1. At(line, Get) # {}
    BY <1>1 DEF At
  <2> QED BY <1>1, <2>1 DEF Asked
<1>14. PathOf(line) = IF path = <<Slash>> THEN Index ELSE path
  BY <1>11, <1>12 DEF PathOf
<1>15. Asked(line).path = PathOf(line)
  BY <1>13 DEF Page
<1> QED BY <1>3, <1>14, <1>15
-----------------------------------------------------------------------------
(* The inductive invariant: the first value in the list is that of the      *)
(* first line, from the round that splits it off.                           *)

Entries == [key : Seq(Signs \cup {RequestKey}), value : Seq(Signs) \cup {Unset}]

Came == sent \in Requests /\ \E n \in 0 .. Len(sent) : text = SubSeq(sent, 1, n)

Split ==
  /\ pc \in {"split", "answer", "done"}
  /\ rest \in 1 .. Len(text) + 1 /\ end \in {LF, CR, Unset}
  /\ headers = <<>> => pc = "split" /\ rest = 1 /\ end = CR

List ==
  /\ headers \in Seq(Entries)
  /\ \A i, j \in DOMAIN headers : headers[i].key = headers[j].key => i = j
  /\ headers # <<>> =>
       headers[1].value = IF FirstEnds(text) = {} THEN Unset ELSE Header(FirstLine(text)).value

Answered ==
  answer = IF pc # "done" THEN NoAnswer
           ELSE IF headers[1].value = Unset THEN Reading("nothing")
           ELSE Asked(headers[1].value)

RequestInv == Came /\ Split /\ List /\ Answered

(* What has come is a text of the same signs.                               *)
LEMMA TextType ==
  ASSUME Came
  PROVE  sent \in Seq(Signs) /\ text \in Seq(Signs)
BY RequestAssumption DEF Came

(* Adding to the list keeps its keys apart and its first entry.             *)
LEMMA AddedKeeps ==
  ASSUME headers \in Seq(Entries), NEW h \in Entries,
         \A i, j \in DOMAIN headers : headers[i].key = headers[j].key => i = j
  PROVE  /\ WithHeader(h) \in Seq(Entries) /\ WithHeader(h) # <<>>
         /\ \A i, j \in DOMAIN WithHeader(h) : WithHeader(h)[i].key = WithHeader(h)[j].key => i = j
         /\ WithHeader(h)[1] = IF headers = <<>> THEN h ELSE headers[1]
<1>1. CASE \E i \in DOMAIN headers : headers[i].key = h.key
  BY <1>1 DEF WithHeader
<1>2. CASE ~ \E i \in DOMAIN headers : headers[i].key = h.key
  <2>1. WithHeader(h) = Append(headers, h)
    BY <1>2 DEF WithHeader
  <2>2. /\ Len(Append(headers, h)) = Len(headers) + 1
        /\ \A i \in 1 .. Len(headers) : Append(headers, h)[i] = headers[i]
        /\ Append(headers, h)[Len(headers) + 1] = h
    OBVIOUS
  <2>3. DOMAIN headers = 1 .. Len(headers) /\ DOMAIN Append(headers, h) = 1 .. Len(headers) + 1
    OBVIOUS
  <2>4. \A i, j \in 1 .. Len(headers) + 1 : Append(headers, h)[i].key = Append(headers, h)[j].key => i = j
    BY <1>2, <2>2, <2>3
  <2> QED BY <2>1, <2>2, <2>3, <2>4
<1> QED BY <1>1, <1>2

LEMMA RequestStarts == RequestInit => RequestInv
<1> SUFFICES ASSUME RequestInit PROVE RequestInv
  OBVIOUS
<1>1. Came
  BY DEF RequestInit, Came
<1>2. text \in Seq(Signs)
  BY <1>1, TextType
<1>3. Split
  BY <1>2 DEF RequestInit, Split
<1>4. List
  BY DEF RequestInit, List
<1>5. Answered
  BY DEF RequestInit, Answered
<1> QED BY <1>1, <1>3, <1>4, <1>5 DEF RequestInv

LEMMA RequestKeeps == RequestInv /\ [RequestNext]_requestVars => RequestInv'
<1> SUFFICES ASSUME RequestInv, [RequestNext]_requestVars PROVE RequestInv'
  OBVIOUS
<1> USE DEF RequestInv
<1>0. sent \in Seq(Signs) /\ text \in Seq(Signs)
  BY TextType
<1>1. CASE BuildHeaders
  <2> DEFINE l == NextLine(text, rest, end)
  <2>1. Came' /\ text' = text
    BY <1>1 DEF BuildHeaders, Came
  <2>2. CASE l = Unset
    <3> DEFINE h == [key |-> <<RequestKey>>, value |-> Unset]
    <3>1. h \in Entries
      BY DEF Entries
    <3>2. headers' = WithHeader(h) /\ pc' = "answer" /\ rest' = rest /\ end' = end
      BY <1>1, <2>2 DEF BuildHeaders
    <3>3. headers = <<>> => FirstEnds(text) = {}
      BY <1>0, <2>2, FirstRound DEF Split
    <3> HIDE DEF h
    <3>4. List'
      <4>1. h.value = Unset
        BY DEF h
      <4> QED BY <2>1, <3>1, <3>2, <3>3, <4>1, AddedKeeps DEF List
    <3>5. Split'
      BY <2>1, <3>1, <3>2, AddedKeeps DEF Split, List
    <3>6. Answered'
      BY <1>1, <3>2 DEF BuildHeaders, Answered, Split
    <3> QED BY <2>1, <3>4, <3>5, <3>6
  <2>3. CASE l # Unset
    <3> DEFINE line == SubSeq(text, l.from, l.to - 1)
               h    == Header(line)
    <3>1. headers' = WithHeader(h) /\ pc' = "split" /\ rest' = l.rest /\ end' = l.end
      BY <1>1, <2>3 DEF BuildHeaders
    <3>2. l.rest \in 1 .. Len(text) + 1 /\ l.end \in {LF, CR, Unset} /\ line \in Seq(Signs)
      BY <1>0, <2>3, LaterRound DEF Split
    <3>3. h \in Entries
      <4> HIDE DEF line
      <4>1. h \in Entry
        BY <3>2, HeaderType
      <4> QED BY <4>1 DEF Entry, Entries
    <3>4. headers = <<>> => FirstEnds(text) # {} /\ line = FirstLine(text)
      BY <1>0, <2>3, FirstRound DEF Split
    <3> HIDE DEF line, l
    <3>5. headers = <<>> => FirstEnds(text) # {} /\ h.value = Header(FirstLine(text)).value
      BY <3>4
    <3> HIDE DEF h
    <3>6. List'
      BY <2>1, <3>1, <3>3, <3>5, AddedKeeps DEF List
    <3>7. Split'
      BY <2>1, <3>1, <3>2, <3>3, AddedKeeps DEF Split, List
    <3>8. Answered'
      BY <1>1, <3>1 DEF BuildHeaders, Answered, Split
    <3> QED BY <2>1, <3>6, <3>7, <3>8
  <2> QED BY <2>2, <2>3
<1>2. CASE Answer
  BY <1>2 DEF Answer, Came, Split, List, Answered
<1>3. CASE UNCHANGED requestVars
  BY <1>3 DEF requestVars, Came, Split, List, Answered
<1> QED BY <1>1, <1>2, <1>3 DEF RequestNext

(* No key is in the list twice, and a page that is asked for has a name, in *)
(* any request (hash_list_add, handle_get_response).                        *)
THEOREM RequestTypes == RequestSpec => []RequestTypeOK
<1>1. RequestInv => RequestTypeOK
  <2> SUFFICES ASSUME RequestInv PROVE RequestTypeOK
    OBVIOUS
  <2> USE DEF RequestInv
  <2>1. pc = "done" => answer # NoAnswer /\ answer.reading \in Readings
    BY RequestAssumption DEF Answered, Asked, Reading, Page, NoAnswer, Readings
  <2>2. pc = "done" => answer.path \notin {<<>>, <<Slash>>}
    <3>1. Unset \notin {<<>>, <<Slash>>}
      <4>1. <<>> \in Seq(Signs) /\ <<Slash>> \in Seq(Signs)
        BY RequestAssumption
      <4> QED BY <4>1, RequestAssumption
    <3>2. \A s : PathOf(s) \notin {<<>>, <<Slash>>}
      BY RequestAssumption DEF PathOf
    <3>3. \A s : Asked(s).path \notin {<<>>, <<Slash>>}
      BY <3>1, <3>2 DEF Asked, Reading, Page
    <3> QED BY <3>1, <3>3 DEF Answered, Reading
  <2> QED BY <2>1, <2>2 DEF RequestTypeOK, Split, List, Answered
<1> QED BY <1>1, RequestStarts, RequestKeeps, PTL DEF RequestSpec

(* How the network cuts a request changes nothing but whether its first     *)
(* line has come, in any request (handle_client).                           *)
THEOREM Cut == RequestSpec => []CutAnywhere
<1>1. RequestInv => CutAnywhere
  <2> SUFFICES ASSUME RequestInv, pc = "done"
               PROVE  /\ FirstEnds(text) = {} => answer = Reading("nothing")
                      /\ FirstEnds(text) # {} =>
                           LET line == FirstLine(sent) IN
                           /\ answer = Asked(Header(line).value)
                           /\ AsBrowsersSend(line) =>
                                LET path == SubSeq(line, 3, Len(line) - 2)
                                IN answer.path = IF path = <<Slash>> THEN Index ELSE path
    BY DEF CutAnywhere
  <2> USE DEF RequestInv
  <2>1. headers # <<>>
    BY DEF Split
  <2>2. CASE FirstEnds(text) = {}
    BY <2>1, <2>2 DEF List, Answered
  <2>3. CASE FirstEnds(text) # {}
    <3>1. FirstLine(text) = FirstLine(sent) /\ FirstLine(sent) \in Seq(Signs)
      BY <2>3, TextType, FirstLineStays DEF Came
    <3>2. Header(FirstLine(sent)).value # Unset
      <4>1. Header(FirstLine(sent)).value \in Seq(Signs)
        BY <3>1, HeaderType DEF Entry
      <4> QED BY <4>1, RequestAssumption
    <3>3. answer = Asked(Header(FirstLine(sent)).value)
      BY <2>1, <2>3, <3>1, <3>2 DEF List, Answered
    <3> QED BY <2>3, <3>1, <3>3, BrowserLine
  <2> QED BY <2>2, <2>3
<1> QED BY <1>1, RequestStarts, RequestKeeps, PTL DEF RequestSpec
-----------------------------------------------------------------------------
(* The headers of a request.                                                *)

\* The lines split off so far that give a key its first value, and the place
\* of such a line among all of them.
FirstsYet == {e \in Firsts(text) : e < rest}
Place(e)  == Cardinality({d \in Firsts(text) : d <= e})

Gathered ==
  /\ Placed(text, rest, end)
  /\ pc = "split" =>
       /\ Len(headers) = Cardinality(FirstsYet)
       /\ \A e \in FirstsYet : headers[Place(e)] = Header(Line(text, e))
       /\ \A i \in DOMAIN headers : \E e \in FirstsYet : headers[i] = Header(Line(text, e))
  /\ HeadersAreTheText

LEMMA FirstsFinite ==
  ASSUME text \in Seq(Signs)
  PROVE  /\ Firsts(text) \subseteq LineEnds(text) /\ LineEnds(text) \subseteq 1 .. Len(text)
         /\ \A S \in SUBSET Firsts(text) : IsFiniteSet(S)
<1>1. Firsts(text) \subseteq LineEnds(text) /\ LineEnds(text) \subseteq 1 .. Len(text)
  BY DEF Firsts, LineEnds
<1>2. IsFiniteSet(1 .. Len(text))
  BY FS_Interval
<1> QED BY <1>1, <1>2, FS_Subset

(* Every line has the key of one that is the first with its key.            *)
LEMMA FirstWithKey ==
  ASSUME text \in Seq(Signs), NEW e \in LineEnds(text)
  PROVE  \E d \in Firsts(text) : d <= e /\ Header(Line(text, d)).key = Header(Line(text, e)).key
<1> DEFINE S == {d \in LineEnds(text) : Header(Line(text, d)).key = Header(Line(text, e)).key}
<1>1. S \in SUBSET Nat /\ S # {}
  BY DEF LineEnds
<1>2. PICK d \in S : \A x \in S : d <= x
  <2> HIDE DEF S
  <2> QED BY <1>1, LeastExists
<1>3. ASSUME NEW x \in LineEnds(text), x < d
      PROVE  Header(Line(text, x)).key # Header(Line(text, d)).key
  <2>1. x \in Nat /\ d \in Nat
    BY DEF LineEnds
  <2>2. x \notin S
    BY <1>2, <1>3, <2>1
  <2> QED BY <1>2, <2>2
<1>4. d \in Firsts(text)
  BY <1>3 DEF Firsts
<1> QED BY <1>2, <1>4

(* The places of the lines split off so far are those of the list.          *)
LEMMA PlaceIs ==
  ASSUME text \in Seq(Signs), rest \in Nat, NEW e \in FirstsYet
  PROVE  Place(e) \in 1 .. Cardinality(FirstsYet)
<1> DEFINE S == {d \in Firsts(text) : d <= e}
<1>1. S \subseteq FirstsYet /\ e \in S
  BY FirstsFinite DEF FirstsYet
<1>2. IsFiniteSet(FirstsYet) /\ IsFiniteSet(S)
  BY FirstsFinite DEF FirstsYet
<1> HIDE DEF S
<1>3. Cardinality(S) <= Cardinality(FirstsYet) /\ Cardinality(S) \in Nat /\ Cardinality(FirstsYet) \in Nat
  BY <1>1, <1>2, FS_Subset, FS_CardinalityType
<1>4. Cardinality(S) # 0
  BY <1>1, <1>2, FS_EmptySet
<1> QED BY <1>3, <1>4 DEF Place, S

LEMMA GatheredStarts == ASSUME RequestInit, RequestInv PROVE Gathered
<1>1. text \in Seq(Signs)
  BY TextType DEF RequestInv
<1>2. Placed(text, rest, end)
  BY <1>1 DEF RequestInit, Placed
<1>3. FirstsYet = {}
  <2>1. \A e \in Firsts(text) : e \in 1 .. Len(text)
    BY <1>1, FirstsFinite
  <2> QED BY <2>1 DEF FirstsYet, RequestInit
<1>4. Len(headers) = Cardinality(FirstsYet) /\ DOMAIN headers = {}
  BY <1>3, FS_EmptySet DEF RequestInit
<1> QED BY <1>2, <1>3, <1>4 DEF Gathered, HeadersAreTheText, RequestInit

LEMMA LastRoundGathers ==
  ASSUME RequestInv, Gathered, BuildHeaders, NextLine(text, rest, end) = Unset
  PROVE  Gathered'
<1> DEFINE x == [key |-> <<RequestKey>>, value |-> Unset]
           n == Len(headers)
<1>1. /\ pc = "split" /\ pc' = "answer" /\ UNCHANGED <<text, rest, end>>
      /\ headers' = WithHeader(x)
  BY DEF BuildHeaders
<1>2. text \in Seq(Signs) /\ headers \in Seq(Entries) /\ rest \in Nat
  BY TextType DEF RequestInv, List, Split
<1>3. FirstsYet = Firsts(text)
  <2>1. \A e \in LineEnds(text) : e < rest
    BY <1>2, NextLineIs DEF Gathered
  <2> QED BY <1>2, <2>1, FirstsFinite DEF FirstsYet
<1>4. /\ n = Cardinality(Firsts(text)) /\ n \in Nat /\ DOMAIN headers = 1 .. n
      /\ \A e \in Firsts(text) : headers[Place(e)] = Header(Line(text, e)) /\ Place(e) \in 1 .. n
      /\ \A i \in 1 .. n : \E e \in Firsts(text) : headers[i] = Header(Line(text, e))
  <2>1. n \in Nat /\ DOMAIN headers = 1 .. n
    BY <1>2
  <2>2. n = Cardinality(FirstsYet)
    BY <1>1 DEF Gathered
  <2>3. \A e \in FirstsYet : Place(e) \in 1 .. n
    BY <1>2, <2>2, PlaceIs
  <2>4. /\ \A e \in FirstsYet : headers[Place(e)] = Header(Line(text, e))
        /\ \A i \in DOMAIN headers : \E e \in FirstsYet : headers[i] = Header(Line(text, e))
    BY <1>1 DEF Gathered
  <2> QED BY <1>3, <2>1, <2>2, <2>3, <2>4
<1> DEFINE given == {Header(Line(text, e)) : e \in Firsts(text)}
<1>5. (\E h \in given : h.key = <<RequestKey>>) <=> \E i \in 1 .. n : headers[i].key = <<RequestKey>>
  BY <1>4
<1>6. /\ SubSeq(headers', n + 1, Len(headers')) =
           IF \E h \in given : h.key = <<RequestKey>> THEN <<>> ELSE <<x>>
      /\ \A i \in 1 .. n : headers'[i] = headers[i]
  <2>1. CASE \E i \in 1 .. n : headers[i].key = <<RequestKey>>
    <3>1. headers' = headers
      BY <1>1, <1>4, <2>1 DEF WithHeader
    <3>2. SubSeq(headers, n + 1, n) = <<>>
      BY <1>2, <1>4
    <3> QED BY <1>5, <2>1, <3>1, <3>2
  <2>2. CASE ~ \E i \in 1 .. n : headers[i].key = <<RequestKey>>
    <3>1. headers' = Append(headers, x)
      BY <1>1, <1>4, <2>2 DEF WithHeader
    <3> HIDE DEF x
    <3>2. /\ Len(Append(headers, x)) = n + 1 /\ Append(headers, x)[n + 1] = x
          /\ \A i \in 1 .. n : Append(headers, x)[i] = headers[i]
      BY <1>2, <1>4
    <3>3. SubSeq(Append(headers, x), n + 1, n + 1) = <<x>>
      <4> DEFINE s == Append(headers, x)
      <4>1. s \in Seq(Entries \cup {x})
        BY <1>2
      <4>2. Len(s) = n + 1 /\ s[n + 1] = x
        BY <3>2
      <4> HIDE DEF s
      <4>3. SubSeq(s, n + 1, n + 1) = <<s[n + 1]>>
        <5> DEFINE q == SubSeq(s, n + 1, n + 1)
        <5>1. n + 1 \in 1 .. Len(s) /\ n \in Nat
          BY <1>4, <4>2
        <5> HIDE DEF n
        <5>2. q \in Seq(Entries \cup {x}) /\ Len(q) = 1 /\ q[1] = s[n + 1]
          BY <4>1, <5>1
        <5> HIDE DEF q
        <5>3. q = <<q[1]>>
          BY <5>2
        <5> QED BY <5>2, <5>3 DEF q
      <4> QED BY <4>2, <4>3 DEF s
    <3> QED BY <1>5, <2>2, <3>1, <3>2, <3>3
  <2> QED BY <2>1, <2>2
<1> HIDE DEF n
<1>7. \A e \in Firsts(text) : headers'[Place(e)] = Header(Line(text, e))
  BY <1>4, <1>6
<1>8. HeadersAreTheText'
  <2>1. text' = text /\ n = Cardinality(Firsts(text))
    BY <1>1, <1>4
  <2>2. SubSeq(headers', Cardinality(Firsts(text)) + 1, Len(headers')) =
          IF \E h \in given : h.key = <<RequestKey>> THEN <<>> ELSE <<x>>
    BY <1>6, <2>1
  <2> QED BY <1>7, <2>1, <2>2 DEF HeadersAreTheText, Place
<1>9. Placed(text, rest, end)'
  BY <1>1 DEF Gathered
<1> QED BY <1>1, <1>8, <1>9 DEF Gathered

LEMMA RoundGathers ==
  ASSUME RequestInv, Gathered, BuildHeaders, NextLine(text, rest, end) # Unset
  PROVE  Gathered'
<1> DEFINE l == NextLine(text, rest, end)
           e == l.to
           h == Header(Line(text, e))
           n == Len(headers)
<1>1. text \in Seq(Signs) /\ headers \in Seq(Entries) /\ rest \in Nat
  BY TextType DEF RequestInv, List, Split
<1>2. /\ e \in LineEnds(text) /\ rest <= e
      /\ \A d \in LineEnds(text) : d < l.rest <=> d < rest \/ d = e
      /\ [from |-> l.from, to |-> l.to] = LineOf(text, e) /\ Placed(text, l.rest, l.end)
  BY <1>1, NextLineIs DEF Gathered
<1>3. SubSeq(text, l.from, l.to - 1) = Line(text, e)
  <2>1. LineOf(text, e).from = l.from /\ LineOf(text, e).to = l.to
    <3> HIDE DEF l
    <3>1. [from |-> l.from, to |-> l.to].from = l.from /\ [from |-> l.from, to |-> l.to].to = l.to
      OBVIOUS
    <3> QED BY <1>2, <3>1
  <2> HIDE DEF l
  <2> QED BY <2>1 DEF Line
<1>4. /\ pc = "split" /\ pc' = "split" /\ text' = text
      /\ rest' = l.rest /\ end' = l.end /\ headers' = WithHeader(h)
  BY <1>3 DEF BuildHeaders
<1> HIDE DEF l, e, h
<1>5. /\ n = Cardinality(FirstsYet) /\ n \in Nat /\ DOMAIN headers = 1 .. n
      /\ \A d \in FirstsYet : headers[Place(d)] = Header(Line(text, d)) /\ Place(d) \in 1 .. n
      /\ \A i \in 1 .. n : \E d \in FirstsYet : headers[i] = Header(Line(text, d))
  <2>1. n \in Nat /\ DOMAIN headers = 1 .. n
    BY <1>1
  <2>2. /\ n = Cardinality(FirstsYet)
        /\ \A d \in FirstsYet : headers[Place(d)] = Header(Line(text, d))
        /\ \A i \in DOMAIN headers : \E d \in FirstsYet : headers[i] = Header(Line(text, d))
    BY <1>4 DEF Gathered
  <2>3. \A d \in FirstsYet : Place(d) \in 1 .. n
    BY <1>1, <2>2, PlaceIs
  <2> QED BY <2>1, <2>2, <2>3
<1> HIDE DEF n
<1>6. e \in Nat /\ l.rest \in Nat /\ LineEnds(text) \subseteq Nat /\ Firsts(text) \subseteq LineEnds(text)
  BY <1>1, <1>2, FirstsFinite DEF Placed
<1>7. FirstsYet' = FirstsYet \cup ({e} \cap Firsts(text)) /\ e \notin FirstsYet
  <2>1. FirstsYet' = {d \in Firsts(text) : d < l.rest}
    BY <1>4 DEF FirstsYet
  <2>2. \A d \in Firsts(text) : d < l.rest <=> d < rest \/ d = e
    BY <1>2, <1>6
  <2>3. ~(e < rest)
    BY <1>1, <1>2, <1>6
  <2> QED BY <2>1, <2>2, <2>3 DEF FirstsYet
<1>8. e \in Firsts(text) <=> ~ \E i \in DOMAIN headers : headers[i].key = h.key
  <2>1. ASSUME e \in Firsts(text), NEW i \in 1 .. n
        PROVE  headers[i].key # h.key
    <3>1. PICK d \in FirstsYet : headers[i] = Header(Line(text, d))
      BY <1>5
    <3>2. d < e /\ d \in LineEnds(text)
      BY <1>1, <1>2, <1>6 DEF FirstsYet
    <3> QED BY <2>1, <3>1, <3>2 DEF Firsts, h
  <2>2. ASSUME e \notin Firsts(text)
        PROVE  \E i \in 1 .. n : headers[i].key = h.key
    <3>1. PICK d \in Firsts(text) : d <= e /\ Header(Line(text, d)).key = h.key
      BY <1>1, <1>2, FirstWithKey DEF h
    <3>2. d < e /\ e < l.rest
      BY <1>2, <1>6, <2>2, <3>1
    <3>3. d \in FirstsYet
      BY <1>2, <1>6, <3>1, <3>2 DEF FirstsYet
    <3> QED BY <1>5, <3>1, <3>3
  <2> QED BY <1>5, <2>1, <2>2
<1>9. \A d : Place(d)' = Place(d) /\ Header(Line(text, d))' = Header(Line(text, d))
  BY <1>4 DEF Place
<1>10. Placed(text, rest, end)' /\ HeadersAreTheText'
  BY <1>2, <1>4 DEF HeadersAreTheText
<1>11. CASE e \notin Firsts(text)
  <2>1. headers' = headers /\ FirstsYet' = FirstsYet
    BY <1>4, <1>7, <1>8, <1>11 DEF WithHeader
  <2> QED BY <1>4, <1>9, <1>10, <2>1 DEF Gathered
<1>12. CASE e \in Firsts(text)
  <2>1. headers' = Append(headers, h)
    BY <1>4, <1>8, <1>12 DEF WithHeader
  <2>2. /\ Len(headers') = n + 1 /\ headers'[n + 1] = h /\ DOMAIN headers' = 1 .. n + 1
        /\ \A i \in 1 .. n : headers'[i] = headers[i]
    BY <1>1, <1>5, <2>1 DEF n
  <2>3. FirstsYet' = FirstsYet \cup {e} /\ IsFiniteSet(FirstsYet)
    BY <1>1, <1>7, <1>12, FirstsFinite DEF FirstsYet
  <2>4. Cardinality(FirstsYet \cup {e}) = n + 1
    BY <1>5, <1>7, <2>3, FS_AddElement
  <2>5. Place(e) = n + 1
    <3>1. {d \in Firsts(text) : d <= e} = FirstsYet \cup {e}
      BY <1>1, <1>2, <1>6, <1>12 DEF FirstsYet
    <3> QED BY <2>4, <3>1 DEF Place
  <2>6. \A d \in FirstsYet' : headers'[Place(d)] = Header(Line(text, d))
    BY <1>5, <2>2, <2>3, <2>5 DEF h
  <2>7. \A i \in 1 .. n + 1 : \E d \in FirstsYet' : headers'[i] = Header(Line(text, d))
    <3> TAKE i \in 1 .. n + 1
    <3>1. CASE i = n + 1
      BY <2>2, <2>3, <3>1 DEF h
    <3>2. CASE i # n + 1
      <4>1. i \in 1 .. n
        BY <1>5, <3>2
      <4> QED BY <1>5, <2>2, <2>3, <4>1
    <3> QED BY <3>1, <3>2
  <2> QED BY <1>9, <1>10, <2>2, <2>3, <2>4, <2>6, <2>7 DEF Gathered
<1> QED BY <1>11, <1>12

(* The headers are those of the request, whatever it is made of             *)
(* (hash_list_build_http_header_from_lines, hash_list_add).                 *)
THEOREM HeadersOfTheText == RequestSpec => []HeadersAreTheText
<1>1. RequestInit => RequestInv /\ Gathered
  BY RequestStarts, GatheredStarts
<1>2. RequestInv /\ Gathered /\ [RequestNext]_requestVars => RequestInv' /\ Gathered'
  <2> SUFFICES ASSUME RequestInv, Gathered, [RequestNext]_requestVars PROVE RequestInv' /\ Gathered'
    OBVIOUS
  <2>1. CASE BuildHeaders
    BY <2>1, RequestKeeps, LastRoundGathers, RoundGathers
  <2>2. CASE Answer
    BY <2>2, RequestKeeps DEF Answer, Gathered, HeadersAreTheText
  <2>3. CASE UNCHANGED requestVars
    BY <2>3, RequestKeeps DEF requestVars, Gathered, HeadersAreTheText, FirstsYet, Place
  <2> QED BY <2>1, <2>2, <2>3 DEF RequestNext
<1>3. Gathered => HeadersAreTheText
  BY DEF Gathered
<1> QED BY <1>1, <1>2, <1>3, PTL DEF RequestSpec
=============================================================================
