---------------------------- MODULE MCArray_proof ----------------------------
(***************************************************************************)
(* What a `BackedArray` does for every number of chunks, items and futures *)
(* and in every order of its operations.                                   *)
(***************************************************************************)
EXTENDS MCArray, TLAPS, WellFoundedInduction, FiniteSetTheorems, SequenceTheorems

-----------------------------------------------------------------------------
(***************************************************************************)
(* The inductive invariant: KeysTileEntries, and                           *)
(***************************************************************************)
\* no item is in the array twice, and none is younger than the last created;
ItemsInv ==
  /\ LastEnd <= fresh
  /\ \A e \in DOMAIN entries : entries[e].items \in Seq(1..fresh)
  /\ \A e, f \in DOMAIN entries :
       \A k \in DOMAIN entries[e].items, l \in DOMAIN entries[f].items :
         entries[e].items[k] = entries[f].items[l] => e = f /\ k = l

\* the location of a walk is its position;
IterInv ==
  /\ iter.kind \in {"walk", "stream"} /\ ~iter.ended => iter.pos <= LastEnd
  /\ iter.kind = "walk" =>
       /\ iter.entry \in 1..(Len(key_ends) + 1)
       /\ iter.entry <= Len(key_ends) =>
            /\ key_starts[iter.entry] + iter.inside = iter.pos
            /\ iter.pos > 0 => iter.pos < key_ends[iter.entry]
       /\ iter.entry = Len(key_ends) + 1 => iter.pos >= LastEnd

\* a future is for something that is there;
FuturesInv ==
  \A f \in futures : IF f.of = "item" THEN f.at < LastEnd ELSE f.at \in DOMAIN entries

\* and an answer says what the ranges say.
AnswerInv ==
  /\ answer.kind \in {"outside", "end"} => answer.at \in Nat /\ answer.at >= LastEnd
  /\ answer.kind = "gap" =>
       \E e \in DOMAIN entries : entries[e].items = <<>> /\ key_starts[e] = answer.at
  /\ answer.kind = "shrunk" =>
       /\ answer.was \subseteq DOMAIN entries /\ answer.idxs \subseteq Nat
       /\ LoadedChunks = answer.was \cap Needed(answer.idxs)

IInv == TypeOK /\ KeysTileEntries /\ ItemsInv /\ IterInv /\ FuturesInv /\ AnswerInv

-----------------------------------------------------------------------------
(***************************************************************************)
(* Ranges that follow each other from 0.                                   *)
(***************************************************************************)
LEMMA LeastNat ==
  ASSUME NEW S, S \subseteq Nat, S # {}
  PROVE  \E m \in S : \A n \in S : m <= n
PROOF
  <1>1. IsWellFoundedOn(OpToRel(<, Nat), Nat)
    BY NatLessThanWellFounded
  <1>2. PICK m \in S : \A n \in S : ~ (<<n, m>> \in OpToRel(<, Nat))
    BY <1>1, WFMin
  <1>3. ASSUME NEW n \in S PROVE m <= n
    <2>1. ~ (<<n, m>> \in OpToRel(<, Nat))
      BY <1>2
    <2>2. n \in Nat /\ m \in Nat
      OBVIOUS
    <2>3. ~ (n < m)
      BY <2>1, <2>2 DEF OpToRel
    <2> QED  BY <2>2, <2>3
  <1> QED  BY <1>3

\* Induction, for a set of numbers.
LEMMA SetInduction ==
  ASSUME NEW S, 0 \in S, \A n \in Nat : n \in S => n + 1 \in S
  PROVE  Nat \subseteq S
PROOF
  <1> DEFINE Bad == {n \in Nat : n \notin S}
  <1>1. CASE Bad = {}
    BY <1>1
  <1>2. CASE Bad # {}
    <2>1. Bad \subseteq Nat
      OBVIOUS
    <2>2. PICK m \in Bad : \A n \in Bad : m <= n
      <3> HIDE DEF Bad
      <3> QED  BY <1>2, <2>1, LeastNat
    <2>3. m \in Nat /\ m # 0 /\ m \notin S
      OBVIOUS
    <2>4. m - 1 \in Nat /\ ~ (m <= m - 1)
      BY <2>3
    <2>5. m - 1 \in S
      BY <2>2, <2>4
    <2>6. (m - 1) + 1 \in S
      BY <2>4, <2>5
    <2> QED  BY <2>3, <2>6
  <1> QED  BY <1>1, <1>2

Ranges(ks, ke) ==
  /\ ks \in Seq(Nat) /\ ke \in Seq(Nat) /\ Len(ks) = Len(ke)
  /\ \A e \in 1..Len(ke) : ks[e] = (IF e = 1 THEN 0 ELSE ke[e - 1]) /\ ks[e] <= ke[e]

\* Later ranges lie behind earlier ones, and before the last end.
LEMMA RangesSorted ==
  ASSUME NEW ks, NEW ke, Ranges(ks, ke), NEW e \in 1..Len(ke), NEW f \in e..Len(ke)
  PROVE  ke[e] <= ke[f] /\ (e < f => ke[e] <= ks[f])
PROOF
  <1> DEFINE n == Len(ke)
             S == {d \in Nat : e + d <= n => ke[e] <= ke[e + d]}
  <1>1. n \in Nat /\ e \in Nat /\ f \in Nat /\ \A x \in 1..n : ke[x] \in Nat /\ ks[x] \in Nat
    BY DEF Ranges
  <1>2. 0 \in S
    BY <1>1
  <1>3. ASSUME NEW d \in Nat, d \in S PROVE d + 1 \in S
    <2> SUFFICES ASSUME e + (d + 1) <= n PROVE ke[e] <= ke[e + (d + 1)]
      BY <1>1
    <2>1. e + d <= n /\ e + d \in 1..n /\ e + (d + 1) \in 1..n /\ e + (d + 1) # 1
          /\ (e + (d + 1)) - 1 = e + d
      BY <1>1
    <2>2. ke[e] <= ke[e + d]
      BY <1>3, <2>1
    <2>3. ke[e + d] = ks[e + (d + 1)] /\ ks[e + (d + 1)] <= ke[e + (d + 1)]
      BY <2>1 DEF Ranges
    <2>4. ke[e] \in Nat /\ ke[e + d] \in Nat /\ ke[e + (d + 1)] \in Nat
      BY <1>1, <2>1
    <2> QED  BY <2>2, <2>3, <2>4
  <1>4. \A d \in Nat : d \in S
    <2> HIDE DEF S
    <2> QED  BY <1>2, <1>3, SetInduction
  <1>5. \A g \in e..n : ke[e] <= ke[g]
    <2>1. ASSUME NEW g \in e..n PROVE ke[e] <= ke[g]
      <3>1. g - e \in Nat /\ e + (g - e) = g /\ g <= n
        BY <1>1
      <3> QED  BY <3>1, <1>4
    <2> QED  BY <2>1
  <1>6. ASSUME e < f PROVE ke[e] <= ks[f]
    <2>1. f - 1 \in e..n /\ f # 1 /\ f \in 1..n
      BY <1>1, <1>6
    <2> QED  BY <2>1, <1>5 DEF Ranges
  <1> QED  BY <1>5, <1>6

\* The last end is beyond every other; a position before it is in one range,
\* and in no other.
LEMMA RangesCover ==
  ASSUME NEW ks, NEW ke, Ranges(ks, ke)
  PROVE  /\ Width(ke) \in Nat
         /\ \A e \in 1..Len(ke) : /\ ks[e] \in Nat /\ ke[e] \in Nat
                                  /\ ks[e] <= ke[e] /\ ke[e] <= Width(ke)
         /\ \A i \in Nat : i < Width(ke) => \E e \in 1..Len(ke) : ks[e] <= i /\ i < ke[e]
         /\ \A i \in Nat : \A e, f \in 1..Len(ke) :
              ks[e] <= i /\ i < ke[e] /\ ks[f] <= i /\ i < ke[f] => e = f
PROOF
  <1> DEFINE n == Len(ke)
  <1>1. n \in Nat /\ \A x \in 1..n : ke[x] \in Nat /\ ks[x] \in Nat /\ ks[x] <= ke[x]
    BY DEF Ranges
  <1>2. ke = <<>> <=> n = 0
    BY DEF Ranges
  <1>3. n # 0 => Width(ke) = ke[n] /\ n \in 1..n
    BY <1>1, <1>2 DEF Width, Last
  <1>4. n = 0 => Width(ke) = 0
    BY <1>2 DEF Width
  <1>5. Width(ke) \in Nat
    BY <1>1, <1>3, <1>4
  <1>6. ASSUME NEW e \in 1..n PROVE ke[e] <= Width(ke)
    <2>1. n \in e..n /\ n # 0
      BY <1>1
    <2> QED  BY <2>1, <1>3, RangesSorted
  <1>7. ASSUME NEW i \in Nat, i < Width(ke)
        PROVE  \E e \in 1..n : ks[e] <= i /\ i < ke[e]
    <2> DEFINE Beyond == {e \in 1..n : i < ke[e]}
    <2>1. n # 0
      BY <1>4, <1>7
    <2>2. n \in Beyond /\ Beyond \subseteq Nat
      BY <2>1, <1>1, <1>3, <1>7
    <2>3. PICK e \in Beyond : \A f \in Beyond : e <= f
      <3> HIDE DEF Beyond
      <3> QED  BY <2>2, LeastNat
    <2>4. e \in 1..n /\ i < ke[e]
      OBVIOUS
    <2>5. ks[e] <= i
      <3>1. CASE e = 1
        BY <3>1, <2>4 DEF Ranges
      <3>2. CASE e # 1
        <4>1. e - 1 \in 1..n /\ ~ (e <= e - 1) /\ e - 1 \in Nat
          BY <3>2, <2>4, <1>1
        <4>2. ~ (i < ke[e - 1])
          BY <4>1, <2>3
        <4>3. ks[e] = ke[e - 1] /\ ke[e - 1] \in Nat
          BY <4>1, <3>2, <2>4, <1>1 DEF Ranges
        <4> QED  BY <4>2, <4>3
      <3> QED  BY <3>1, <3>2
    <2> QED  BY <2>4, <2>5
  <1>8. ASSUME NEW i \in Nat, NEW e \in 1..n, NEW f \in 1..n,
               ks[e] <= i, i < ke[e], ks[f] <= i, i < ke[f], e # f
        PROVE  FALSE
    <2>1. CASE e < f
      <3>1. f \in e..n
        BY <2>1, <1>1
      <3>2. ke[e] <= ks[f]
        BY <2>1, <3>1, RangesSorted
      <3>3. ke[e] \in Nat /\ ks[f] \in Nat
        BY <1>1
      <3> QED  BY <3>2, <3>3, <1>8
    <2>2. CASE f < e
      <3>1. e \in f..n
        BY <2>2, <1>1
      <3>2. ke[f] <= ks[e]
        BY <2>2, <3>1, RangesSorted
      <3>3. ke[f] \in Nat /\ ks[e] \in Nat
        BY <1>1
      <3> QED  BY <3>2, <3>3, <1>8
    <2> QED  BY <2>1, <2>2, <1>1, <1>8
  <1> QED  BY <1>1, <1>5, <1>6, <1>7, <1>8

-----------------------------------------------------------------------------
(***************************************************************************)
(* Sequences cut and glued.                                                *)
(***************************************************************************)
LEMMA Glue ==
  ASSUME NEW T, NEW s \in Seq(T), NEW t \in Seq(T)
  PROVE  /\ s \o t \in Seq(T) /\ Len(s) \in Nat /\ Len(t) \in Nat
         /\ Len(s \o t) = Len(s) + Len(t)
         /\ \A i \in 1..Len(s) : (s \o t)[i] = s[i]
         /\ \A i \in 1..Len(t) : (s \o t)[Len(s) + i] = t[i]
PROOF
  <1>1. Len(s) \in Nat /\ Len(t) \in Nat
    BY LenProperties
  <1>2. /\ s \o t \in Seq(T) /\ Len(s \o t) = Len(s) + Len(t)
        /\ \A i \in 1..(Len(s) + Len(t)) :
             (s \o t)[i] = IF i <= Len(s) THEN s[i] ELSE t[i - Len(s)]
    BY ConcatProperties
  <1>3. ASSUME NEW i \in 1..Len(s) PROVE (s \o t)[i] = s[i]
    <2>1. i \in 1..(Len(s) + Len(t)) /\ i <= Len(s)
      BY <1>1
    <2> QED  BY <2>1, <1>2
  <1>4. ASSUME NEW i \in 1..Len(t) PROVE (s \o t)[Len(s) + i] = t[i]
    <2>1. /\ Len(s) + i \in 1..(Len(s) + Len(t)) /\ ~ (Len(s) + i <= Len(s))
          /\ (Len(s) + i) - Len(s) = i
      BY <1>1
    <2> QED  BY <2>1, <1>2
  <1> QED  BY <1>1, <1>2, <1>3, <1>4

LEMMA IsSeq ==
  ASSUME NEW T, NEW m \in Nat, NEW f \in [1..m -> T]
  PROVE  f \in Seq(T) /\ Len(f) = m /\ DOMAIN f = 1..m
PROOF
  OBVIOUS

LEMMA GlueNat ==
  ASSUME NEW s \in Seq(Nat), NEW t \in Seq(Nat)
  PROVE  /\ s \o t \in Seq(Nat) /\ Len(s \o t) = Len(s) + Len(t)
         /\ \A i \in 1..Len(s) : (s \o t)[i] = s[i]
         /\ \A i \in 1..Len(t) : (s \o t)[Len(s) + i] = t[i]
PROOF
  BY Glue

LEMMA RemoveAtSkips ==
  ASSUME NEW T, NEW s \in Seq(T), NEW e \in 1..Len(s)
  PROVE  /\ RemoveAt(s, e) \in Seq(T) /\ Len(s) \in Nat
         /\ Len(RemoveAt(s, e)) = Len(s) - 1
         /\ \A i \in 1..(Len(s) - 1) :
              RemoveAt(s, e)[i] = IF i < e THEN s[i] ELSE s[i + 1]
PROOF
  <1> DEFINE a == SubSeq(s, 1, e - 1)
             b == SubSeq(s, e + 1, Len(s))
  <1>1. Len(s) \in Nat /\ e \in Nat /\ \A i \in 1..Len(s) : s[i] \in T
    BY LenProperties, ElementOfSeq
  <1>2. /\ a \in Seq(T) /\ Len(a) = e - 1
        /\ \A i \in 1..(e - 1) : a[i] = s[i]
    <2>1. \A i \in 1..(e - 1) : s[i] \in T
      BY <1>1
    <2>2. /\ a \in Seq(T) /\ Len(a) = (IF 1 <= e - 1 THEN (e - 1) - 1 + 1 ELSE 0)
          /\ \A i \in 1..((e - 1) - 1 + 1) : a[i] = s[1 + i - 1]
      BY <1>1, <2>1, SubSeqProperties
    <2> QED  BY <2>2, <1>1
  <1>3. /\ b \in Seq(T) /\ Len(b) = Len(s) - e
        /\ \A i \in 1..(Len(s) - e) : b[i] = s[e + i]
    <2>1. \A i \in (e + 1)..Len(s) : s[i] \in T
      BY <1>1
    <2>2. /\ b \in Seq(T) /\ Len(b) = (IF e + 1 <= Len(s) THEN Len(s) - (e + 1) + 1 ELSE 0)
          /\ \A i \in 1..(Len(s) - (e + 1) + 1) : b[i] = s[(e + 1) + i - 1]
      BY <1>1, <2>1, SubSeqProperties
    <2> QED  BY <2>2, <1>1
  <1> HIDE DEF a, b
  <1>4. /\ a \o b \in Seq(T) /\ Len(a \o b) = Len(a) + Len(b)
        /\ \A i \in 1..Len(a) : (a \o b)[i] = a[i]
        /\ \A i \in 1..Len(b) : (a \o b)[Len(a) + i] = b[i]
    <2>1. a \in Seq(T) /\ b \in Seq(T)
      BY <1>2, <1>3
    <2>2. ASSUME NEW x \in Seq(T), NEW y \in Seq(T)
          PROVE  /\ x \o y \in Seq(T) /\ Len(x \o y) = Len(x) + Len(y)
                 /\ \A i \in 1..Len(x) : (x \o y)[i] = x[i]
                 /\ \A i \in 1..Len(y) : (x \o y)[Len(x) + i] = y[i]
      BY Glue
    <2> QED  BY <2>1, <2>2, Zenon
  <1>5. ASSUME NEW i \in 1..(Len(s) - 1)
        PROVE  (a \o b)[i] = IF i < e THEN s[i] ELSE s[i + 1]
    <2>1. CASE i < e
      <3>1. i \in 1..(e - 1)
        BY <2>1, <1>1
      <3> QED  BY <3>1, <2>1, <1>2, <1>4
    <2>2. CASE ~ (i < e)
      <3>1. /\ i - (e - 1) \in 1..(Len(s) - e) /\ (e - 1) + (i - (e - 1)) = i
            /\ e + (i - (e - 1)) = i + 1
        BY <2>2, <1>1
      <3>2. (a \o b)[(e - 1) + (i - (e - 1))] = b[i - (e - 1)]
        BY <3>1, <1>2, <1>3, <1>4
      <3>3. b[i - (e - 1)] = s[e + (i - (e - 1))]
        BY <3>1, <1>3
      <3> QED  BY <2>2, <3>1, <3>2, <3>3
    <2> QED  BY <2>1, <2>2
  <1>6. RemoveAt(s, e) = a \o b
    BY DEF RemoveAt, a, b
  <1>7. Len(a \o b) = Len(s) - 1
    BY <1>1, <1>2, <1>3, <1>4
  <1> QED  BY <1>1, <1>4, <1>5, <1>6, <1>7

\* Ranges moved by a width, and ranges with others behind them.
Shifted(ms, rs, w) ==
  ms \in Seq(Nat) /\ Len(ms) = Len(rs) /\ \A i \in 1..Len(rs) : ms[i] = rs[i] + w

Glued(ks, ke, rs, re, xs, xe) ==
  /\ Ranges(xs, xe) /\ Len(xe) = Len(ke) + Len(re)
  /\ \A i \in 1..Len(ke) : xe[i] = ke[i] /\ xs[i] = ks[i]
  /\ \A i \in 1..Len(re) : /\ xe[Len(ke) + i] = re[i] + Width(ke)
                            /\ xs[Len(ke) + i] = rs[i] + Width(ke)
  /\ Width(xe) = Width(ke) + Width(re)

\* The ranges of the one moved behind those of the other (mod.rs:240-250).
LEMMA RangesGlued ==
  ASSUME NEW ks, NEW ke, Ranges(ks, ke), NEW rs, NEW re, Ranges(rs, re),
         NEW ms, NEW me, Shifted(ms, rs, Width(ke)), Shifted(me, re, Width(ke))
  PROVE  Glued(ks, ke, rs, re, ks \o ms, ke \o me)
PROOF
  <1> DEFINE n == Len(ke)
             m == Len(re)
             w == Width(ke)
             xs == ks \o ms
             xe == ke \o me
  <1>1. /\ n \in Nat /\ m \in Nat /\ w \in Nat /\ Len(ks) = n /\ Len(rs) = m
        /\ ks \in Seq(Nat) /\ ke \in Seq(Nat) /\ rs \in Seq(Nat) /\ re \in Seq(Nat)
        /\ DOMAIN rs = 1..m /\ DOMAIN re = 1..m
        /\ \A i \in 1..m : rs[i] \in Nat /\ re[i] \in Nat
    <2>1. /\ Len(ks) = n /\ Len(rs) = m
          /\ ks \in Seq(Nat) /\ ke \in Seq(Nat) /\ rs \in Seq(Nat) /\ re \in Seq(Nat)
      BY DEF Ranges
    <2>2. n \in Nat /\ m \in Nat /\ DOMAIN rs = 1..m /\ DOMAIN re = 1..m
      BY <2>1, LenProperties
    <2>3. w \in Nat
      BY RangesCover
    <2>4. \A i \in 1..m : rs[i] \in Nat /\ re[i] \in Nat
      BY RangesCover
    <2> QED  BY <2>1, <2>2, <2>3, <2>4
  <1>2. ms \in Seq(Nat) /\ Len(ms) = m /\ me \in Seq(Nat) /\ Len(me) = m
    BY <1>1 DEF Shifted
  <1>3. \A i \in 1..m : ms[i] = rs[i] + w /\ me[i] = re[i] + w
    BY <1>1 DEF Shifted
  <1> HIDE DEF w
  <1>4. /\ xe \in Seq(Nat) /\ Len(xe) = n + m
        /\ \A i \in 1..n : xe[i] = ke[i]
        /\ \A i \in 1..m : xe[n + i] = me[i]
    <2>1. ke \in Seq(Nat) /\ me \in Seq(Nat) /\ Len(me) = m
      BY <1>1, <1>2
    <2>2. /\ xe \in Seq(Nat) /\ Len(xe) = Len(ke) + Len(me)
          /\ \A i \in 1..Len(ke) : xe[i] = ke[i]
          /\ \A i \in 1..Len(me) : xe[Len(ke) + i] = me[i]
      BY <2>1, GlueNat, Zenon
    <2> QED  BY <2>1, <2>2
  <1>5. /\ xs \in Seq(Nat) /\ Len(xs) = n + m
        /\ \A i \in 1..n : xs[i] = ks[i]
        /\ \A i \in 1..m : xs[n + i] = ms[i]
    <2>1. ks \in Seq(Nat) /\ ms \in Seq(Nat) /\ Len(ms) = m /\ Len(ks) = n
      BY <1>1, <1>2
    <2>2. /\ xs \in Seq(Nat) /\ Len(xs) = Len(ks) + Len(ms)
          /\ \A i \in 1..Len(ks) : xs[i] = ks[i]
          /\ \A i \in 1..Len(ms) : xs[Len(ks) + i] = ms[i]
      BY <2>1, GlueNat, Zenon
    <2> QED  BY <2>1, <2>2
  <1> HIDE DEF xs, xe
  <1>6. n # 0 => w = ke[n]
    <2>1. n # 0 => ke # <<>>
      BY <1>1
    <2> QED  BY <2>1 DEF w, Width, Last
  <1>7. n = 0 => w = 0
    <2>1. n = 0 => ke = <<>>
      BY <1>1
    <2> QED  BY <2>1 DEF w, Width
  <1>8. ASSUME NEW e \in 1..(n + m)
        PROVE  xs[e] = (IF e = 1 THEN 0 ELSE xe[e - 1]) /\ xs[e] <= xe[e]
    <2>1. CASE e <= n
      <3>1. e \in 1..n /\ (e # 1 => e - 1 \in 1..n)
        BY <2>1, <1>1
      <3>2. ks[e] = (IF e = 1 THEN 0 ELSE ke[e - 1]) /\ ks[e] <= ke[e]
        BY <3>1 DEF Ranges
      <3> QED  BY <3>1, <3>2, <1>4, <1>5
    <2>2. CASE e > n
      <3>1. PICK i \in 1..m : n + i = e
        <4>1. e - n \in 1..m /\ n + (e - n) = e
          BY <2>2, <1>1
        <4> QED  BY <4>1
      <3>2. xs[e] = rs[i] + w /\ xe[e] = re[i] + w
        BY <3>1, <1>3, <1>4, <1>5
      <3>3. rs[i] = (IF i = 1 THEN 0 ELSE re[i - 1]) /\ rs[i] <= re[i]
        BY <3>1 DEF Ranges
      <3>4. rs[i] \in Nat /\ re[i] \in Nat
        BY <3>1, <1>1
      <3>5. xs[e] <= xe[e]
        <4>1. w \in Nat /\ rs[i] <= re[i] /\ rs[i] \in Nat /\ re[i] \in Nat
          BY <3>3, <3>4, <1>1
        <4>2. rs[i] + w <= re[i] + w
          BY <4>1
        <4> QED  BY <3>2, <4>2
      <3>6. CASE i = 1
        <4>1. xs[e] = w /\ (e = 1 => n = 0) /\ (e # 1 => e - 1 = n /\ n # 0 /\ n \in 1..n)
          BY <3>1, <3>2, <3>3, <3>6, <1>1
        <4>2. e # 1 => xe[e - 1] = w
          BY <4>1, <1>4, <1>6
        <4>3. e = 1 => xs[e] = 0
          BY <4>1, <1>7
        <4> QED  BY <3>5, <4>1, <4>2, <4>3
      <3>7. CASE i # 1
        <4>1. i - 1 \in 1..m /\ n + (i - 1) = e - 1 /\ e # 1
          <5> HIDE DEF n, m
          <5> QED  BY <3>1, <3>7, <1>1
        <4>2. xe[n + (i - 1)] = re[i - 1] + w
          BY <4>1, <1>3, <1>4
        <4>3. xe[e - 1] = xs[e]
          BY <3>2, <3>3, <3>7, <4>1, <4>2
        <4> QED  BY <3>5, <4>1, <4>3
      <3> QED  BY <3>6, <3>7
    <2> QED  BY <2>1, <2>2, <1>1
  <1>9. Ranges(xs, xe)
    BY <1>4, <1>5, <1>8 DEF Ranges
  <1>10. Width(xe) = w + Width(re)
    <2>1. CASE m = 0
      <3>1. re = <<>> /\ Len(xe) = n /\ (n = 0 => xe = <<>>) /\ (n # 0 => xe # <<>>)
        BY <2>1, <1>1, <1>4
      <3>2. Width(re) = 0
        BY <3>1 DEF Width
      <3>3. n # 0 => xe[n] = ke[n]
        BY <1>1, <1>4
      <3>4. Width(xe) = w
        BY <3>1, <3>3, <1>6, <1>7, <1>1 DEF Width, Last
      <3> QED  BY <3>2, <3>4, <1>1
    <2>2. CASE m # 0
      <3>1. re # <<>> /\ xe # <<>> /\ m \in 1..m
        BY <2>2, <1>1, <1>4
      <3>2. Width(re) = re[m] /\ Width(xe) = xe[n + m]
        BY <3>1, <1>4 DEF Width, Last
      <3>3. xe[n + m] = re[m] + w /\ re[m] \in Nat
        BY <3>1, <1>3, <1>4, <1>1
      <3> QED  BY <3>2, <3>3, <1>1
    <2> QED  BY <2>1, <2>2
  <1>11. /\ \A i \in 1..n : xe[i] = ke[i] /\ xs[i] = ks[i]
         /\ \A i \in 1..m : xe[n + i] = re[i] + w /\ xs[n + i] = rs[i] + w
    BY <1>3, <1>4, <1>5
  <1> QED  BY <1>4, <1>5, <1>9, <1>10, <1>11 DEF xs, xe, w, Glued

Cut(ks, ke, e, xs, xe) ==
  /\ Ranges(xs, xe) /\ Len(xe) = Len(ke) - 1
  /\ \A i \in 1..(Len(ke) - 1) :
       /\ i < e => xe[i] = ke[i] /\ xs[i] = ks[i]
       /\ ~ (i < e) => /\ xe[i] = ke[i + 1] - (ke[e] - ks[e])
                       /\ xs[i] = ks[i + 1] - (ke[e] - ks[e])
  /\ Width(xe) = Width(ke) - (ke[e] - ks[e])

\* A range taken out, and those behind it moved by its width (mod.rs:219-230).
LEMMA RangesCut ==
  ASSUME NEW ks, NEW ke, Ranges(ks, ke), NEW e \in 1..Len(ke),
         NEW xs, NEW xe,
         xs = RemoveKey(ks, e, ke[e] - ks[e]), xe = RemoveKey(ke, e, ke[e] - ks[e])
  PROVE  Cut(ks, ke, e, xs, xe)
PROOF
  <1> DEFINE n == Len(ke)
             w == ke[e] - ks[e]
  <1>1. /\ n \in Nat /\ e \in Nat /\ ks \in Seq(Nat) /\ ke \in Seq(Nat) /\ Len(ks) = n
        /\ \A i \in 1..n : ks[i] \in Nat /\ ke[i] \in Nat /\ ks[i] <= ke[i]
        /\ w \in Nat
    <2>1. \A i \in 1..n : ks[i] \in Nat /\ ke[i] \in Nat /\ ks[i] <= ke[i]
      BY RangesCover
    <2> QED  BY <2>1 DEF Ranges
  <1>2. /\ \A i \in 1..(n - 1) : RemoveAt(ks, e)[i] = IF i < e THEN ks[i] ELSE ks[i + 1]
        /\ \A i \in 1..(n - 1) : RemoveAt(ke, e)[i] = IF i < e THEN ke[i] ELSE ke[i + 1]
    <2>1. ks \in Seq(Nat) /\ ke \in Seq(Nat) /\ e \in 1..Len(ks) /\ e \in 1..Len(ke)
          /\ Len(ks) = n
      BY <1>1
    <2>2. \A i \in 1..(Len(ks) - 1) : RemoveAt(ks, e)[i] = IF i < e THEN ks[i] ELSE ks[i + 1]
      BY <2>1, RemoveAtSkips
    <2>3. \A i \in 1..(Len(ke) - 1) : RemoveAt(ke, e)[i] = IF i < e THEN ke[i] ELSE ke[i + 1]
      BY <2>1, RemoveAtSkips
    <2> QED  BY <2>1, <2>2, <2>3
  <1> HIDE DEF w
  <1>3. /\ xs = [i \in 1..(n - 1) |-> IF i < e THEN ks[i] ELSE RemoveAt(ks, e)[i] - w]
        /\ xe = [i \in 1..(n - 1) |-> IF i < e THEN ke[i] ELSE RemoveAt(ke, e)[i] - w]
    BY <1>1 DEF RemoveKey, w
  <1>4. ASSUME NEW i \in 1..(n - 1), ~ (i < e)
        PROVE  /\ i + 1 \in 1..n /\ i + 1 # 1
               /\ w <= ks[i + 1] /\ w <= ke[i + 1]
               /\ xe[i] = ke[i + 1] - w /\ xs[i] = ks[i + 1] - w
    <2>1. i + 1 \in e..n /\ e < i + 1 /\ i + 1 \in 1..n /\ i + 1 # 1
      BY <1>1, <1>4
    <2>2. ke[e] <= ks[i + 1]
      BY <2>1, RangesSorted
    <2>3. /\ ke[e] \in Nat /\ ks[e] \in Nat /\ ks[i + 1] \in Nat /\ ke[i + 1] \in Nat
          /\ ks[i + 1] <= ke[i + 1] /\ w <= ke[e]
      BY <2>1, <1>1 DEF w
    <2>4. w <= ks[i + 1] /\ w <= ke[i + 1]
      BY <2>2, <2>3, <1>1
    <2> QED  BY <2>1, <2>4, <1>2, <1>3, <1>4
  <1>5. \A i \in 1..(n - 1) : i < e => xe[i] = ke[i] /\ xs[i] = ks[i] /\ i \in 1..n
    <2>1. \A i \in 1..(n - 1) : i \in 1..n
      BY <1>1
    <2> QED  BY <2>1, <1>3
  <1>6. \A i \in 1..(n - 1) : xs[i] \in Nat /\ xe[i] \in Nat
    <2>1. ASSUME NEW i \in 1..(n - 1) PROVE xs[i] \in Nat /\ xe[i] \in Nat
      <3>1. CASE i < e
        BY <3>1, <1>5, <1>1
      <3>2. CASE ~ (i < e)
        <4>1. /\ i + 1 \in 1..n /\ w <= ks[i + 1] /\ w <= ke[i + 1]
              /\ xe[i] = ke[i + 1] - w /\ xs[i] = ks[i + 1] - w
          BY <3>2, <1>4
        <4>2. ks[i + 1] \in Nat /\ ke[i + 1] \in Nat /\ w \in Nat
          BY <4>1, <1>1
        <4>3. ks[i + 1] - w \in Nat /\ ke[i + 1] - w \in Nat
          BY <4>1, <4>2
        <4> QED  BY <4>1, <4>3
      <3> QED  BY <3>1, <3>2
    <2> QED  BY <2>1
  <1>7. xs \in Seq(Nat) /\ Len(xs) = n - 1 /\ xe \in Seq(Nat) /\ Len(xe) = n - 1
    <2>1. n - 1 \in Nat
      BY <1>1
    <2>2. xs \in [1..(n - 1) -> Nat] /\ xe \in [1..(n - 1) -> Nat]
      BY <1>3, <1>6
    <2> HIDE DEF n
    <2> QED  BY <2>1, <2>2
  <1>8. ASSUME NEW i \in 1..(n - 1)
        PROVE  xs[i] = (IF i = 1 THEN 0 ELSE xe[i - 1]) /\ xs[i] <= xe[i]
    <2>1. CASE i < e
      <3>1. i \in 1..n /\ (i # 1 => i - 1 \in 1..(n - 1) /\ i - 1 < e)
        BY <2>1, <1>1
      <3>2. ks[i] = (IF i = 1 THEN 0 ELSE ke[i - 1]) /\ ks[i] <= ke[i]
        BY <3>1 DEF Ranges
      <3> QED  BY <2>1, <3>1, <3>2, <1>5
    <2>2. CASE ~ (i < e)
      <3>1. /\ i + 1 \in 1..n /\ i + 1 # 1 /\ (i + 1) - 1 = i
            /\ w <= ks[i + 1] /\ w <= ke[i + 1]
            /\ xe[i] = ke[i + 1] - w /\ xs[i] = ks[i + 1] - w
        BY <2>2, <1>4
      <3>2. ks[i + 1] = ke[i] /\ ks[i + 1] <= ke[i + 1]
        BY <3>1 DEF Ranges
      <3>3. /\ ks[i + 1] \in Nat /\ ke[i + 1] \in Nat /\ i \in 1..n /\ ke[i] \in Nat
            /\ ke[e] \in Nat /\ ks[e] \in Nat
        <4>1. i \in 1..n /\ i + 1 \in 1..n /\ e \in 1..n
          BY <3>1, <1>1
        <4> HIDE DEF n
        <4> QED  BY <4>1, <1>1
      <3>4. xs[i] <= xe[i]
        BY <3>1, <3>2, <3>3, <1>1
      <3>5. CASE i = e
        <4>1. xs[i] = ks[e]
          BY <3>1, <3>2, <3>3, <3>5 DEF w
        <4>2. ks[e] = (IF e = 1 THEN 0 ELSE ke[e - 1])
          BY DEF Ranges
        <4>3. e # 1 => e - 1 \in 1..(n - 1) /\ e - 1 < e
          BY <3>5, <1>1
        <4> QED  BY <3>4, <3>5, <4>1, <4>2, <4>3, <1>5
      <3>6. CASE i # e
        <4>1. i - 1 \in 1..(n - 1) /\ ~ (i - 1 < e) /\ i # 1 /\ (i - 1) + 1 = i
          BY <2>2, <3>6, <1>1
        <4>2. xe[i - 1] = ke[i] - w
          BY <4>1, <1>4
        <4> QED  BY <3>1, <3>2, <3>4, <4>1, <4>2
      <3> QED  BY <3>5, <3>6
    <2> QED  BY <2>1, <2>2
  <1>9. Ranges(xs, xe)
    BY <1>7, <1>8 DEF Ranges
  <1>10. Width(xe) = Width(ke) - w
    <2>1. ke # <<>> /\ Width(ke) = ke[n] /\ n \in 1..n /\ ke[n] \in Nat
      <3>1. n # 0
        BY <1>1
      <3>2. ke # <<>>
        BY <3>1, <1>1
      <3> QED  BY <3>1, <3>2, <1>1 DEF Width, Last
    <2>2. CASE n = 1
      <3>1. xe = <<>> /\ e = 1
        BY <2>2, <1>1, <1>7
      <3>2. ks[1] = 0 /\ ke[1] \in Nat
        BY <2>1, <2>2, <1>1 DEF Ranges
      <3>3. Width(xe) = 0 /\ w = ke[1]
        BY <3>1, <3>2 DEF Width, w
      <3> QED  BY <2>1, <2>2, <3>2, <3>3
    <2>3. CASE n # 1
      <3>1. n - 1 \in 1..(n - 1) /\ (n - 1) + 1 = n /\ xe # <<>>
        <4> HIDE DEF n
        <4>1. n \in Nat /\ n # 0 /\ n # 1
          BY <2>1, <2>3, <1>1
        <4>2. n - 1 \in 1..(n - 1) /\ (n - 1) + 1 = n /\ n - 1 # 0
          BY <4>1
        <4>3. Len(xe) # 0
          BY <4>2, <1>7
        <4> QED  BY <4>2, <4>3
      <3>2. Width(xe) = xe[n - 1]
        BY <3>1, <1>7 DEF Width, Last
      <3>3. CASE n - 1 < e
        <4>1. e = n
          BY <3>3, <1>1
        <4>4. xe[n - 1] = ke[n - 1]
          BY <3>1, <3>3, <1>5
        <4>2. ks[n] = ke[n - 1] /\ ks[n] \in Nat /\ ks[n] <= ke[n]
          BY <2>1, <2>3, <1>1 DEF Ranges
        <4>3. w = ke[n] - ks[n]
          BY <4>1 DEF w
        <4> QED  BY <2>1, <3>2, <4>4, <4>2, <4>3
      <3>4. CASE ~ (n - 1 < e)
        BY <2>1, <3>1, <3>2, <3>4, <1>4
      <3> QED  BY <3>3, <3>4
    <2> QED  BY <2>2, <2>3
  <1> QED  BY <1>4, <1>5, <1>7, <1>9, <1>10 DEF w, Cut

-----------------------------------------------------------------------------
(***************************************************************************)
(* What the array itself keeps, whoever reads it.                          *)
(***************************************************************************)
Chunk == [items : Seq(1..MaxItems), loaded : BOOLEAN]

ArrayOK ==
  /\ key_starts \in Seq(0..MaxItems) /\ key_ends \in Seq(0..MaxItems)
  /\ entries \in Seq(Chunk) /\ fresh \in 0..MaxItems
  /\ KeysTileEntries /\ ItemsInv

LEMMA ArrayFacts ==
  ASSUME ArrayOK
  PROVE  /\ Ranges(key_starts, key_ends) /\ LastEnd \in Nat
         /\ Len(entries) \in Nat /\ DOMAIN entries = 1..Len(entries)
         /\ Len(key_starts) = Len(entries) /\ Len(key_ends) = Len(entries)
         /\ DOMAIN key_starts = 1..Len(entries) /\ DOMAIN key_ends = 1..Len(entries)
         /\ MaxItems \in Nat /\ fresh \in Nat
         /\ \A e \in 1..Len(entries) :
              /\ entries[e] \in Chunk
              /\ entries[e].items \in Seq(1..MaxItems) /\ entries[e].items \in Seq(1..fresh)
              /\ Len(entries[e].items) \in Nat
              /\ DOMAIN entries[e].items = 1..Len(entries[e].items)
              /\ key_starts[e] \in Nat /\ key_ends[e] \in Nat
              /\ key_ends[e] = key_starts[e] + Len(entries[e].items)
              /\ key_ends[e] <= LastEnd
PROOF
  <1>1. /\ MaxItems \in Nat /\ key_starts \in Seq(0..MaxItems) /\ key_ends \in Seq(0..MaxItems)
        /\ entries \in Seq(Chunk) /\ fresh \in Nat /\ KeysTileEntries /\ ItemsInv
    BY BoundsAssumption DEF ArrayOK
  <1>2. /\ Len(entries) \in Nat /\ DOMAIN entries = 1..Len(entries)
        /\ Len(key_starts) = Len(entries) /\ Len(key_ends) = Len(entries)
        /\ DOMAIN key_starts = 1..Len(entries) /\ DOMAIN key_ends = 1..Len(entries)
    BY <1>1, LenProperties DEF KeysTileEntries
  <1>3. key_starts \in Seq(Nat) /\ key_ends \in Seq(Nat)
    BY <1>1
  <1>4. ASSUME NEW e \in 1..Len(entries)
        PROVE  /\ entries[e] \in Chunk
               /\ entries[e].items \in Seq(1..MaxItems) /\ entries[e].items \in Seq(1..fresh)
               /\ Len(entries[e].items) \in Nat
               /\ DOMAIN entries[e].items = 1..Len(entries[e].items)
               /\ key_starts[e] \in Nat /\ key_ends[e] \in Nat
               /\ key_starts[e] = (IF e = 1 THEN 0 ELSE key_ends[e - 1])
               /\ key_ends[e] = key_starts[e] + Len(entries[e].items)
    <2>1. entries[e] \in Chunk
      BY <1>1, <1>2, ElementOfSeq
    <2>2. entries[e].items \in Seq(1..MaxItems)
      BY <2>1 DEF Chunk
    <2>3. entries[e].items \in Seq(1..fresh)
      BY <1>1, <1>2 DEF ItemsInv
    <2>4. Len(entries[e].items) \in Nat /\ DOMAIN entries[e].items = 1..Len(entries[e].items)
      BY <2>2, LenProperties
    <2>5. key_starts[e] \in Nat /\ key_ends[e] \in Nat
      BY <1>2, <1>3, ElementOfSeq
    <2>6. /\ key_starts[e] = (IF e = 1 THEN 0 ELSE key_ends[e - 1])
          /\ key_ends[e] = key_starts[e] + Len(entries[e].items)
      BY <1>1, <1>2 DEF KeysTileEntries
    <2> QED  BY <2>1, <2>2, <2>3, <2>4, <2>5, <2>6
  <1>5. \A e \in 1..Len(key_ends) : /\ key_starts[e] = (IF e = 1 THEN 0 ELSE key_ends[e - 1])
                                    /\ key_starts[e] <= key_ends[e]
    <2>1. ASSUME NEW e \in 1..Len(key_ends)
          PROVE  /\ key_starts[e] = (IF e = 1 THEN 0 ELSE key_ends[e - 1])
                 /\ key_starts[e] <= key_ends[e]
      <3>1. e \in 1..Len(entries)
        BY <1>2
      <3>2. /\ Len(entries[e].items) \in Nat /\ key_starts[e] \in Nat
            /\ key_starts[e] = (IF e = 1 THEN 0 ELSE key_ends[e - 1])
            /\ key_ends[e] = key_starts[e] + Len(entries[e].items)
        BY <3>1, <1>4
      <3> QED  BY <3>2
    <2> QED  BY <2>1
  <1>6. Ranges(key_starts, key_ends)
    BY <1>2, <1>3, <1>5 DEF Ranges
  <1>7. LastEnd \in Nat /\ \A e \in 1..Len(entries) : key_ends[e] <= LastEnd
    BY <1>2, <1>6, RangesCover DEF LastEnd
  <1> QED  BY <1>1, <1>2, <1>4, <1>6, <1>7

LEMMA GrowthFacts ==
  ASSUME NEW n \in Nat, NEW re \in Growths(n), fresh \in Nat
  PROVE  /\ Ranges(StartsOf(re), re) /\ Width(re) \in Nat
         /\ DOMAIN StartsOf(re) = 1..Len(re) /\ DOMAIN re = 1..Len(re)
         /\ fresh + Width(re) <= MaxItems
PROOF
  <1>1. PICK m \in 0..n : re \in [1..m -> 0..MaxItems]
    BY DEF Growths, BoundedSeq, SeqOf
  <1>2. m \in Nat /\ MaxItems \in Nat /\ MaxLen \in Nat
    BY <1>1, BoundsAssumption
  <1>3. re \in Seq(Nat) /\ Len(re) = m /\ DOMAIN re = 1..m /\ \A i \in 1..m : re[i] \in Nat
    BY <1>1, <1>2
  <1> DEFINE rs == StartsOf(re)
  <1>4. rs = [i \in 1..m |-> IF i = 1 THEN 0 ELSE re[i - 1]]
    BY <1>3 DEF StartsOf
  <1>5. \A i \in 1..m : rs[i] = (IF i = 1 THEN 0 ELSE re[i - 1]) /\ rs[i] \in Nat
    <2>1. ASSUME NEW i \in 1..m PROVE rs[i] = (IF i = 1 THEN 0 ELSE re[i - 1]) /\ rs[i] \in Nat
      <3>1. rs[i] = (IF i = 1 THEN 0 ELSE re[i - 1])
        BY <1>4
      <3>2. i # 1 => i - 1 \in 1..m
        BY <1>2
      <3> QED  BY <3>1, <3>2, <1>3
    <2> QED  BY <2>1
  <1>6. rs \in Seq(Nat) /\ Len(rs) = m /\ DOMAIN rs = 1..m
    <2>1. rs \in [1..m -> Nat]
      BY <1>4, <1>5
    <2> HIDE DEF rs
    <2> QED  BY <2>1, <1>2
  <1>7. \A i \in 1..m : rs[i] <= re[i]
    <2>1. \A i \in 1..m : re[i] \in rs[i]..(rs[i] + MaxLen)
      BY <1>3 DEF Growths
    <2> QED  BY <2>1, <1>2, <1>3, <1>5
  <1>8. Ranges(rs, re)
    BY <1>3, <1>5, <1>6, <1>7 DEF Ranges
  <1>9. Width(re) \in Nat
    BY <1>8, RangesCover
  <1>10. fresh + Width(re) <= MaxItems
    BY DEF Growths
  <1> QED  BY <1>3, <1>6, <1>8, <1>9, <1>10

\* New items are younger than all others, and in one place each.
LEMMA NewEntriesFacts ==
  ASSUME NEW re, Ranges(StartsOf(re), re), fresh \in Nat, MaxItems \in Nat,
         fresh + Width(re) <= MaxItems, NEW keep \in BOOLEAN,
         NEW ne, ne = NewEntries(re, keep)
  PROVE  /\ ne \in Seq(Chunk) /\ Len(ne) = Len(re)
         /\ \A i \in 1..Len(re) :
              /\ ne[i].items \in Seq(1..(fresh + Width(re)))
              /\ Len(ne[i].items) = re[i] - StartsOf(re)[i]
              /\ DOMAIN ne[i].items = 1..(re[i] - StartsOf(re)[i])
              /\ \A k \in 1..(re[i] - StartsOf(re)[i]) :
                   ne[i].items[k] = fresh + StartsOf(re)[i] + k
PROOF
  <1> DEFINE rs == StartsOf(re)
             m == Len(re)
             w == Width(re)
  <1>1. /\ m \in Nat /\ DOMAIN re = 1..m /\ w \in Nat
        /\ \A i \in 1..m : rs[i] \in Nat /\ re[i] \in Nat /\ rs[i] <= re[i] /\ re[i] <= w
    <2>1. re \in Seq(Nat)
      BY DEF Ranges
    <2> QED  BY <2>1, LenProperties, RangesCover
  <1>2. ne = [i \in 1..m |->
                Entry([k \in 1..(re[i] - rs[i]) |-> fresh + rs[i] + k], keep)]
    BY <1>1 DEF NewEntries
  <1> HIDE DEF rs, w
  <1>3. ASSUME NEW i \in 1..m
        PROVE  /\ ne[i] \in Chunk
               /\ ne[i].items \in Seq(1..(fresh + w))
               /\ Len(ne[i].items) = re[i] - rs[i]
               /\ DOMAIN ne[i].items = 1..(re[i] - rs[i])
               /\ \A k \in 1..(re[i] - rs[i]) : ne[i].items[k] = fresh + rs[i] + k
    <2> DEFINE d == re[i] - rs[i]
               its == [k \in 1..d |-> fresh + rs[i] + k]
    <2>1. ne[i] = Entry(its, keep)
      BY <1>2
    <2>2. d \in Nat /\ rs[i] \in Nat /\ re[i] \in Nat /\ rs[i] + d = re[i] /\ re[i] <= w
      BY <1>1
    <2> HIDE DEF d
    <2>3. \A k \in 1..d : fresh + rs[i] + k \in 1..(fresh + w)
      BY <2>2, <1>1
    <2>4. its \in [1..d -> 1..(fresh + w)]
      BY <2>3
    <2>5. its \in Seq(1..(fresh + w)) /\ Len(its) = d /\ DOMAIN its = 1..d
      BY <2>2, <2>4
    <2>6. its \in Seq(1..MaxItems)
      <3>1. \A k \in 1..d : fresh + rs[i] + k \in 1..MaxItems
        BY <2>3, <1>1 DEF w
      <3>2. its \in [1..d -> 1..MaxItems]
        BY <3>1
      <3> QED  BY <2>2, <3>2
    <2>7. ne[i].items = its /\ ne[i] \in Chunk
      BY <2>1, <2>6 DEF Entry, Chunk
    <2>8. \A k \in 1..d : its[k] = fresh + rs[i] + k
      OBVIOUS
    <2> HIDE DEF its
    <2> QED  BY <2>5, <2>7, <2>8 DEF d
  <1>4. ne \in Seq(Chunk) /\ Len(ne) = m
    <2>1. ne \in [1..m -> Chunk]
      BY <1>2, <1>3
    <2>2. m \in Nat
      BY <1>1
    <2> HIDE DEF m
    <2> QED  BY <2>1, <2>2
  <1> QED  BY <1>3, <1>4 DEF rs, w

LEMMA Widen ==
  ASSUME NEW S, NEW T, S \subseteq T, NEW s \in Seq(S)
  PROVE  s \in Seq(T)
PROOF
  <1>1. /\ Len(s) \in Nat /\ s = [i \in 1..Len(s) |-> s[i]]
        /\ \A i \in 1..Len(s) : s[i] \in T
    BY LenProperties, ElementOfSeq
  <1> QED  BY <1>1

\* The array after a step, from what its chunks and ranges are then.
LEMMA ArrayAfter ==
  ASSUME Ranges(key_starts', key_ends'), entries' \in Seq(Chunk),
         MaxItems \in Nat, fresh' \in 0..MaxItems,
         Len(key_ends') = Len(entries'), Width(key_ends') <= fresh',
         \A e \in 1..Len(entries') :
           /\ key_ends'[e] = key_starts'[e] + Len(entries'[e].items)
           /\ entries'[e].items \in Seq(1..fresh'),
         \A e, f \in 1..Len(entries') :
           \A k \in DOMAIN entries'[e].items, l \in DOMAIN entries'[f].items :
             entries'[e].items[k] = entries'[f].items[l] => e = f /\ k = l
  PROVE  ArrayOK'
PROOF
  <1> DEFINE ks == key_starts'
             ke == key_ends'
             es == entries'
             n == Len(es)
             fr == fresh'
  <1>1. /\ ks \in Seq(Nat) /\ ke \in Seq(Nat) /\ Len(ks) = n /\ Len(ke) = n
        /\ \A e \in 1..n : ks[e] = (IF e = 1 THEN 0 ELSE ke[e - 1]) /\ ks[e] <= ke[e]
    BY DEF Ranges
  <1>2. n \in Nat /\ DOMAIN es = 1..n /\ DOMAIN ks = 1..n /\ DOMAIN ke = 1..n
    BY <1>1, LenProperties
  <1>3. \A e \in 1..n : ks[e] \in 0..MaxItems /\ ke[e] \in 0..MaxItems
    <2>1. ASSUME NEW e \in 1..n PROVE ks[e] \in 0..MaxItems /\ ke[e] \in 0..MaxItems
      <3>1. /\ ks[e] \in Nat /\ ke[e] \in Nat /\ ks[e] <= ke[e]
            /\ ke[e] <= Width(ke) /\ Width(ke) \in Nat
        BY <1>1, RangesCover
      <3>2. Width(ke) <= fr /\ fr \in 0..MaxItems
        OBVIOUS
      <3> QED  BY <3>1, <3>2
    <2> QED  BY <2>1
  <1>4. ks \in Seq(0..MaxItems) /\ ke \in Seq(0..MaxItems)
    <2>1. ks \in [1..n -> 0..MaxItems] /\ ke \in [1..n -> 0..MaxItems]
      <3>1. ks = [e \in 1..n |-> ks[e]] /\ ke = [e \in 1..n |-> ke[e]]
        BY <1>1, <1>2
      <3> QED  BY <3>1, <1>3
    <2> HIDE DEF n, ks, ke
    <2> QED  BY <2>1, <1>2
  <1>5. KeysTileEntries'
    BY <1>1, <1>2 DEF KeysTileEntries
  <1>6. ItemsInv'
    BY <1>2 DEF ItemsInv, LastEnd
  <1> QED  BY <1>4, <1>5, <1>6 DEF ArrayOK

LEMMA SamePlace ==
  ASSUME NEW a \in Nat, NEW b \in Nat, NEW c \in Nat, NEW d \in Nat,
         NEW x \in Nat, NEW y \in Nat, NEW z \in Nat,
         x >= 1, x <= b - a, y >= 1, y <= d - c, z + a + x = z + c + y
  PROVE  \E p \in Nat : a <= p /\ p < b /\ c <= p /\ p < d
PROOF
  <1>1. a + x - 1 \in Nat
    OBVIOUS
  <1> QED  BY <1>1

\* An array that got longer: chunks behind the others.
Grown ==
  /\ LastEnd' \in LastEnd..(LastEnd + MaxItems) /\ Len(entries) <= Len(entries')
  /\ \A e \in 1..Len(entries) : entries'[e] = entries[e] /\ key_starts'[e] = key_starts[e]

LEMMA GrowKeeps ==
  ASSUME ArrayOK, NEW n \in Nat, NEW re \in Growths(n), NEW keep \in BOOLEAN,
         MergeOf(StartsOf(re), re, NewEntries(re, keep)), fresh' = fresh + Width(re)
  PROVE  ArrayOK' /\ Grown
PROOF
  <1> DEFINE rs == StartsOf(re)
             ne == NewEntries(re, keep)
             o == Len(entries)
             m == Len(re)
             w == Width(re)
  <1>1. /\ Ranges(key_starts, key_ends) /\ LastEnd \in Nat
        /\ o \in Nat /\ Len(key_starts) = o /\ Len(key_ends) = o
        /\ MaxItems \in Nat /\ fresh \in Nat
    BY ArrayFacts
  <1>2. /\ Ranges(rs, re) /\ w \in Nat
        /\ DOMAIN rs = 1..m /\ DOMAIN re = 1..m
        /\ fresh + w <= MaxItems
    BY <1>1, GrowthFacts
  <1>3. /\ ne \in Seq(Chunk) /\ Len(ne) = m
        /\ \A i \in 1..m :
              /\ ne[i].items \in Seq(1..(fresh + w))
              /\ Len(ne[i].items) = re[i] - rs[i]
              /\ DOMAIN ne[i].items = 1..(re[i] - rs[i])
              /\ \A k \in 1..(re[i] - rs[i]) :
                   ne[i].items[k] = fresh + rs[i] + k
    BY <1>1, <1>2, NewEntriesFacts
  <1> HIDE DEF rs, ne, w
  <1>4. m \in Nat /\ \A i \in 1..m : /\ rs[i] \in Nat /\ re[i] \in Nat
                                     /\ rs[i] <= re[i] /\ re[i] <= w
    <2>1. re \in Seq(Nat)
      BY <1>2 DEF Ranges
    <2> QED  BY <2>1, <1>2, LenProperties, RangesCover DEF w
  <1>5. /\ key_starts' = key_starts \o [i \in DOMAIN rs |-> rs[i] + Width(key_ends)]
        /\ key_ends' = key_ends \o [i \in DOMAIN re |-> re[i] + Width(key_ends)]
        /\ entries' = entries \o ne /\ fresh' = fresh + w
    BY DEF MergeOf, LastEnd, rs, ne, w
  <1>6. /\ Ranges(key_starts', key_ends')
        /\ Len(key_ends') = o + m
        /\ \A i \in 1..o : key_ends'[i] = key_ends[i] /\ key_starts'[i] = key_starts[i]
        /\ \A i \in 1..m : /\ key_ends'[o + i] = re[i] + LastEnd
                           /\ key_starts'[o + i] = rs[i] + LastEnd
        /\ Width(key_ends') = LastEnd + w
    <2> DEFINE ms == [i \in DOMAIN rs |-> rs[i] + Width(key_ends)]
               me == [i \in DOMAIN re |-> re[i] + Width(key_ends)]
    <2>1. Glued(key_starts, key_ends, rs, re, key_starts \o ms, key_ends \o me)
      <3>1. Ranges(key_starts, key_ends) /\ Ranges(rs, re)
        BY <1>1, <1>2
      <3>2. /\ ms \in [1..m -> Nat] /\ me \in [1..m -> Nat]
            /\ \A i \in 1..m : ms[i] = rs[i] + Width(key_ends)
                               /\ me[i] = re[i] + Width(key_ends)
        BY <1>1, <1>2, <1>4 DEF LastEnd
      <3> HIDE DEF ms, me
      <3>3. /\ ms \in Seq(Nat) /\ Len(ms) = m
            /\ me \in Seq(Nat) /\ Len(me) = m
        BY <3>2, <1>4, IsSeq
      <3>4. Len(rs) = m
        BY <1>2 DEF Ranges
      <3>5. Shifted(ms, rs, Width(key_ends)) /\ Shifted(me, re, Width(key_ends))
        BY <3>2, <3>3, <3>4 DEF Shifted
      <3> QED  BY <3>1, <3>5, RangesGlued
    <2>2. key_starts' = key_starts \o ms /\ key_ends' = key_ends \o me
      BY <1>5
    <2> HIDE DEF ms, me
    <2> QED  BY <2>1, <2>2, <1>1 DEF LastEnd, w, Glued
  <1>7. /\ entries' \in Seq(Chunk) /\ Len(entries') = o + m
        /\ \A i \in 1..o : entries'[i] = entries[i]
        /\ \A i \in 1..m : entries'[o + i] = ne[i]
    <2>1. entries \in Seq(Chunk)
      BY DEF ArrayOK
    <2>2. ASSUME NEW x \in Seq(Chunk), NEW y \in Seq(Chunk)
          PROVE  /\ x \o y \in Seq(Chunk) /\ Len(x \o y) = Len(x) + Len(y)
                 /\ \A i \in 1..Len(x) : (x \o y)[i] = x[i]
                 /\ \A i \in 1..Len(y) : (x \o y)[Len(x) + i] = y[i]
      BY Glue
    <2>3. /\ entries \o ne \in Seq(Chunk) /\ Len(entries \o ne) = Len(entries) + Len(ne)
          /\ \A i \in 1..Len(entries) : (entries \o ne)[i] = entries[i]
          /\ \A i \in 1..Len(ne) : (entries \o ne)[Len(entries) + i] = ne[i]
      BY <2>1, <2>2, <1>3, Zenon
    <2> QED  BY <2>3, <1>3, <1>5
  <1>8. fresh' \in 0..MaxItems /\ Width(key_ends') <= fresh'
    <2>1. LastEnd <= fresh
      BY DEF ArrayOK, ItemsInv
    <2> QED  BY <2>1, <1>1, <1>2, <1>5, <1>6
  <1>9. \A e \in 1..(o + m) : e \in 1..o \/ \E i \in 1..m : e = o + i
    <2>1. ASSUME NEW e \in 1..(o + m), e \notin 1..o PROVE \E i \in 1..m : e = o + i
      <3>1. e - o \in 1..m /\ e = o + (e - o)
        BY <2>1, <1>1, <1>4
      <3> QED  BY <3>1
    <2> QED  BY <2>1
  <1>10. \A e \in 1..o : /\ entries[e].items \in Seq(1..fresh)
                         /\ key_ends[e] = key_starts[e] + Len(entries[e].items)
                         /\ DOMAIN entries[e].items = 1..Len(entries[e].items)
    BY ArrayFacts
  <1>11. ASSUME NEW e \in 1..(o + m)
         PROVE  /\ key_ends'[e] = key_starts'[e] + Len(entries'[e].items)
                /\ entries'[e].items \in Seq(1..fresh')
    <2>1. CASE e \in 1..o
      <3>1. /\ key_ends'[e] = key_starts'[e] + Len(entries'[e].items)
            /\ entries'[e].items \in Seq(1..fresh)
        BY <2>1, <1>6, <1>7, <1>10
      <3>2. 1..fresh \subseteq 1..fresh'
        BY <1>1, <1>2, <1>5
      <3>3. entries'[e].items \in Seq(1..fresh')
        BY <3>1, <3>2, Widen
      <3> QED  BY <3>1, <3>3
    <2>2. CASE \E i \in 1..m : e = o + i
      <3>1. PICK i \in 1..m : e = o + i
        BY <2>2
      <3>2. /\ key_ends'[e] = re[i] + LastEnd /\ key_starts'[e] = rs[i] + LastEnd
            /\ entries'[e] = ne[i]
        BY <3>1, <1>6, <1>7
      <3>3. Len(ne[i].items) = re[i] - rs[i] /\ ne[i].items \in Seq(1..fresh')
        BY <1>3, <1>5
      <3>4. rs[i] \in Nat /\ re[i] \in Nat
        BY <1>4
      <3>5. re[i] + LastEnd = (rs[i] + LastEnd) + (re[i] - rs[i])
        BY <3>4, <1>1
      <3> QED  BY <3>2, <3>3, <3>5
    <2> QED  BY <2>1, <2>2, <1>9
  <1>12. \A e \in 1..o : \A k \in DOMAIN entries'[e].items :
           entries'[e].items[k] \in Nat /\ entries'[e].items[k] <= fresh
    <2>1. ASSUME NEW e \in 1..o, NEW k \in DOMAIN entries'[e].items
          PROVE  entries'[e].items[k] \in 1..fresh
      <3>1. entries'[e].items \in Seq(1..fresh) /\ k \in 1..Len(entries'[e].items)
        BY <2>1, <1>7, <1>10
      <3> QED  BY <3>1, ElementOfSeq
    <2> QED  BY <2>1, <1>1
  <1>13. ASSUME NEW i \in 1..m, NEW k \in DOMAIN entries'[o + i].items
         PROVE  /\ k \in Nat /\ k >= 1 /\ k <= re[i] - rs[i]
                /\ entries'[o + i].items[k] = fresh + rs[i] + k
                /\ entries'[o + i].items[k] > fresh
    <2>1. /\ k \in 1..(re[i] - rs[i]) /\ entries'[o + i].items[k] = fresh + rs[i] + k
      BY <1>3, <1>7, <1>13
    <2>2. rs[i] \in Nat /\ re[i] \in Nat
      BY <1>4
    <2> QED  BY <2>1, <2>2, <1>1
  <1>14. ASSUME NEW e \in 1..(o + m), NEW f \in 1..(o + m),
                NEW k \in DOMAIN entries'[e].items, NEW l \in DOMAIN entries'[f].items,
                entries'[e].items[k] = entries'[f].items[l]
         PROVE  e = f /\ k = l
    <2>1. CASE e \in 1..o /\ f \in 1..o
      <3>1. entries'[e] = entries[e] /\ entries'[f] = entries[f]
        BY <2>1, <1>7
      <3>2. DOMAIN entries = 1..o
        BY ArrayFacts
      <3>3. /\ e \in DOMAIN entries /\ f \in DOMAIN entries
            /\ k \in DOMAIN entries[e].items /\ l \in DOMAIN entries[f].items
            /\ entries[e].items[k] = entries[f].items[l]
        BY <2>1, <3>1, <3>2, <1>14
      <3> QED  BY <3>3 DEF ArrayOK, ItemsInv
    <2>2. CASE e \in 1..o /\ \E i \in 1..m : f = o + i
      <3>1. entries'[f].items[l] > fresh
        BY <2>2, <1>13
      <3>2. entries'[e].items[k] \in Nat /\ entries'[e].items[k] <= fresh
        BY <2>2, <1>12
      <3> QED  BY <3>1, <3>2, <1>1, <1>14
    <2>3. CASE f \in 1..o /\ \E i \in 1..m : e = o + i
      <3>1. entries'[e].items[k] > fresh
        BY <2>3, <1>13
      <3>2. entries'[f].items[l] \in Nat /\ entries'[f].items[l] <= fresh
        BY <2>3, <1>12
      <3> QED  BY <3>1, <3>2, <1>1, <1>14
    <2>4. CASE (\E i \in 1..m : e = o + i) /\ (\E i \in 1..m : f = o + i)
      <3>1. PICK i \in 1..m : e = o + i
        BY <2>4
      <3>2. PICK j \in 1..m : f = o + j
        BY <2>4
      <3>3. /\ k \in Nat /\ k >= 1 /\ k <= re[i] - rs[i]
            /\ entries'[e].items[k] = fresh + rs[i] + k
        BY <3>1, <1>13
      <3>4. /\ l \in Nat /\ l >= 1 /\ l <= re[j] - rs[j]
            /\ entries'[f].items[l] = fresh + rs[j] + l
        BY <3>2, <1>13
      <3>5. rs[i] \in Nat /\ re[i] \in Nat /\ rs[j] \in Nat /\ re[j] \in Nat
        BY <1>4
      <3>6. fresh + rs[i] + k = fresh + rs[j] + l
        BY <3>3, <3>4, <1>14
      <3>7. PICK p \in Nat : rs[i] <= p /\ p < re[i] /\ rs[j] <= p /\ p < re[j]
        BY <3>3, <3>4, <3>5, <3>6, <1>1, SamePlace
      <3>8. i = j
        BY <3>7, <1>2, RangesCover
      <3>9. k = l
        <4>1. ASSUME NEW a \in Nat, NEW x \in Nat, NEW y \in Nat, NEW z \in Nat,
                     z + a + x = z + a + y
              PROVE  x = y
          BY <4>1
        <4> QED  BY <4>1, <3>3, <3>4, <3>5, <3>6, <3>8, <1>1
      <3> QED  BY <3>1, <3>2, <3>8, <3>9
    <2> QED  BY <2>1, <2>2, <2>3, <2>4, <1>9
  <1>15. Grown
    <2>1. LastEnd' \in LastEnd..(LastEnd + MaxItems)
      BY <1>1, <1>2, <1>6 DEF LastEnd
    <2> QED  BY <2>1, <1>1, <1>4, <1>6, <1>7 DEF Grown
  <1> QED  BY <1>1, <1>6, <1>7, <1>8, <1>11, <1>14, <1>15, ArrayAfter

\* A chunk written is an array of one chunk moved behind the others.
LEMMA PushIsMerge ==
  ASSUME ArrayOK, NEW len \in Nat, NEW keep \in BOOLEAN, PushChunk(len, keep)
  PROVE  MergeOf(StartsOf(<<len>>), <<len>>, NewEntries(<<len>>, keep))
         /\ fresh' = fresh + Width(<<len>>)
PROOF
  <1>1. /\ LastEnd \in Nat /\ fresh \in Nat
        /\ key_starts \in Seq(Nat) /\ key_ends \in Seq(Nat)
    BY ArrayFacts DEF Ranges
  <1>2. Width(<<len>>) = len
    BY DEF Width, Last
  <1>3. StartsOf(<<len>>) = <<0>>
    BY DEF StartsOf
  <1>4. [i \in DOMAIN <<0>> |-> <<0>>[i] + LastEnd] = <<LastEnd>>
    BY <1>1
  <1>5. [i \in DOMAIN <<len>> |-> <<len>>[i] + LastEnd] = <<LastEnd + len>>
    BY <1>1
  <1>6. /\ Append(key_starts, LastEnd) = key_starts \o <<LastEnd>>
        /\ Append(key_ends, LastEnd + len) = key_ends \o <<LastEnd + len>>
    BY <1>1, AppendIsConcat
  <1>7. /\ key_starts' = key_starts \o [i \in DOMAIN <<0>> |-> <<0>>[i] + LastEnd]
        /\ key_ends' = key_ends \o [i \in DOMAIN <<len>> |-> <<len>>[i] + LastEnd]
        /\ entries' = entries \o NewEntries(<<len>>, keep)
    BY <1>4, <1>5, <1>6 DEF PushChunk
  <1>8. fresh' = fresh + Width(<<len>>)
    BY <1>2 DEF PushChunk
  <1> QED  BY <1>3, <1>7, <1>8 DEF MergeOf

LEMMA OnePlace ==
  ASSUME ArrayOK,
         NEW e \in DOMAIN entries, NEW f \in DOMAIN entries,
         NEW k \in DOMAIN entries[e].items, NEW l \in DOMAIN entries[f].items,
         entries[e].items[k] = entries[f].items[l]
  PROVE  e = f /\ k = l
PROOF
  <1>1. \A x, y \in DOMAIN entries :
          \A i \in DOMAIN entries[x].items, j \in DOMAIN entries[y].items :
            entries[x].items[i] = entries[y].items[j] => x = y /\ i = j
    BY DEF ArrayOK, ItemsInv
  <1> QED  BY <1>1

\* An array without its chunk e: those behind it have moved into its place.
CutOut(e) ==
  /\ e \in 1..Len(entries) /\ Len(entries') = Len(entries) - 1
  /\ LastEnd' = LastEnd - (key_ends[e] - key_starts[e])
  /\ \A i \in 1..(Len(entries) - 1) :
       IF i < e
         THEN entries'[i] = entries[i] /\ key_starts'[i] = key_starts[i]
         ELSE /\ entries'[i] = entries[i + 1]
              /\ key_starts'[i] = key_starts[i + 1] - (key_ends[e] - key_starts[e])

LEMMA RemoveKeeps ==
  ASSUME ArrayOK, UNCHANGED fresh, NEW e \in DOMAIN key_starts,
         entries' = RemoveAt(entries, e),
         key_starts' = RemoveKey(key_starts, e, key_ends[e] - key_starts[e]),
         key_ends' = RemoveKey(key_ends, e, key_ends[e] - key_starts[e])
  PROVE  ArrayOK' /\ CutOut(e)
PROOF
  <1> DEFINE n == Len(entries)
             w == key_ends[e] - key_starts[e]
  <1>1. /\ Ranges(key_starts, key_ends) /\ LastEnd \in Nat
        /\ n \in Nat /\ Len(key_ends) = n /\ e \in 1..n
        /\ MaxItems \in Nat /\ fresh \in 0..MaxItems /\ LastEnd <= fresh
        /\ entries \in Seq(Chunk) /\ DOMAIN entries = 1..n
    BY ArrayFacts DEF ArrayOK, ItemsInv
  <1>2. \A i \in 1..n : /\ entries[i].items \in Seq(1..fresh)
                        /\ Len(entries[i].items) \in Nat
                        /\ key_starts[i] \in Nat /\ key_ends[i] \in Nat
                        /\ key_ends[i] = key_starts[i] + Len(entries[i].items)
    BY ArrayFacts
  <1>3. w \in Nat
    <2>1. /\ Len(entries[e].items) \in Nat /\ key_starts[e] \in Nat
          /\ key_ends[e] = key_starts[e] + Len(entries[e].items)
      BY <1>1, <1>2
    <2> QED  BY <2>1
  <1>4. /\ entries' \in Seq(Chunk) /\ Len(entries') = n - 1
        /\ \A i \in 1..(n - 1) : entries'[i] = IF i < e THEN entries[i] ELSE entries[i + 1]
    <2>1. ASSUME NEW s \in Seq(Chunk), NEW f \in 1..Len(s)
          PROVE  /\ RemoveAt(s, f) \in Seq(Chunk) /\ Len(RemoveAt(s, f)) = Len(s) - 1
                 /\ \A i \in 1..(Len(s) - 1) :
                      RemoveAt(s, f)[i] = IF i < f THEN s[i] ELSE s[i + 1]
      BY RemoveAtSkips
    <2>2. entries \in Seq(Chunk) /\ e \in 1..Len(entries)
      BY <1>1
    <2> QED  BY <2>1, <2>2
  <1>5. Cut(key_starts, key_ends, e, key_starts', key_ends')
    BY <1>1, RangesCut
  <1> HIDE DEF n, w
  <1>6. /\ Ranges(key_starts', key_ends') /\ Len(key_ends') = n - 1
        /\ Width(key_ends') = LastEnd - w
        /\ \A i \in 1..(n - 1) :
             /\ i < e => key_ends'[i] = key_ends[i] /\ key_starts'[i] = key_starts[i]
             /\ ~ (i < e) => /\ key_ends'[i] = key_ends[i + 1] - w
                             /\ key_starts'[i] = key_starts[i + 1] - w
    BY <1>1, <1>5 DEF Cut, LastEnd, w
  <1>7. fresh' \in 0..MaxItems /\ Width(key_ends') <= fresh'
    BY <1>1, <1>3, <1>6
  <1>8. ASSUME NEW i \in 1..(n - 1)
        PROVE  /\ key_ends'[i] = key_starts'[i] + Len(entries'[i].items)
               /\ entries'[i].items \in Seq(1..fresh')
    <2>1. CASE i < e
      <3>1. i \in 1..n
        BY <1>1
      <3> QED  BY <3>1, <2>1, <1>2, <1>4, <1>6
    <2>2. CASE ~ (i < e)
      <3>1. i + 1 \in 1..n
        BY <1>1
      <3>2. /\ entries[i + 1].items \in Seq(1..fresh) /\ Len(entries[i + 1].items) \in Nat
            /\ key_starts[i + 1] \in Nat
            /\ key_ends[i + 1] = key_starts[i + 1] + Len(entries[i + 1].items)
        BY <3>1, <1>2
      <3>3. /\ entries'[i] = entries[i + 1] /\ key_ends'[i] = key_ends[i + 1] - w
            /\ key_starts'[i] = key_starts[i + 1] - w
        BY <2>2, <1>4, <1>6
      <3>4. key_ends'[i] = key_starts'[i] + Len(entries[i + 1].items)
        BY <3>2, <3>3, <1>3
      <3> QED  BY <3>2, <3>3, <3>4
    <2> QED  BY <2>1, <2>2
  <1> DEFINE Old(i) == IF i < e THEN i ELSE i + 1
  <1>9. ASSUME NEW i \in 1..(n - 1) PROVE Old(i) \in 1..n /\ entries'[i] = entries[Old(i)]
    <2>1. i \in 1..n /\ i + 1 \in 1..n
      BY <1>1
    <2> QED  BY <2>1, <1>4
  <1>10. \A i, j \in 1..(n - 1) : Old(i) = Old(j) => i = j
    BY <1>1
  <1> HIDE DEF Old
  <1>11. ASSUME NEW i \in 1..(n - 1), NEW j \in 1..(n - 1),
                NEW k \in DOMAIN entries'[i].items, NEW l \in DOMAIN entries'[j].items,
                entries'[i].items[k] = entries'[j].items[l]
         PROVE  i = j /\ k = l
    <2>1. /\ Old(i) \in DOMAIN entries /\ Old(j) \in DOMAIN entries
          /\ k \in DOMAIN entries[Old(i)].items /\ l \in DOMAIN entries[Old(j)].items
          /\ entries[Old(i)].items[k] = entries[Old(j)].items[l]
      BY <1>1, <1>9, <1>11
    <2>2. Old(i) = Old(j) /\ k = l
      BY <2>1, OnePlace
    <2> QED  BY <2>2, <1>10
  <1>12. CutOut(e)
    BY <1>1, <1>4, <1>6 DEF CutOut, LastEnd, n, w
  <1> QED  BY <1>1, <1>4, <1>6, <1>7, <1>8, <1>11, <1>12, ArrayAfter

\* Loading and unloading leave the items and the ranges alone.
SameItems ==
  /\ UNCHANGED <<keys, fresh>>
  /\ entries' \in Seq(Chunk) /\ Len(entries') = Len(entries)
  /\ \A e \in 1..Len(entries) : entries'[e].items = entries[e].items

LEMMA SameItemsKeep ==
  ASSUME ArrayOK, SameItems
  PROVE  ArrayOK' /\ DOMAIN entries' = DOMAIN entries /\ LastEnd' = LastEnd
PROOF
  <1>1. /\ UNCHANGED <<key_starts, key_ends, fresh>>
        /\ entries' \in Seq(Chunk) /\ Len(entries') = Len(entries)
        /\ \A e \in 1..Len(entries) : entries'[e].items = entries[e].items
    BY DEF SameItems, keys
  <1>2. DOMAIN entries = 1..Len(entries) /\ DOMAIN entries' = 1..Len(entries)
    BY <1>1, ArrayFacts, LenProperties
  <1>3. KeysTileEntries'
    BY <1>1, <1>2 DEF ArrayOK, KeysTileEntries
  <1>4. LastEnd' = LastEnd
    BY <1>1 DEF LastEnd
  <1>5. ItemsInv'
    <2>1. LastEnd' <= fresh'
      BY <1>1, <1>4 DEF ArrayOK, ItemsInv
    <2>2. \A e \in DOMAIN entries' : entries'[e].items \in Seq(1..fresh')
      BY <1>1, <1>2 DEF ArrayOK, ItemsInv
    <2>3. ASSUME NEW e \in DOMAIN entries', NEW f \in DOMAIN entries',
                 NEW k \in DOMAIN entries'[e].items, NEW l \in DOMAIN entries'[f].items,
                 entries'[e].items[k] = entries'[f].items[l]
          PROVE  e = f /\ k = l
      <3>1. /\ e \in DOMAIN entries /\ f \in DOMAIN entries
            /\ k \in DOMAIN entries[e].items /\ l \in DOMAIN entries[f].items
            /\ entries[e].items[k] = entries[f].items[l]
        BY <1>1, <1>2, <2>3
      <3> QED  BY <3>1, OnePlace
    <2> QED  BY <2>1, <2>2, <2>3 DEF ItemsInv
  <1> QED  BY <1>1, <1>2, <1>3, <1>4, <1>5 DEF ArrayOK

LEMMA LoadKeeps ==
  ASSUME ArrayOK, UNCHANGED <<keys, fresh>>, NEW e \in DOMAIN entries, Load(e)
  PROVE  SameItems
PROOF
  <1>1. entries \in Seq(Chunk) /\ entries[e] \in Chunk
    BY ArrayFacts DEF ArrayOK
  <1>2. entries' = [entries EXCEPT ![e] = Entry(entries[e].items, TRUE)]
    BY DEF Load
  <1>3. Entry(entries[e].items, TRUE) \in Chunk
        /\ Entry(entries[e].items, TRUE).items = entries[e].items
    BY <1>1 DEF Entry, Chunk
  <1>4. entries' \in Seq(Chunk) /\ Len(entries') = Len(entries)
    <2>1. /\ DOMAIN entries = 1..Len(entries) /\ Len(entries) \in Nat
          /\ \A f \in 1..Len(entries) : entries[f] \in Chunk
      BY ArrayFacts
    <2>2. entries' \in [1..Len(entries) -> Chunk]
      BY <1>2, <1>3, <2>1
    <2> QED  BY <2>1, <2>2, IsSeq
  <1>5. DOMAIN entries = 1..Len(entries)
    BY ArrayFacts
  <1>6. \A f \in 1..Len(entries) : entries'[f].items = entries[f].items
    BY <1>2, <1>3, <1>5
  <1> QED  BY <1>4, <1>6 DEF SameItems

LEMMA UnloadKeeps ==
  ASSUME ArrayOK, UNCHANGED <<keys, fresh>>, NEW E, Unload(E)
  PROVE  SameItems
PROOF
  <1>1. /\ DOMAIN entries = 1..Len(entries) /\ Len(entries) \in Nat
        /\ \A e \in 1..Len(entries) : entries[e] \in Chunk
    BY ArrayFacts
  <1>2. entries' = [e \in 1..Len(entries) |->
                      IF e \in E THEN Entry(entries[e].items, FALSE) ELSE entries[e]]
    BY <1>1 DEF Unload
  <1>3. ASSUME NEW e \in 1..Len(entries)
        PROVE  entries'[e] \in Chunk /\ entries'[e].items = entries[e].items
    BY <1>1, <1>2 DEF Entry, Chunk
  <1>4. entries' \in [1..Len(entries) -> Chunk]
    BY <1>2, <1>3
  <1>5. entries' \in Seq(Chunk) /\ Len(entries') = Len(entries)
    BY <1>1, <1>4, IsSeq
  <1> QED  BY <1>3, <1>5 DEF SameItems

-----------------------------------------------------------------------------
(***************************************************************************)
(* The search and the reads.                                               *)
(***************************************************************************)
LEMMA UnchangedKeep ==
  ASSUME ArrayOK, UNCHANGED <<keys, entries, fresh>>
  PROVE  SameItems
PROOF
  BY DEF ArrayOK, SameItems

\* The ends before a position are the first ones.
LEMMA BelowIsPrefix ==
  ASSUME NEW ks, NEW ke, Ranges(ks, ke), NEW idx \in Nat
  PROVE  \E m \in 0..Len(ke) :
           /\ Cardinality({x \in 1..Len(ke) : ke[x] < idx}) = m
           /\ \A x \in 1..Len(ke) : ke[x] < idx <=> x <= m
PROOF
  <1> DEFINE n == Len(ke)
             Below == {x \in 1..n : ke[x] < idx}
             Rest == {x \in 1..n : ~ (ke[x] < idx)}
  <1>1. n \in Nat /\ \A x \in 1..n : ke[x] \in Nat
    BY LenProperties, RangesCover DEF Ranges
  <1> HIDE DEF n
  <1>2. \E m \in 0..n : \A x \in 1..n : ke[x] < idx <=> x <= m
    <2>1. CASE Rest = {}
      <3>1. n \in 0..n /\ \A x \in 1..n : x <= n /\ ke[x] < idx
        BY <1>1, <2>1
      <3> QED  BY <3>1
    <2>2. CASE Rest # {}
      <3>1. PICK f \in Rest : \A x \in Rest : f <= x
        <4>1. Rest \subseteq Nat
          BY <1>1
        <4> HIDE DEF Rest
        <4> QED  BY <2>2, <4>1, LeastNat
      <3>2. f \in 1..n /\ ~ (ke[f] < idx)
        OBVIOUS
      <3>3. f - 1 \in 0..n
        BY <3>2, <1>1
      <3>4. ASSUME NEW x \in 1..n PROVE ke[x] < idx <=> x <= f - 1
        <4>1. CASE x < f
          <5>1. x \notin Rest
            BY <3>1, <3>2, <4>1, <1>1
          <5> QED  BY <5>1, <4>1, <3>2, <1>1
        <4>2. CASE ~ (x < f)
          <5>1. x \in f..Len(ke) /\ f \in 1..Len(ke)
            BY <3>2, <4>2, <1>1 DEF n
          <5>2. ke[f] <= ke[x]
            BY <5>1, RangesSorted
          <5>3. ke[f] \in Nat /\ ke[x] \in Nat
            BY <3>2, <1>1
          <5>4. ~ (ke[x] < idx)
            BY <3>2, <5>2, <5>3
          <5>5. ~ (x <= f - 1)
            BY <4>2, <3>2, <1>1
          <5> QED  BY <5>4, <5>5
        <4> QED  BY <4>1, <4>2
      <3> QED  BY <3>3, <3>4
    <2> QED  BY <2>1, <2>2
  <1>3. PICK m \in 0..n : \A x \in 1..n : ke[x] < idx <=> x <= m
    BY <1>2
  <1>4. Below = 1..m
    BY <1>1, <1>3
  <1>5. Cardinality(1..m) = m
    BY <1>1, FS_Interval
  <1> QED  BY <1>3, <1>4, <1>5 DEF n

\* What the search names holds the position, or is an empty chunk right there;
\* it names nothing only behind the last end (mod.rs:148-162).
LEMMA SearchFinds ==
  ASSUME ArrayOK, NEW idx \in Nat
  PROVE  /\ \A e \in InternalIdx(idx) :
              /\ e \in DOMAIN entries /\ key_starts[e] <= idx
              /\ idx - key_starts[e] >= Len(entries[e].items) =>
                   entries[e].items = <<>> /\ key_starts[e] = idx
         /\ MayBeOutside(idx) => idx >= LastEnd
PROOF
  <1> DEFINE n == Len(key_ends)
             hits == {x \in 1..n : key_ends[x] = idx}
             below == Cardinality({x \in 1..n : key_ends[x] < idx})
  <1>1. /\ Ranges(key_starts, key_ends) /\ LastEnd \in Nat
        /\ n \in Nat /\ DOMAIN entries = 1..n
        /\ \A e \in 1..n : /\ key_starts[e] \in Nat /\ key_ends[e] \in Nat
                           /\ key_ends[e] = key_starts[e] + Len(entries[e].items)
                           /\ Len(entries[e].items) \in Nat
                           /\ entries[e].items \in Seq(1..MaxItems)
    BY ArrayFacts
  <1>2. \A e \in 1..n : /\ key_starts[e] = (IF e = 1 THEN 0 ELSE key_ends[e - 1])
                        /\ key_starts[e] <= key_ends[e]
    BY <1>1 DEF Ranges
  <1>3. /\ n > 0 => LastEnd = key_ends[n]
        /\ n = 0 => LastEnd = 0
    <2>1. key_ends = <<>> <=> n = 0
      BY <1>1 DEF Ranges
    <2> QED  BY <2>1, <1>1 DEF LastEnd, Width, Last
  <1>4. below \in 0..n /\ \A x \in 1..n : key_ends[x] < idx <=> x <= below
    <2>1. \E m \in 0..Len(key_ends) :
            /\ Cardinality({x \in 1..Len(key_ends) : key_ends[x] < idx}) = m
            /\ \A x \in 1..Len(key_ends) : key_ends[x] < idx <=> x <= m
      BY <1>1, BelowIsPrefix
    <2> QED  BY <2>1
  <1>5. InternalIdx(idx) = IF hits # {} THEN {x + 1 : x \in hits} \cap 1..n
                                        ELSE {1 + below} \cap 1..n
    BY DEF InternalIdx
  <1>6. MayBeOutside(idx) <=> InternalIdx(idx) = {} \/ (n > 0 /\ key_ends[n] = idx)
    BY DEF MayBeOutside
  <1> HIDE DEF n, below
  <1>7. ASSUME NEW e \in InternalIdx(idx)
        PROVE  /\ e \in DOMAIN entries /\ key_starts[e] <= idx
               /\ idx - key_starts[e] >= Len(entries[e].items) =>
                    entries[e].items = <<>> /\ key_starts[e] = idx
    <2>1. CASE hits # {}
      <3>1. PICK x \in hits : e = x + 1 /\ e \in 1..n
        BY <1>5, <1>7, <2>1
      <3>2. x \in 1..n /\ key_ends[x] = idx /\ e # 1 /\ e - 1 = x
        BY <3>1, <1>1
      <3>3. key_starts[e] = idx
        BY <3>1, <3>2, <1>2
      <3>4. Len(entries[e].items) = 0 => entries[e].items = <<>>
        BY <3>1, <1>1, EmptySeq
      <3>5. idx - key_starts[e] = 0 /\ Len(entries[e].items) \in Nat
        BY <3>1, <3>3, <1>1
      <3> QED  BY <3>1, <3>3, <3>4, <3>5, <1>1
    <2>2. CASE hits = {}
      <3>1. e = 1 + below /\ e \in 1..n
        BY <1>5, <1>7, <2>2
      <3>2. ~ (key_ends[e] < idx) /\ key_ends[e] # idx
        <4>1. e \in 1..n /\ ~ (e <= below)
          BY <3>1, <1>1, <1>4
        <4>2. e \notin hits
          BY <2>2
        <4> QED  BY <4>1, <4>2, <1>4
      <3>3. idx < key_ends[e]
        BY <3>1, <3>2, <1>1
      <3>4. e # 1 => e - 1 \in 1..n /\ e - 1 <= below
        BY <3>1, <1>1, <1>4
      <3>5. key_starts[e] <= idx
        <4>1. CASE e = 1
          BY <4>1, <3>1, <1>1, <1>2
        <4>2. CASE e # 1
          <5>1. key_ends[e - 1] < idx /\ key_ends[e - 1] \in Nat
            BY <4>2, <3>4, <1>1, <1>4
          <5>2. key_starts[e] = key_ends[e - 1]
            BY <4>2, <3>1, <1>2
          <5> QED  BY <5>1, <5>2
        <4> QED  BY <4>1, <4>2
      <3>6. ~ (idx - key_starts[e] >= Len(entries[e].items))
        <4>1. /\ key_starts[e] \in Nat /\ Len(entries[e].items) \in Nat
              /\ key_ends[e] = key_starts[e] + Len(entries[e].items)
          BY <3>1, <1>1
        <4> QED  BY <4>1, <3>3
      <3> QED  BY <3>1, <3>5, <3>6, <1>1
    <2> QED  BY <2>1, <2>2
  <1>8. ASSUME MayBeOutside(idx) PROVE idx >= LastEnd
    <2>1. CASE n > 0 /\ key_ends[n] = idx
      BY <2>1, <1>1, <1>3
    <2>2. CASE InternalIdx(idx) = {} /\ hits # {}
      <3>1. PICK x \in hits : x + 1 \notin 1..n
        BY <2>2, <1>5
      <3>2. x = n /\ key_ends[n] = idx /\ n > 0
        BY <3>1, <1>1
      <3> QED  BY <3>2, <1>1, <1>3
    <2>3. CASE InternalIdx(idx) = {} /\ hits = {}
      <3>1. 1 + below \notin 1..n
        BY <2>3, <1>5
      <3>2. below = n
        BY <3>1, <1>1, <1>4
      <3>3. CASE n = 0
        BY <3>3, <1>1, <1>3
      <3>4. CASE n > 0
        <4>1. key_ends[n] < idx /\ n \in 1..n
          BY <3>2, <3>4, <1>1, <1>4
        <4> QED  BY <3>4, <4>1, <1>1, <1>3
      <3> QED  BY <3>3, <3>4, <1>1
    <2> QED  BY <2>1, <2>2, <2>3, <1>6, <1>8
  <1> QED  BY <1>7, <1>8

\* A step that leaves the items alone, and tells one only from its place.
Tells ==
  /\ SameItems
  /\ answer'.kind = "item" =>
       \E e \in 1..Len(entries) : \E k \in 1..Len(entries[e].items) :
         answer'.at = (key_starts[e] + k) - 1 /\ answer'.item = entries[e].items[k]

LEMMA ReadAtKeeps ==
  ASSUME ArrayOK, UNCHANGED <<keys, fresh>>, NEW e \in DOMAIN entries,
         NEW inside \in Nat, NEW idx, ReadAt(e, inside, idx),
         idx = key_starts[e] + inside,
         inside < Len(entries[e].items)
           \/ (entries[e].items = <<>> /\ key_starts[e] = idx)
  PROVE  Tells /\ AnswerInv' /\ answer'.kind \in {"item", "gap", "error"}
PROOF
  <1>1. CASE Load(e) /\ answer' = IF inside < Len(entries[e].items)
                    THEN [kind |-> "item", at |-> idx,
                          item |-> entries[e].items[inside + 1]]
                    ELSE [kind |-> "gap", at |-> idx]
    <2>1. SameItems
      BY <1>1, LoadKeeps
    <2>2. CASE inside < Len(entries[e].items)
      <3>1. /\ answer'.kind = "item" /\ answer'.at = idx
            /\ answer'.item = entries[e].items[inside + 1]
        BY <1>1, <2>2
      <3>2. /\ e \in 1..Len(entries) /\ inside + 1 \in 1..Len(entries[e].items)
            /\ idx = (key_starts[e] + (inside + 1)) - 1
        BY <2>2, ArrayFacts
      <3>3. Tells
        BY <2>1, <3>1, <3>2 DEF Tells
      <3> QED  BY <3>1, <3>3 DEF AnswerInv
    <2>3. CASE ~ (inside < Len(entries[e].items))
      <3>1. answer'.kind = "gap" /\ answer'.at = idx
        BY <1>1, <2>3
      <3>2. DOMAIN entries' = DOMAIN entries /\ DOMAIN entries = 1..Len(entries)
        BY <2>1, SameItemsKeep, ArrayFacts
      <3>3. entries'[e].items = <<>> /\ key_starts'[e] = idx /\ e \in DOMAIN entries'
        BY <2>1, <2>3, <3>2 DEF SameItems, keys
      <3> QED  BY <2>1, <3>1, <3>3 DEF AnswerInv, Tells
    <2> QED  BY <2>2, <2>3
  <1>2. CASE answer' = [kind |-> "error", at |-> idx] /\ UNCHANGED entries
    <2>1. SameItems
      BY <1>2, UnchangedKeep
    <2>2. answer'.kind = "error"
      BY <1>2
    <2> QED  BY <2>1, <2>2 DEF AnswerInv, Tells
  <1> QED  BY <1>1, <1>2 DEF ReadAt

LEMMA LookupKeeps ==
  ASSUME ArrayOK, UNCHANGED <<keys, fresh>>, NEW idx \in Nat, Lookup(idx)
  PROVE  Tells /\ AnswerInv' /\ answer'.kind \in {"item", "gap", "error", "outside"}
PROOF
  <1>1. CASE \E e \in InternalIdx(idx) : ReadAt(e, idx - key_starts[e], idx)
    <2>1. PICK e \in InternalIdx(idx) : ReadAt(e, idx - key_starts[e], idx)
      BY <1>1
    <2>2. /\ e \in DOMAIN entries /\ key_starts[e] <= idx
          /\ idx - key_starts[e] >= Len(entries[e].items) =>
               entries[e].items = <<>> /\ key_starts[e] = idx
      BY SearchFinds
    <2>3. key_starts[e] \in Nat /\ Len(entries[e].items) \in Nat
      BY <2>2, ArrayFacts
    <2>4. idx - key_starts[e] < Len(entries[e].items)
           \/ (entries[e].items = <<>> /\ key_starts[e] = idx)
      BY <2>2, <2>3
    <2>5. idx - key_starts[e] \in Nat /\ idx = key_starts[e] + (idx - key_starts[e])
      BY <2>2, <2>3
    <2> QED  BY <2>1, <2>2, <2>4, <2>5, ReadAtKeeps
  <1>2. CASE MayBeOutside(idx) /\ answer' = [kind |-> "outside", at |-> idx] /\ UNCHANGED entries
    <2>1. SameItems
      BY <1>2, UnchangedKeep
    <2>2. answer'.kind = "outside" /\ answer'.at = idx
      BY <1>2
    <2>3. idx >= LastEnd /\ LastEnd' = LastEnd
      BY <1>2, <2>1, SearchFinds, SameItemsKeep
    <2> QED  BY <2>1, <2>2, <2>3 DEF AnswerInv, Tells
  <1> QED  BY <1>1, <1>2 DEF Lookup

-----------------------------------------------------------------------------
(***************************************************************************)
(* The walk over whole chunks.                                             *)
(***************************************************************************)
PosOf(loc) ==
  (IF loc.entry <= Len(key_ends) THEN key_starts[loc.entry] ELSE LastEnd) + loc.inside

\* Where a walk from loc comes to rest: at the same position, no earlier, and
\* inside its chunk, if it has one.
Lands(loc, d) ==
  /\ d \in Locs /\ d.entry >= loc.entry /\ PosOf(d) = PosOf(loc)
  /\ d.entry <= Len(key_ends) => PosOf(d) < key_ends[d.entry]

Behind(loc) ==
  [entry |-> loc.entry + 1,
   inside |-> loc.inside - (key_ends[loc.entry] - key_starts[loc.entry])]

WalksOver(loc) ==
  loc.entry <= Len(key_ends) /\ loc.inside >= key_ends[loc.entry] - key_starts[loc.entry]

LEMMA RangeFacts ==
  ASSUME ArrayOK
  PROVE  /\ Len(key_ends) \in Nat /\ LastEnd \in Nat
         /\ Len(key_ends) > 0 => LastEnd = key_ends[Len(key_ends)]
         /\ Len(key_ends) = 0 => LastEnd = 0
         /\ \A e \in 1..Len(key_ends) :
              /\ key_starts[e] \in Nat /\ key_ends[e] \in Nat
              /\ key_starts[e] = (IF e = 1 THEN 0 ELSE key_ends[e - 1])
              /\ key_starts[e] <= key_ends[e] /\ key_ends[e] <= LastEnd
         /\ \A e, f \in 1..Len(key_ends) : e < f => key_ends[e] <= key_starts[f]
PROOF
  <1> DEFINE n == Len(key_ends)
  <1>1. /\ Ranges(key_starts, key_ends) /\ LastEnd \in Nat /\ n \in Nat
        /\ key_ends \in Seq(Nat)
    BY ArrayFacts DEF Ranges
  <1>2. key_ends = <<>> <=> n = 0
    BY <1>1
  <1>3. (n > 0 => LastEnd = key_ends[n]) /\ (n = 0 => LastEnd = 0)
    BY <1>1, <1>2 DEF LastEnd, Width, Last
  <1>4. ASSUME NEW e \in 1..n
        PROVE  /\ key_starts[e] \in Nat /\ key_ends[e] \in Nat
               /\ key_starts[e] = (IF e = 1 THEN 0 ELSE key_ends[e - 1])
               /\ key_starts[e] <= key_ends[e] /\ key_ends[e] <= LastEnd
    <2>1. key_starts[e] = (IF e = 1 THEN 0 ELSE key_ends[e - 1])
      BY <1>1 DEF Ranges
    <2>2. /\ key_starts[e] \in Nat /\ key_ends[e] \in Nat
          /\ key_starts[e] <= key_ends[e] /\ key_ends[e] <= LastEnd
      BY <1>1, RangesCover DEF LastEnd
    <2> QED  BY <2>1, <2>2
  <1>5. ASSUME NEW e \in 1..n, NEW f \in 1..n, e < f
        PROVE  key_ends[e] <= key_starts[f]
    <2>1. f \in e..n
      BY <1>1, <1>5
    <2> QED  BY <2>1, <1>1, <1>5, RangesSorted
  <1> QED  BY <1>1, <1>3, <1>4, <1>5

LEMMA BehindIsThere ==
  ASSUME ArrayOK, NEW loc \in Locs, WalksOver(loc)
  PROVE  /\ Behind(loc) \in Locs /\ Behind(loc).entry = loc.entry + 1
         /\ PosOf(Behind(loc)) = PosOf(loc)
PROOF
  <1> DEFINE n == Len(key_ends)
             c == loc.entry
             i == loc.inside
             w == key_ends[c] - key_starts[c]
  <1>1. /\ n \in Nat /\ c \in 1..n /\ i \in Nat /\ i >= w
    BY RangeFacts DEF Locs, WalksOver
  <1>2. /\ key_starts[c] \in Nat /\ key_ends[c] \in Nat /\ w \in Nat
    <2>1. key_starts[c] \in Nat /\ key_ends[c] \in Nat /\ key_starts[c] <= key_ends[c]
      BY <1>1, RangeFacts
    <2> QED  BY <2>1
  <1>3. Behind(loc).entry = c + 1 /\ Behind(loc).inside = i - w
    BY DEF Behind
  <1>4. Behind(loc) \in Locs
    <2>1. c + 1 \in 1..(n + 1) /\ i - w \in Nat
      BY <1>1, <1>2
    <2> QED  BY <2>1 DEF Behind, Locs
  <1>5. PosOf(loc) = key_starts[c] + i
    BY <1>1 DEF PosOf
  <1>6. PosOf(Behind(loc)) = key_ends[c] + (i - w)
    <2>1. CASE c = n
      <3>1. ~ (c + 1 <= n) /\ n > 0
        BY <1>1, <2>1
      <3>2. LastEnd = key_ends[c]
        BY <3>1, <2>1, RangeFacts
      <3> QED  BY <3>1, <3>2, <1>3 DEF PosOf
    <2>2. CASE c # n
      <3>1. c + 1 \in 1..n /\ c + 1 <= n /\ c + 1 # 1 /\ (c + 1) - 1 = c
        BY <1>1, <2>2
      <3>2. key_starts[c + 1] = key_ends[c]
        BY <3>1, RangeFacts
      <3> QED  BY <3>1, <3>2, <1>3 DEF PosOf
    <2> QED  BY <2>1, <2>2
  <1>7. key_ends[c] + (i - w) = key_starts[c] + i
    BY <1>1, <1>2
  <1> QED  BY <1>3, <1>4, <1>5, <1>6, <1>7

LEMMA LandsSomewhere ==
  ASSUME ArrayOK, NEW loc \in Locs
  PROVE  \E d : Lands(loc, d)
PROOF
  <1> DEFINE n == Len(key_ends)
             p == PosOf(loc)
  <1>1. /\ n \in Nat /\ LastEnd \in Nat /\ loc.entry \in 1..(n + 1) /\ loc.inside \in Nat
    BY RangeFacts DEF Locs
  <1>2. p \in Nat /\ (loc.entry <= n => loc.entry \in 1..n /\ key_starts[loc.entry] <= p)
    <2>1. loc.entry <= n => loc.entry \in 1..n /\ key_starts[loc.entry] \in Nat
      BY <1>1, RangeFacts
    <2> QED  BY <2>1, <1>1 DEF PosOf
  <1>3. loc.entry = n + 1 => p >= LastEnd
    <2>1. ~ (n + 1 <= n)
      BY <1>1
    <2> QED  BY <2>1, <1>1 DEF PosOf
  <1> HIDE DEF p
  <1>4. CASE p >= LastEnd
    <2> DEFINE d == [entry |-> n + 1, inside |-> p - LastEnd]
    <2>1. d \in Locs /\ d.entry = n + 1 /\ d.inside = p - LastEnd
      BY <1>1, <1>2, <1>4 DEF Locs
    <2>2. ~ (n + 1 <= n) /\ LastEnd + (p - LastEnd) = p /\ n + 1 >= loc.entry
      BY <1>1, <1>2
    <2>3. PosOf(d) = p
      BY <2>1, <2>2 DEF PosOf
    <2>4. Lands(loc, d)
      BY <2>1, <2>2, <2>3 DEF Lands, p
    <2> QED  BY <2>4
  <1>5. CASE p < LastEnd
    <2>1. PICK e \in 1..n : key_starts[e] <= p /\ p < key_ends[e]
      BY <1>2, <1>5, ArrayFacts, RangesCover DEF LastEnd
    <2>2. key_starts[e] \in Nat /\ key_ends[e] \in Nat
      BY RangeFacts
    <2> DEFINE d == [entry |-> e, inside |-> p - key_starts[e]]
    <2>3. d \in Locs /\ d.entry = e /\ d.inside = p - key_starts[e]
      BY <1>1, <1>2, <2>1, <2>2 DEF Locs
    <2>4. PosOf(d) = p
      BY <1>1, <1>2, <2>2, <2>3 DEF PosOf
    <2>5. e >= loc.entry
      <3> SUFFICES ASSUME e < loc.entry PROVE FALSE
        BY <1>1
      <3>1. loc.entry <= n /\ loc.entry \in 1..n
        BY <1>1, <1>2, <1>3, <1>5
      <3>2. key_ends[e] <= key_starts[loc.entry] /\ key_starts[loc.entry] \in Nat
        BY <3>1, RangeFacts
      <3> QED  BY <3>1, <3>2, <1>2, <2>1, <2>2
    <2>6. Lands(loc, d)
      BY <2>1, <2>3, <2>4, <2>5 DEF Lands, p
    <2> QED  BY <2>6
  <1> QED  BY <1>1, <1>2, <1>4, <1>5

LEMMA LandsOnce ==
  ASSUME ArrayOK, NEW loc \in Locs, NEW d, NEW g, Lands(loc, d), Lands(loc, g)
  PROVE  d = g
PROOF
  <1> DEFINE n == Len(key_ends)
             p == PosOf(loc)
  <1>1. n \in Nat /\ LastEnd \in Nat
    BY RangeFacts
  <1>2. ASSUME NEW x, Lands(loc, x)
        PROVE  /\ x = [entry |-> x.entry, inside |-> x.inside]
               /\ x.entry \in 1..(n + 1) /\ x.inside \in Nat /\ p \in Nat
               /\ x.entry <= n => /\ x.entry \in 1..n /\ key_starts[x.entry] \in Nat
                                  /\ key_starts[x.entry] + x.inside = p
                                  /\ key_starts[x.entry] <= p /\ p < key_ends[x.entry]
                                  /\ p < LastEnd
               /\ x.entry = n + 1 => LastEnd + x.inside = p /\ p >= LastEnd
    <2>1. /\ x \in Locs /\ PosOf(x) = p
          /\ x.entry <= n => p < key_ends[x.entry]
      BY <1>2 DEF Lands
    <2>2. /\ x = [entry |-> x.entry, inside |-> x.inside]
          /\ x.entry \in 1..(n + 1) /\ x.inside \in Nat
      BY <2>1, <1>1 DEF Locs
    <2> HIDE DEF p
    <2>3. CASE x.entry <= n
      <3>1. x.entry \in 1..n /\ x.entry # n + 1
        BY <1>1, <2>2, <2>3
      <3>2. /\ key_starts[x.entry] \in Nat /\ key_ends[x.entry] \in Nat
            /\ key_ends[x.entry] <= LastEnd
        BY <3>1, RangeFacts
      <3>3. key_starts[x.entry] + x.inside = p
        BY <2>1, <2>3 DEF PosOf
      <3> QED  BY <3>1, <3>2, <3>3, <2>1, <2>2, <2>3, <1>1
    <2>4. CASE ~ (x.entry <= n)
      <3>1. x.entry = n + 1
        BY <1>1, <2>2, <2>4
      <3>2. LastEnd + x.inside = p
        BY <2>1, <2>4 DEF PosOf
      <3> QED  BY <3>1, <3>2, <2>2, <2>4, <1>1
    <2> QED  BY <2>3, <2>4
  <1> HIDE DEF p, n
  <1>3. d.entry = g.entry /\ d.inside = g.inside
    <2>1. CASE d.entry <= n
      <3>1. p \in Nat /\ p < LastEnd
        BY <2>1, <1>2
      <3>2. g.entry # n + 1
        BY <3>1, <1>1, <1>2
      <3>3. g.entry <= n
        BY <3>2, <1>1, <1>2
      <3>4. d.entry = g.entry
        <4>1. /\ d.entry \in 1..n /\ key_starts[d.entry] <= p /\ p < key_ends[d.entry]
              /\ g.entry \in 1..n /\ key_starts[g.entry] <= p /\ p < key_ends[g.entry]
          BY <2>1, <3>3, <1>2
        <4>2. \A e, f \in 1..n : key_starts[e] <= p /\ p < key_ends[e]
                                 /\ key_starts[f] <= p /\ p < key_ends[f] => e = f
          <5>1. Ranges(key_starts, key_ends)
            BY ArrayFacts
          <5>2. \A i \in Nat : \A e, f \in 1..Len(key_ends) :
                  key_starts[e] <= i /\ i < key_ends[e]
                    /\ key_starts[f] <= i /\ i < key_ends[f] => e = f
            BY <5>1, RangesCover
          <5> QED  BY <3>1, <5>2 DEF n
        <4> QED  BY <4>1, <4>2
      <3>5. key_starts[d.entry] + d.inside = key_starts[d.entry] + g.inside
        BY <2>1, <3>3, <3>4, <1>2
      <3>6. key_starts[d.entry] \in Nat /\ d.inside \in Nat /\ g.inside \in Nat
        BY <2>1, <1>2
      <3> QED  BY <3>4, <3>5, <3>6
    <2>2. CASE ~ (d.entry <= n)
      <3>1. d.entry = n + 1 /\ p >= LastEnd /\ p \in Nat
        BY <2>2, <1>1, <1>2
      <3>2. ~ (g.entry <= n)
        BY <3>1, <1>1, <1>2
      <3>3. g.entry = n + 1
        BY <3>2, <1>1, <1>2
      <3>4. LastEnd + d.inside = LastEnd + g.inside
        BY <3>1, <3>3, <1>2
      <3>5. d.inside \in Nat /\ g.inside \in Nat
        BY <1>2
      <3> QED  BY <3>1, <3>3, <3>4, <3>5, <1>1
    <2> QED  BY <2>1, <2>2
  <1> QED  BY <1>2, <1>3

\* `advance` comes to rest at the position it was asked for (slice.rs:97-134).
LEMMA AdvanceLands ==
  ASSUME ArrayOK, NEW c \in 1..(Len(key_ends) + 1), NEW i \in Nat
  PROVE  Lands([entry |-> c, inside |-> i], Advance(c, i))
PROOF
  <1> DEFINE n == Len(key_ends)
             Over(loc) ==
               /\ loc.entry <= Len(key_ends)
               /\ loc.inside >= key_ends[loc.entry] - key_starts[loc.entry]
             Next1(loc) ==
               [entry |-> loc.entry + 1,
                inside |-> loc.inside - (key_ends[loc.entry] - key_starts[loc.entry])]
             F == CHOOSE walk :
                    walk = [loc \in Locs |-> IF Over(loc) THEN walk[Next1(loc)] ELSE loc]
             G == [loc \in Locs |-> CHOOSE d : Lands(loc, d)]
  <1>1. Advance(c, i) = F[[entry |-> c, inside |-> i]]
    BY Zenon DEF Advance
  <1>2. \A loc : Over(loc) <=> WalksOver(loc)
    BY DEF WalksOver
  <1>3. \A loc : Next1(loc) = Behind(loc)
    BY DEF Behind
  <1>4. n \in Nat
    BY RangeFacts
  <1> HIDE DEF Over, Next1, F
  <1>5. \A loc \in Locs : Lands(loc, G[loc])
    BY LandsSomewhere
  <1>16. G = [loc \in Locs |-> G[loc]]
    OBVIOUS
  <1> HIDE DEF G
  <1>6. G = [loc \in Locs |-> IF Over(loc) THEN G[Next1(loc)] ELSE loc]
    <2>1. ASSUME NEW loc \in Locs
          PROVE  G[loc] = IF Over(loc) THEN G[Next1(loc)] ELSE loc
      <3>1. CASE Over(loc)
        <4>1. /\ Behind(loc) \in Locs /\ Behind(loc).entry = loc.entry + 1
              /\ PosOf(Behind(loc)) = PosOf(loc)
          BY <3>1, <1>2, BehindIsThere
        <4>2. Lands(Behind(loc), G[Behind(loc)])
          BY <4>1, <1>5
        <4>3. Lands(loc, G[Behind(loc)])
          <5>1. loc.entry \in Nat /\ G[Behind(loc)].entry \in Nat
            BY <4>2, <1>4 DEF Lands, Locs
          <5>2. G[Behind(loc)].entry >= loc.entry
            BY <4>1, <4>2, <5>1 DEF Lands
          <5> QED  BY <4>1, <4>2, <5>2 DEF Lands
        <4>4. G[loc] = G[Behind(loc)]
          BY <4>3, <1>5, LandsOnce
        <4> QED  BY <3>1, <4>4, <1>3
      <3>2. CASE ~ Over(loc)
        <4>1. Lands(loc, loc)
          <5>1. loc.entry \in 1..(n + 1) /\ loc.inside \in Nat
            BY <1>4 DEF Locs
          <5>2. ASSUME loc.entry <= n PROVE PosOf(loc) < key_ends[loc.entry]
            <6>1. loc.entry \in 1..n
              BY <5>1, <5>2, <1>4
            <6>2. key_starts[loc.entry] \in Nat /\ key_ends[loc.entry] \in Nat
              BY <6>1, RangeFacts
            <6>3. ~ (loc.inside >= key_ends[loc.entry] - key_starts[loc.entry])
              BY <3>2, <5>2 DEF Over
            <6>4. PosOf(loc) = key_starts[loc.entry] + loc.inside
              BY <5>2 DEF PosOf
            <6> QED  BY <5>1, <6>2, <6>3, <6>4
          <5> QED  BY <5>1, <5>2, <1>4 DEF Lands
        <4>2. G[loc] = loc
          BY <4>1, <1>5, LandsOnce
        <4> QED  BY <3>2, <4>2
      <3> QED  BY <3>1, <3>2
    <2> QED  BY <2>1, <1>16
  <1>7. F = [loc \in Locs |-> IF Over(loc) THEN F[Next1(loc)] ELSE loc]
    BY <1>6 DEF F
  <1>8. \A loc \in Locs : F[loc] = IF Over(loc) THEN F[Behind(loc)] ELSE loc
    BY <1>3, <1>7
  <1>9. \A loc \in Locs : G[loc] = IF Over(loc) THEN G[Behind(loc)] ELSE loc
    BY <1>3, <1>6
  <1> DEFINE S == {m \in Nat : \A loc \in Locs : loc.entry + m >= n + 1 => F[loc] = G[loc]}
  <1>10. 0 \in S
    <2>1. ASSUME NEW loc \in Locs, loc.entry + 0 >= n + 1 PROVE F[loc] = G[loc]
      <3>1. ~ (loc.entry <= n)
        BY <2>1, <1>4 DEF Locs
      <3>2. ~ Over(loc)
        BY <3>1 DEF Over
      <3> QED  BY <3>2, <1>8, <1>9
    <2> QED  BY <2>1
  <1>11. ASSUME NEW m \in Nat, m \in S PROVE m + 1 \in S
    <2>1. ASSUME NEW loc \in Locs, loc.entry + (m + 1) >= n + 1 PROVE F[loc] = G[loc]
      <3>1. CASE Over(loc)
        <4>1. Behind(loc) \in Locs /\ Behind(loc).entry = loc.entry + 1
          BY <3>1, <1>2, BehindIsThere
        <4>2. Behind(loc).entry + m >= n + 1
          BY <2>1, <4>1, <1>4 DEF Locs
        <4>3. F[Behind(loc)] = G[Behind(loc)]
          BY <4>1, <4>2, <1>11
        <4> QED  BY <3>1, <4>3, <1>8, <1>9
      <3>2. CASE ~ Over(loc)
        BY <3>2, <1>8, <1>9
      <3> QED  BY <3>1, <3>2
    <2> QED  BY <2>1
  <1>12. Nat \subseteq S
    <2> HIDE DEF S
    <2> QED  BY <1>10, <1>11, SetInduction
  <1> DEFINE at == [entry |-> c, inside |-> i]
  <1>13. at \in Locs
    BY DEF Locs
  <1>14. F[at] = G[at]
    <2>1. n \in S
      BY <1>4, <1>12
    <2>2. at.entry + n >= n + 1
      BY <1>4
    <2> QED  BY <2>1, <2>2, <1>13
  <1>15. Lands(at, G[at])
    BY <1>5, <1>13
  <1>17. Advance(c, i) = F[at]
    BY <1>1
  <1> QED  BY <1>14, <1>15, <1>17

-----------------------------------------------------------------------------
(***************************************************************************)
(* The invariant is inductive: one lemma for each kind of step.            *)
(***************************************************************************)
Others ==
  /\ iter \in [kind : Kinds, entry : Nat, inside : Nat, pos : Nat, ended : BOOLEAN]
  /\ futures \subseteq [of : {"item", "chunk"}, at : Nat] /\ IsFiniteSet(futures)
  /\ Cardinality(futures) <= MaxFutures
  /\ answer.kind \in {"none", "item", "outside", "gap", "error", "end", "shrunk", "chunk"}

LEMMA Parts ==
  /\ IInv <=> ArrayOK /\ Others /\ IterInv /\ FuturesInv /\ AnswerInv
  /\ IInv' <=> ArrayOK' /\ Others' /\ IterInv' /\ FuturesInv' /\ AnswerInv'
PROOF
  <1>1. TypeOK <=> /\ key_starts \in Seq(0..MaxItems) /\ key_ends \in Seq(0..MaxItems)
                   /\ entries \in Seq(Chunk) /\ fresh \in 0..MaxItems /\ Others
    BY DEF TypeOK, Others, Chunk
  <1>2. TypeOK' <=> /\ key_starts' \in Seq(0..MaxItems) /\ key_ends' \in Seq(0..MaxItems)
                    /\ entries' \in Seq(Chunk) /\ fresh' \in 0..MaxItems /\ Others'
    BY DEF TypeOK, Others, Chunk
  <1> QED  BY <1>1, <1>2 DEF IInv, ArrayOK

LEMMA MutatesKeeps ==
  ASSUME IInv, Mutates, ArrayOK'
  PROVE  IInv'
PROOF
  <1>1. iter' = Closed /\ futures' = {} /\ answer' = NoAnswer /\ UNCHANGED <<iter, futures>>
    BY DEF Mutates, Unshared
  <1>2. iter'.kind = "closed" /\ answer'.kind = "none"
    BY <1>1 DEF Closed, Start, NoAnswer
  <1>3. Others'
    BY <1>1, <1>2, Parts DEF Others
  <1>4. IterInv' /\ FuturesInv' /\ AnswerInv'
    BY <1>1, <1>2 DEF IterInv, FuturesInv, AnswerInv
  <1> QED  BY <1>3, <1>4, Parts

\* A step that keeps the items, the iterator and its futures.
LEMMA QuietKeeps ==
  ASSUME IInv, SameItems, UNCHANGED <<iter, futures>>
  PROVE  ArrayOK' /\ IterInv' /\ FuturesInv'
PROOF
  <1>1. ArrayOK' /\ DOMAIN entries' = DOMAIN entries /\ LastEnd' = LastEnd
    BY Parts, SameItemsKeep
  <1>2. UNCHANGED <<key_starts, key_ends, iter, futures>>
    BY DEF SameItems, keys
  <1>3. IterInv'
    BY <1>1, <1>2, Parts DEF IterInv
  <1>4. FuturesInv'
    BY <1>1, <1>2, Parts DEF FuturesInv
  <1> QED  BY <1>1, <1>3, <1>4

LEMMA AppendsStep ==
  ASSUME IInv, Appends
  PROVE  IInv' /\ Grown /\ answer' = NoAnswer
PROOF
  <1>1. PICK len \in {l \in 0..MaxLen : <<l>> \in Growths(1)} :
          AppendChunk(len) \/ AppendMemory(len) \/ AAppend(len) \/ AAppendMemory(len)
    BY DEF Appends
  <1>2. len \in Nat /\ <<len>> \in Growths(1)
    BY <1>1, BoundsAssumption
  <1>3. Mutates /\ \E keep \in BOOLEAN : PushChunk(len, keep)
    BY <1>1 DEF AppendChunk, AppendMemory, AAppend, AAppendMemory
  <1>4. PICK keep \in BOOLEAN : PushChunk(len, keep)
    BY <1>3
  <1>5. ArrayOK
    BY Parts
  <1>6. /\ MergeOf(StartsOf(<<len>>), <<len>>, NewEntries(<<len>>, keep))
        /\ fresh' = fresh + Width(<<len>>)
    BY <1>2, <1>4, <1>5, PushIsMerge
  <1>7. ArrayOK' /\ Grown
    BY <1>2, <1>5, <1>6, GrowKeeps
  <1> QED  BY <1>3, <1>7, MutatesKeeps DEF Mutates

LEMMA MergeStep ==
  ASSUME IInv, Merge
  PROVE  IInv' /\ Grown /\ answer' = NoAnswer
PROOF
  <1>1. Mutates
    BY DEF Merge
  <1>2. PICK re \in Growths(2), loaded \in BOOLEAN :
          /\ MergeOf(StartsOf(re), re, NewEntries(re, loaded))
          /\ fresh' = fresh + Width(re)
    BY DEF Merge
  <1>3. ArrayOK' /\ Grown
    BY <1>2, Parts, GrowKeeps
  <1> QED  BY <1>1, <1>3, MutatesKeeps DEF Mutates

LEMMA RemoveStep ==
  ASSUME IInv, RemoveChunk
  PROVE  IInv' /\ (\E e \in 1..Len(entries) : CutOut(e)) /\ answer' = NoAnswer
PROOF
  <1>1. Mutates /\ UNCHANGED fresh
    BY DEF RemoveChunk
  <1>2. PICK e \in DOMAIN key_starts :
          /\ entries' = RemoveAt(entries, e)
          /\ key_starts' = RemoveKey(key_starts, e, key_ends[e] - key_starts[e])
          /\ key_ends' = RemoveKey(key_ends, e, key_ends[e] - key_starts[e])
    BY DEF RemoveChunk
  <1>3. ArrayOK' /\ CutOut(e)
    BY <1>1, <1>2, Parts, RemoveKeeps
  <1> QED  BY <1>1, <1>3, MutatesKeeps DEF Mutates, CutOut

LEMMA ClearStep ==
  ASSUME IInv, Clear
  PROVE  IInv' /\ Tells
PROOF
  <1>1. Mutates /\ UNCHANGED <<keys, fresh>> /\ \E E : Unload(E)
    BY DEF Clear
  <1>2. SameItems
    BY <1>1, Parts, UnloadKeeps
  <1>3. ArrayOK'
    BY <1>2, Parts, SameItemsKeep
  <1>4. Tells
    BY <1>1, <1>2 DEF Tells, Mutates, NoAnswer
  <1> QED  BY <1>1, <1>3, <1>4, MutatesKeeps

LEMMA ShrinkStep ==
  ASSUME IInv, ShrinkToQuery
  PROVE  IInv' /\ Tells
PROOF
  <1>1. Unshared /\ UNCHANGED <<keys, fresh>>
    BY DEF ShrinkToQuery
  <1>2. PICK idxs \in SUBSET (0..LastEnd) :
          /\ Unload(DOMAIN entries \ Needed(idxs))
          /\ answer' = [kind |-> "shrunk", idxs |-> idxs, was |-> LoadedChunks]
    BY DEF ShrinkToQuery
  <1>3. SameItems
    BY <1>1, <1>2, Parts, UnloadKeeps
  <1>4. UNCHANGED <<iter, futures>>
    BY <1>1 DEF Unshared
  <1>5. ArrayOK' /\ IterInv' /\ FuturesInv'
    BY <1>3, <1>4, QuietKeeps
  <1>6. DOMAIN entries' = DOMAIN entries /\ LastEnd \in Nat
    BY <1>3, Parts, SameItemsKeep, ArrayFacts
  <1>7. answer'.kind = "shrunk" /\ answer'.idxs = idxs /\ answer'.was = LoadedChunks
    BY <1>2
  <1>8. LoadedChunks' = LoadedChunks \cap Needed(idxs)
    <2>1. ASSUME NEW e \in DOMAIN entries
          PROVE  entries'[e].loaded <=> entries[e].loaded /\ e \in Needed(idxs)
      <3>1. entries'[e] = IF e \in DOMAIN entries \ Needed(idxs)
                            THEN Entry(entries[e].items, FALSE) ELSE entries[e]
        BY <1>2 DEF Unload
      <3> QED  BY <3>1 DEF Entry
    <2> QED  BY <2>1, <1>6 DEF LoadedChunks
  <1>9. Needed(answer.idxs)' = Needed(idxs)
    BY <1>1, <1>7 DEF Needed, keys
  <1>10. AnswerInv'
    <2>1. answer'.was \subseteq DOMAIN entries' /\ answer'.idxs \subseteq Nat
      BY <1>2, <1>6, <1>7 DEF LoadedChunks
    <2> QED  BY <2>1, <1>7, <1>8, <1>9 DEF AnswerInv
  <1>11. Others'
    BY <1>4, <1>7, Parts DEF Others
  <1>12. Tells
    BY <1>3, <1>7 DEF Tells
  <1> QED  BY <1>5, <1>10, <1>11, <1>12, Parts

LEMMA GetsStep ==
  ASSUME IInv, Gets
  PROVE  IInv' /\ Tells
PROOF
  <1>1. PICK idx \in 0..(LastEnd + 1) : Looks(idx)
    BY DEF Gets, Get, GenericGet, AGet, AGenericGet
  <1>2. idx \in Nat
    BY <1>1, Parts, ArrayFacts
  <1>3. Lookup(idx) /\ UNCHANGED <<keys, fresh>> /\ UNCHANGED <<iter, futures>>
    BY <1>1 DEF Looks
  <1>4. Tells /\ AnswerInv' /\ answer'.kind \in {"item", "gap", "error", "outside"}
    BY <1>2, <1>3, Parts, LookupKeeps
  <1>5. Others'
    BY <1>3, <1>4, Parts DEF Others
  <1> QED  BY <1>3, <1>4, <1>5, Parts, QuietKeeps DEF Tells

LEMMA OpenStep ==
  ASSUME IInv, Open
  PROVE  IInv' /\ Tells
PROOF
  <1>1. PICK kind \in Kinds : Opens(kind)
    <2>1. \A kind \in {"walk", "stream", "chunks", "chunk_stream"} : kind \in Kinds
      BY DEF Kinds
    <2> QED  BY <2>1 DEF Open, OpenIter, OpenGenericIter, OpenStream, OpenStreamSend,
                         OpenGenericStream, OpenGenericStreamSend, OpenChunkIter,
                         OpenGenericChunkIter, OpenChunkStream, OpenGenericChunkStream
  <1>2. /\ iter' = Start(kind) /\ answer' = NoAnswer
        /\ UNCHANGED <<keys, entries, futures, fresh>>
    BY <1>1 DEF Opens
  <1>3. SameItems
    BY <1>2, Parts, UnchangedKeep
  <1>4. ArrayOK' /\ DOMAIN entries' = DOMAIN entries /\ LastEnd' = LastEnd
    BY <1>3, Parts, SameItemsKeep
  <1>5. /\ iter'.kind = kind /\ iter'.entry = 1 /\ iter'.inside = 0 /\ iter'.pos = 0
        /\ iter' \in [kind : Kinds, entry : Nat, inside : Nat, pos : Nat, ended : BOOLEAN]
        /\ answer'.kind = "none"
    BY <1>2 DEF Start, NoAnswer
  <1>6. /\ Len(key_ends') \in Nat /\ LastEnd' \in Nat
        /\ Len(key_ends') > 0 => key_starts'[1] = 0
        /\ Len(key_ends') = 0 => LastEnd' = 0
    <2>1. UNCHANGED <<key_starts, key_ends>>
      BY <1>2 DEF keys
    <2>2. /\ Len(key_ends) \in Nat /\ LastEnd \in Nat
          /\ Len(key_ends) = 0 => LastEnd = 0
          /\ \A e \in 1..Len(key_ends) : key_starts[e] = (IF e = 1 THEN 0 ELSE key_ends[e - 1])
      BY Parts, RangeFacts
    <2> QED  BY <2>1, <2>2, <1>4
  <1>7. IterInv'
    BY <1>5, <1>6 DEF IterInv
  <1>8. FuturesInv' /\ AnswerInv'
    BY <1>2, <1>4, <1>5, Parts DEF FuturesInv, AnswerInv
  <1>9. Others'
    BY <1>2, <1>5, Parts DEF Others
  <1>10. Tells
    BY <1>3, <1>5 DEF Tells
  <1> QED  BY <1>4, <1>7, <1>8, <1>9, <1>10, Parts

LEMMA CloseStep ==
  ASSUME IInv, CloseIter
  PROVE  IInv' /\ Tells
PROOF
  <1>1. iter' = Closed /\ answer' = NoAnswer /\ UNCHANGED <<keys, entries, futures, fresh>>
    BY DEF CloseIter
  <1>2. SameItems
    BY <1>1, Parts, UnchangedKeep
  <1>3. ArrayOK' /\ DOMAIN entries' = DOMAIN entries /\ LastEnd' = LastEnd
    BY <1>2, Parts, SameItemsKeep
  <1>4. /\ iter'.kind = "closed" /\ answer'.kind = "none"
        /\ iter' \in [kind : Kinds, entry : Nat, inside : Nat, pos : Nat, ended : BOOLEAN]
    BY <1>1 DEF Closed, Start, Kinds, NoAnswer
  <1>5. IterInv' /\ FuturesInv' /\ AnswerInv'
    BY <1>1, <1>3, <1>4, Parts DEF IterInv, FuturesInv, AnswerInv
  <1>6. Others'
    BY <1>1, <1>4, Parts DEF Others
  <1>7. Tells
    BY <1>2, <1>4 DEF Tells
  <1> QED  BY <1>3, <1>5, <1>6, <1>7, Parts

\* `nth` and `next` of the iterators: where they were, they go on from.
LEMMA WalkStep ==
  ASSUME IInv, NEW n \in Nat, iter.kind = "walk", WalkNth(n)
  PROVE  IInv' /\ Tells
PROOF
  <1> DEFINE m == Len(key_ends)
             c == iter.entry
             i == iter.inside
             from == [entry |-> c, inside |-> i + n]
             loc == Advance(c, i + n)
             p == iter.pos + n
  <1>1. ArrayOK /\ Others /\ IterInv /\ FuturesInv
    BY Parts
  <1>2. /\ iter \in [kind : Kinds, entry : Nat, inside : Nat, pos : Nat, ended : BOOLEAN]
        /\ m \in Nat /\ LastEnd \in Nat /\ p \in Nat /\ i + n \in Nat /\ i \in Nat
        /\ iter.pos \in Nat
    BY <1>1, RangeFacts DEF Others
  <1>3. c \in 1..(m + 1)
    BY <1>1 DEF IterInv
  <1>4. Lands(from, loc)
    BY <1>1, <1>2, <1>3, AdvanceLands
  <1> HIDE DEF loc, from, m
  <1>5. from.entry = c /\ from.inside = i + n
    BY DEF from
  <1>6. /\ loc.entry \in 1..(m + 1) /\ loc.inside \in Nat /\ loc.entry >= c
        /\ PosOf(loc) = PosOf(from)
        /\ loc.entry <= m => PosOf(loc) < key_ends[loc.entry]
    BY <1>4, <1>5 DEF Lands, Locs, m
  <1>7. CASE loc.entry > m
    <2>1. iter' = At(loc, p) /\ answer' = [kind |-> "end", at |-> p] /\ UNCHANGED entries
      BY <1>7 DEF WalkNth, loc, m
    <2>2. UNCHANGED <<keys, futures, fresh>>
      BY DEF WalkNth
    <2>3. /\ iter'.kind = "walk" /\ iter'.entry = loc.entry /\ iter'.inside = loc.inside
          /\ iter'.pos = p /\ iter'.ended = TRUE
          /\ iter' \in [kind : Kinds, entry : Nat, inside : Nat, pos : Nat, ended : BOOLEAN]
      <3>1. loc.entry \in Nat /\ loc.inside \in Nat /\ loc.entry > Len(key_ends)
        BY <1>2, <1>6, <1>7 DEF m
      <3> QED  BY <2>1, <3>1, <1>2 DEF At
    <2>4. SameItems
      BY <2>1, <2>2, <1>1, UnchangedKeep
    <2>5. /\ ArrayOK' /\ DOMAIN entries' = DOMAIN entries /\ LastEnd' = LastEnd
          /\ UNCHANGED <<key_starts, key_ends>>
      BY <2>2, <2>4, <1>1, SameItemsKeep DEF keys
    <2>6. loc.entry = m + 1 /\ ~ (m + 1 <= m)
      <3>1. loc.entry \in 1..(m + 1) /\ m \in Nat
        BY <1>2, <1>6
      <3>2. loc.entry > m
        BY <1>7
      <3> QED  BY <3>1, <3>2
    <2>7. p >= LastEnd
      <3>1. CASE c <= m
        <4>1. key_starts[c] + i = iter.pos /\ c \in 1..m
          BY <1>1, <1>2, <1>3, <3>1 DEF IterInv, m
        <4>2. key_starts[c] \in Nat
          BY <4>1, <1>1, RangeFacts DEF m
        <4>3. PosOf(from) = key_starts[c] + (i + n)
          BY <3>1, <1>5 DEF PosOf, m
        <4>4. PosOf(loc) = LastEnd + loc.inside
          BY <2>6 DEF PosOf, m
        <4> QED  BY <4>1, <4>2, <4>3, <4>4, <1>2, <1>6
      <3>2. CASE c = m + 1
        <4>1. iter.pos >= LastEnd
          BY <1>1, <3>2 DEF IterInv, m
        <4> QED  BY <4>1, <1>2
      <3> QED  BY <3>1, <3>2, <1>2, <1>3
    <2>8. IterInv'
      <3>1. Len(key_ends') = m /\ iter'.entry = m + 1
        BY <2>3, <2>5, <2>6 DEF m
      <3> QED  BY <3>1, <2>3, <2>5, <2>6, <2>7, <1>2, <1>3 DEF IterInv
    <2>9. FuturesInv'
      BY <2>2, <2>5, <1>1 DEF FuturesInv
    <2>10. AnswerInv' /\ answer'.kind = "end"
      BY <2>1, <2>5, <2>7, <1>2 DEF AnswerInv
    <2>11. Others'
      BY <2>2, <2>3, <2>10, <1>1 DEF Others
    <2>12. Tells
      BY <2>4, <2>10 DEF Tells
    <2> QED  BY <2>5, <2>8, <2>9, <2>10, <2>11, <2>12, Parts
  <1>8. CASE ~ (loc.entry > m)
    <2> DEFINE on == [entry |-> loc.entry, inside |-> loc.inside + 1]
               to == Advance(loc.entry, loc.inside + 1)
    <2>1. /\ ReadAt(loc.entry, loc.inside, p)
          /\ iter' = [At(to, p + 1) EXCEPT !.ended = iter.ended]
      BY <1>8 DEF WalkNth, loc, m
    <2>2. UNCHANGED <<keys, futures, fresh>>
      BY DEF WalkNth
    <2>3. Lands(on, to)
      <3>1. loc.entry \in 1..(Len(key_ends) + 1) /\ loc.inside + 1 \in Nat
        BY <1>6 DEF m
      <3> QED  BY <3>1, <1>1, AdvanceLands
    <2> HIDE DEF to
    <2>4. /\ to.entry \in 1..(m + 1) /\ to.inside \in Nat /\ PosOf(to) = PosOf(on)
          /\ to.entry <= m => PosOf(to) < key_ends[to.entry]
      BY <2>3 DEF Lands, Locs, m
    <2>5. /\ iter'.kind = "walk" /\ iter'.entry = to.entry /\ iter'.inside = to.inside
          /\ iter'.pos = p + 1 /\ iter'.ended = iter.ended
          /\ iter' \in [kind : Kinds, entry : Nat, inside : Nat, pos : Nat, ended : BOOLEAN]
      <3>1. to.entry \in Nat /\ to.inside \in Nat /\ p + 1 \in Nat
        BY <2>4, <1>2
      <3> QED  BY <2>1, <3>1, <1>2 DEF At
    <2>6. loc.entry <= m /\ loc.entry \in 1..m /\ c <= m /\ c \in 1..m
      BY <1>2, <1>3, <1>6, <1>8
    <2>7. key_starts[c] + i = iter.pos /\ key_starts[c] \in Nat
      BY <2>6, <1>1, RangeFacts DEF IterInv, m
    <2>8. PosOf(from) = p
      <3>1. PosOf(from) = key_starts[c] + (i + n)
        BY <2>6, <1>5 DEF PosOf, m
      <3> QED  BY <3>1, <2>7, <1>2
    <2>9. PosOf(loc) = key_starts[loc.entry] + loc.inside
      BY <2>6 DEF PosOf, m
    <2>10. /\ key_starts[loc.entry] \in Nat /\ key_ends[loc.entry] \in Nat
           /\ key_ends[loc.entry] <= LastEnd
      BY <2>6, <1>1, RangeFacts DEF m
    <2>11. PosOf(on) = p + 1
      <3>1. PosOf(on) = key_starts[loc.entry] + (loc.inside + 1)
        BY <2>6 DEF PosOf, m
      <3> QED  BY <3>1, <2>8, <2>9, <2>10, <1>2, <1>6
    <2>12. p < key_ends[loc.entry] /\ p + 1 <= LastEnd
      BY <2>6, <2>8, <2>10, <1>2, <1>6
    <2>13. loc.entry \in DOMAIN entries /\ loc.inside < Len(entries[loc.entry].items)
      <3>1. /\ loc.entry \in 1..Len(entries) /\ DOMAIN entries = 1..Len(entries)
            /\ key_ends[loc.entry] = key_starts[loc.entry] + Len(entries[loc.entry].items)
            /\ Len(entries[loc.entry].items) \in Nat
        BY <2>6, <1>1, ArrayFacts DEF m
      <3>2. key_starts[loc.entry] + loc.inside = p /\ loc.inside \in Nat
        BY <2>8, <2>9, <1>6
      <3>3. p \in Nat /\ key_starts[loc.entry] \in Nat /\ p < key_ends[loc.entry]
        BY <2>10, <2>12, <1>2
      <3> HIDE DEF p
      <3>4. p < key_starts[loc.entry] + Len(entries[loc.entry].items)
        BY <3>1, <3>3
      <3>5. loc.inside < Len(entries[loc.entry].items)
        BY <3>1, <3>2, <3>3, <3>4
      <3> QED  BY <3>1, <3>5
    <2>14. Tells /\ SameItems /\ AnswerInv' /\ answer'.kind \in {"item", "gap", "error"}
      <3>1. p = key_starts[loc.entry] + loc.inside /\ loc.inside \in Nat
        BY <2>8, <2>9, <1>6
      <3> QED  BY <3>1, <2>1, <2>2, <2>13, <1>1, ReadAtKeeps DEF Tells
    <2>15. /\ ArrayOK' /\ DOMAIN entries' = DOMAIN entries /\ LastEnd' = LastEnd
           /\ UNCHANGED <<key_starts, key_ends>>
      BY <2>2, <2>14, <1>1, SameItemsKeep DEF keys
    <2>16. to.entry <= m => key_starts[to.entry] + to.inside = p + 1
                            /\ p + 1 < key_ends[to.entry]
      BY <2>4, <2>11 DEF PosOf, m
    <2>17. to.entry = m + 1 => p + 1 >= LastEnd
      <3>1. to.entry = m + 1 => PosOf(to) = LastEnd + to.inside
        <4>1. ~ (m + 1 <= m)
          BY <1>2
        <4> QED  BY <4>1 DEF PosOf, m
      <3> QED  BY <3>1, <2>4, <2>11, <1>2
    <2>18. IterInv'
      <3>1. Len(key_ends') = m /\ key_starts' = key_starts /\ key_ends' = key_ends
        BY <2>15 DEF m
      <3> QED  BY <3>1, <2>4, <2>5, <2>12, <2>15, <2>16, <2>17 DEF IterInv
    <2>19. FuturesInv'
      BY <2>2, <2>15, <1>1 DEF FuturesInv
    <2>20. Others'
      BY <2>2, <2>5, <2>14, <1>1 DEF Others
    <2> QED  BY <2>14, <2>15, <2>18, <2>19, <2>20, Parts
  <1> QED  BY <1>7, <1>8

\* `nth` and `next` of the streams: a future for an item that is there.
LEMMA FutStep ==
  ASSUME IInv, NEW n \in Nat, iter.kind = "stream", FutNth(n)
  PROVE  IInv' /\ Tells
PROOF
  <1> DEFINE p == iter.pos + n
             f == [of |-> "item", at |-> p]
  <1>1. ArrayOK /\ Others /\ IterInv /\ FuturesInv
    BY Parts
  <1>2. /\ Cardinality(futures) < MaxFutures
        /\ iter' = [iter EXCEPT !.pos = p + 1, !.ended = @ \/ p >= LastEnd]
        /\ UNCHANGED <<keys, entries, fresh>>
    BY DEF FutNth
  <1>3. IF p < LastEnd
          THEN futures' = futures \cup {f} /\ answer' = NoAnswer
          ELSE answer' = [kind |-> "end", at |-> p] /\ UNCHANGED futures
    BY DEF FutNth
  <1>4. /\ iter \in [kind : Kinds, entry : Nat, inside : Nat, pos : Nat, ended : BOOLEAN]
        /\ LastEnd \in Nat /\ p \in Nat /\ MaxFutures \in Nat
    BY <1>1, RangeFacts, BoundsAssumption DEF Others
  <1>5. /\ iter'.kind = "stream" /\ iter'.pos = p + 1
        /\ iter'.ended = (iter.ended \/ p >= LastEnd)
        /\ iter' \in [kind : Kinds, entry : Nat, inside : Nat, pos : Nat, ended : BOOLEAN]
    <2> DEFINE b == iter.ended \/ p >= LastEnd
    <2>1. b \in BOOLEAN /\ iter' = [iter EXCEPT !.pos = p + 1, !.ended = b]
      BY <1>2, <1>4
    <2>2. p + 1 \in Nat
      BY <1>4
    <2> HIDE DEF b, p
    <2>3. /\ iter'.kind = "stream" /\ iter'.pos = p + 1 /\ iter'.ended = b
          /\ iter' \in [kind : Kinds, entry : Nat, inside : Nat, pos : Nat, ended : BOOLEAN]
      BY <2>1, <2>2, <1>4
    <2> QED  BY <2>3 DEF b
  <1>6. SameItems
    BY <1>1, <1>2, UnchangedKeep
  <1>7. ArrayOK' /\ DOMAIN entries' = DOMAIN entries /\ LastEnd' = LastEnd
    BY <1>1, <1>6, SameItemsKeep
  <1>8. IterInv'
    <2>1. ~ iter'.ended => p + 1 <= LastEnd
      BY <1>4, <1>5
    <2> QED  BY <2>1, <1>5, <1>7 DEF IterInv
  <1>9. CASE p < LastEnd
    <2>1. futures' = futures \cup {f} /\ answer' = NoAnswer
      BY <1>3, <1>9
    <2>2. FuturesInv'
      BY <2>1, <1>1, <1>7, <1>9 DEF FuturesInv
    <2>3. answer'.kind = "none"
      BY <2>1 DEF NoAnswer
    <2>4. f \in [of : {"item", "chunk"}, at : Nat]
      BY <1>4
    <2>5. /\ IsFiniteSet(futures) /\ Cardinality(futures) \in Nat
          /\ futures \subseteq [of : {"item", "chunk"}, at : Nat]
      BY <1>1, FS_CardinalityType DEF Others
    <2>6. IsFiniteSet(futures') /\ Cardinality(futures') <= MaxFutures
      <3> HIDE DEF f
      <3> QED  BY <2>1, <2>5, <1>2, <1>4, FS_AddElement
    <2>7. futures' \subseteq [of : {"item", "chunk"}, at : Nat]
      BY <2>1, <2>4, <2>5
    <2>8. Others'
      BY <2>3, <2>6, <2>7, <1>5 DEF Others
    <2> QED  BY <2>2, <2>3, <2>8, <1>6, <1>7, <1>8, Parts DEF AnswerInv, Tells
  <1>10. CASE ~ (p < LastEnd)
    <2>1. answer' = [kind |-> "end", at |-> p] /\ UNCHANGED futures
      BY <1>3, <1>10
    <2>2. answer'.kind = "end" /\ answer'.at = p /\ p >= LastEnd
      BY <2>1, <1>4, <1>10
    <2>3. AnswerInv'
      BY <2>2, <1>4, <1>7 DEF AnswerInv
    <2>4. FuturesInv'
      BY <2>1, <1>1, <1>7 DEF FuturesInv
    <2>5. Others'
      BY <2>1, <2>2, <1>1, <1>5 DEF Others
    <2>6. Tells
      BY <2>2, <1>6 DEF Tells
    <2> QED  BY <2>3, <2>4, <2>5, <2>6, <1>7, <1>8, Parts
  <1> QED  BY <1>9, <1>10

LEMMA NthStep ==
  ASSUME IInv, NEW n \in 0..MaxSkip, Nth(n)
  PROVE  IInv' /\ Tells
PROOF
  <1>1. n \in Nat
    BY BoundsAssumption
  <1>2. \/ iter.kind = "walk" /\ WalkNth(n)
        \/ iter.kind = "stream" /\ FutNth(n)
    BY DEF Nth, IterNth, GenericIterNth, StreamNth, StreamSendNth, GenericStreamNth,
           GenericStreamSendNth
  <1> QED  BY <1>1, <1>2, WalkStep, FutStep

LEMMA ChunkAtKeeps ==
  ASSUME ArrayOK, UNCHANGED <<keys, fresh>>, NEW e \in DOMAIN entries, ChunkAt(e)
  PROVE  SameItems /\ AnswerInv' /\ answer'.kind \in {"chunk", "error"}
PROOF
  <1>1. CASE Load(e) /\ answer' = [kind |-> "chunk", at |-> e]
    <2>1. SameItems /\ answer'.kind = "chunk"
      BY <1>1, LoadKeeps
    <2> QED  BY <2>1 DEF AnswerInv
  <1>2. CASE answer' = [kind |-> "error", at |-> e] /\ UNCHANGED entries
    <2>1. SameItems /\ answer'.kind = "error"
      BY <1>2, UnchangedKeep
    <2> QED  BY <2>1 DEF AnswerInv
  <1> QED  BY <1>1, <1>2 DEF ChunkAt

LEMMA ChunkStep ==
  ASSUME IInv, ChunkNext
  PROVE  IInv' /\ Tells
PROOF
  <1>1. /\ iter.kind = "chunks" /\ iter.entry \in DOMAIN entries /\ ChunkAt(iter.entry)
        /\ iter' = NextChunk /\ UNCHANGED <<keys, futures, fresh>>
    BY DEF ChunkNext
  <1>2. ArrayOK /\ Others /\ FuturesInv
    BY Parts
  <1>3. /\ iter'.kind = "chunks"
        /\ iter' \in [kind : Kinds, entry : Nat, inside : Nat, pos : Nat, ended : BOOLEAN]
    BY <1>1, <1>2 DEF NextChunk, Others
  <1>4. SameItems /\ AnswerInv' /\ answer'.kind \in {"chunk", "error"}
    BY <1>1, <1>2, ChunkAtKeeps
  <1>5. ArrayOK' /\ DOMAIN entries' = DOMAIN entries /\ LastEnd' = LastEnd
    BY <1>2, <1>4, SameItemsKeep
  <1>6. IterInv' /\ FuturesInv'
    BY <1>1, <1>2, <1>3, <1>5 DEF IterInv, FuturesInv
  <1>7. Others'
    BY <1>1, <1>2, <1>3, <1>4 DEF Others
  <1>8. Tells
    BY <1>4 DEF Tells
  <1> QED  BY <1>4, <1>5, <1>6, <1>7, <1>8, Parts

LEMMA ChunkStreamStep ==
  ASSUME IInv, ChunkStreamNext
  PROVE  IInv' /\ Tells
PROOF
  <1> DEFINE f == [of |-> "chunk", at |-> iter.entry]
  <1>1. /\ iter.kind = "chunk_stream" /\ iter.entry \in DOMAIN entries
        /\ Cardinality(futures) < MaxFutures /\ futures' = futures \cup {f}
        /\ iter' = NextChunk /\ answer' = NoAnswer /\ UNCHANGED <<keys, entries, fresh>>
    BY DEF ChunkStreamNext
  <1>2. ArrayOK /\ Others /\ FuturesInv
    BY Parts
  <1>3. /\ iter'.kind = "chunk_stream" /\ answer'.kind = "none"
        /\ iter' \in [kind : Kinds, entry : Nat, inside : Nat, pos : Nat, ended : BOOLEAN]
    BY <1>1, <1>2 DEF NextChunk, Others, NoAnswer
  <1>4. SameItems
    BY <1>1, <1>2, UnchangedKeep
  <1>5. ArrayOK' /\ DOMAIN entries' = DOMAIN entries /\ LastEnd' = LastEnd
    BY <1>2, <1>4, SameItemsKeep
  <1>6. IterInv' /\ FuturesInv' /\ AnswerInv'
    BY <1>1, <1>2, <1>3, <1>5 DEF IterInv, FuturesInv, AnswerInv
  <1>7. f \in [of : {"item", "chunk"}, at : Nat]
    BY <1>2 DEF Others
  <1>8. /\ IsFiniteSet(futures) /\ Cardinality(futures) \in Nat /\ MaxFutures \in Nat
        /\ futures \subseteq [of : {"item", "chunk"}, at : Nat]
    BY <1>2, FS_CardinalityType, BoundsAssumption DEF Others
  <1>9. IsFiniteSet(futures') /\ Cardinality(futures') <= MaxFutures
    <2>1. futures' = futures \cup {f} /\ Cardinality(futures) < MaxFutures
      BY <1>1
    <2>2. f \in futures \cup {f}
      OBVIOUS
    <2> HIDE DEF f
    <2>3. /\ IsFiniteSet(futures \cup {f})
          /\ \/ Cardinality(futures \cup {f}) = Cardinality(futures)
             \/ Cardinality(futures \cup {f}) = Cardinality(futures) + 1
      BY <1>8, FS_AddElement
    <2> QED  BY <2>1, <2>3, <1>8
  <1>10. Others'
    BY <1>1, <1>3, <1>7, <1>8, <1>9 DEF Others
  <1>11. Tells
    BY <1>3, <1>4 DEF Tells
  <1> QED  BY <1>5, <1>6, <1>10, <1>11, Parts

LEMMA FewerFutures ==
  ASSUME Others, NEW f, futures' = futures \ {f}
  PROVE  /\ futures' \subseteq [of : {"item", "chunk"}, at : Nat] /\ IsFiniteSet(futures')
         /\ Cardinality(futures') <= MaxFutures
PROOF
  <1>1. /\ IsFiniteSet(futures) /\ Cardinality(futures) \in Nat /\ MaxFutures \in Nat
        /\ Cardinality(futures) <= MaxFutures
        /\ futures \subseteq [of : {"item", "chunk"}, at : Nat]
    BY FS_CardinalityType, BoundsAssumption DEF Others
  <1>2. /\ IsFiniteSet(futures') /\ Cardinality(futures') <= Cardinality(futures)
    BY <1>1, FS_Subset
  <1>3. Cardinality(futures') \in Nat
    BY <1>2, FS_CardinalityType
  <1> QED  BY <1>1, <1>2, <1>3

LEMMA AwaitStep ==
  ASSUME IInv, NEW f \in futures, Await(f)
  PROVE  IInv' /\ Tells
PROOF
  <1>1. ArrayOK /\ Others /\ IterInv /\ FuturesInv
    BY Parts
  <1>2. futures' = futures \ {f} /\ UNCHANGED <<keys, iter, fresh>>
    BY DEF Await
  <1>3. IF f.of = "item" THEN Lookup(f.at) ELSE ChunkAt(f.at)
    BY DEF Await
  <1>4. f \in [of : {"item", "chunk"}, at : Nat]
    BY <1>1 DEF Others
  <1>5. Tells /\ SameItems /\ AnswerInv'
        /\ answer'.kind \in {"none", "item", "outside", "gap", "error", "end", "shrunk", "chunk"}
    <2>1. CASE f.of = "item"
      <3>1. Tells /\ AnswerInv' /\ answer'.kind \in {"item", "gap", "error", "outside"}
        BY <2>1, <1>1, <1>2, <1>3, <1>4, LookupKeeps
      <3> QED  BY <3>1 DEF Tells
    <2>2. CASE f.of # "item"
      <3>1. f.at \in DOMAIN entries
        BY <2>2, <1>1 DEF FuturesInv
      <3>2. SameItems /\ AnswerInv' /\ answer'.kind \in {"chunk", "error"}
        BY <2>2, <3>1, <1>1, <1>2, <1>3, ChunkAtKeeps
      <3> QED  BY <3>2 DEF Tells
    <2> QED  BY <2>1, <2>2
  <1>6. ArrayOK' /\ DOMAIN entries' = DOMAIN entries /\ LastEnd' = LastEnd
    BY <1>1, <1>5, SameItemsKeep
  <1>7. UNCHANGED <<key_starts, key_ends, iter>>
    BY <1>2 DEF keys
  <1>8. IterInv'
    BY <1>1, <1>6, <1>7 DEF IterInv
  <1>9. FuturesInv'
    BY <1>1, <1>2, <1>6 DEF FuturesInv
  <1>10. Others'
    <2>1. /\ futures' \subseteq [of : {"item", "chunk"}, at : Nat] /\ IsFiniteSet(futures')
          /\ Cardinality(futures') <= MaxFutures
      BY <1>1, <1>2, FewerFutures
    <2> QED  BY <2>1, <1>1, <1>5, <1>7 DEF Others
  <1> QED  BY <1>5, <1>6, <1>8, <1>9, <1>10, Parts

LEMMA DropStep ==
  ASSUME IInv, NEW f \in futures, DropFuture(f)
  PROVE  IInv' /\ Tells
PROOF
  <1>1. ArrayOK /\ Others /\ IterInv /\ FuturesInv
    BY Parts
  <1>2. /\ futures' = futures \ {f} /\ answer' = NoAnswer
        /\ UNCHANGED <<keys, entries, iter, fresh>>
    BY DEF DropFuture
  <1>3. SameItems
    BY <1>1, <1>2, UnchangedKeep
  <1>4. ArrayOK' /\ DOMAIN entries' = DOMAIN entries /\ LastEnd' = LastEnd
    BY <1>1, <1>3, SameItemsKeep
  <1>5. UNCHANGED <<key_starts, key_ends, iter>> /\ answer'.kind = "none"
    BY <1>2 DEF keys, NoAnswer
  <1>6. IterInv'
    BY <1>1, <1>4, <1>5 DEF IterInv
  <1>7. FuturesInv' /\ AnswerInv'
    BY <1>1, <1>2, <1>4, <1>5 DEF FuturesInv, AnswerInv
  <1>8. Others'
    <2>1. /\ futures' \subseteq [of : {"item", "chunk"}, at : Nat] /\ IsFiniteSet(futures')
          /\ Cardinality(futures') <= MaxFutures
      BY <1>1, <1>2, FewerFutures
    <2> QED  BY <2>1, <1>1, <1>5 DEF Others
  <1>9. Tells
    BY <1>3, <1>5 DEF Tells
  <1> QED  BY <1>4, <1>6, <1>7, <1>8, <1>9, Parts

LEMMA InitOK ==
  ASSUME Init
  PROVE  IInv
PROOF
  <1>1. /\ key_starts = <<>> /\ key_ends = <<>> /\ entries = <<>>
        /\ iter = Closed /\ futures = {} /\ answer = NoAnswer /\ fresh = 0
    BY DEF Init
  <1>2. MaxItems \in Nat /\ MaxFutures \in Nat
    BY BoundsAssumption
  <1>3. LastEnd = 0
    BY <1>1 DEF LastEnd, Width
  <1>4. ArrayOK
    BY <1>1, <1>2, <1>3 DEF ArrayOK, KeysTileEntries, ItemsInv
  <1>5. iter.kind = "closed" /\ answer.kind = "none"
        /\ iter \in [kind : Kinds, entry : Nat, inside : Nat, pos : Nat, ended : BOOLEAN]
    BY <1>1 DEF Closed, Start, NoAnswer, Kinds
  <1>6. IsFiniteSet(futures) /\ Cardinality(futures) = 0
    BY <1>1, FS_EmptySet
  <1>7. Others
    BY <1>1, <1>2, <1>5, <1>6 DEF Others
  <1>8. IterInv /\ FuturesInv /\ AnswerInv
    BY <1>1, <1>5 DEF IterInv, FuturesInv, AnswerInv
  <1> QED  BY <1>4, <1>7, <1>8, Parts

\* What a step is to those who see the items only.
Shows ==
  \/ Grown /\ answer' = NoAnswer
  \/ (\E e \in 1..Len(entries) : CutOut(e)) /\ answer' = NoAnswer
  \/ Tells

LEMMA NextStep ==
  ASSUME IInv, Next
  PROVE  IInv' /\ Shows
PROOF
  <1>1. CASE Appends
    BY <1>1, AppendsStep DEF Shows
  <1>2. CASE RemoveChunk
    BY <1>2, RemoveStep DEF Shows
  <1>3. CASE Merge
    BY <1>3, MergeStep DEF Shows
  <1>4. CASE Clear
    BY <1>4, ClearStep DEF Shows
  <1>5. CASE ShrinkToQuery
    BY <1>5, ShrinkStep DEF Shows
  <1>6. CASE Gets
    BY <1>6, GetsStep DEF Shows
  <1>7. CASE Open
    BY <1>7, OpenStep DEF Shows
  <1>8. CASE CloseIter
    BY <1>8, CloseStep DEF Shows
  <1>9. CASE \E n \in 0..MaxSkip : Nth(n)
    BY <1>9, NthStep DEF Shows
  <1>10. CASE ChunkNext
    BY <1>10, ChunkStep DEF Shows
  <1>11. CASE ChunkStreamNext
    BY <1>11, ChunkStreamStep DEF Shows
  <1>12. CASE \E f \in futures : Await(f) \/ DropFuture(f)
    BY <1>12, AwaitStep, DropStep DEF Shows
  <1> QED  BY <1>1, <1>2, <1>3, <1>4, <1>5, <1>6, <1>7, <1>8, <1>9, <1>10, <1>11, <1>12
           DEF Next

\* While an array is built, or one of secrets is used, this one rests.
LEMMA StaysOK ==
  ASSUME IInv, UNCHANGED vars
  PROVE  IInv'
PROOF
  <1>1. UNCHANGED <<key_starts, key_ends, entries, iter, futures, answer, fresh>>
    BY DEF vars, keys
  <1>2. ArrayOK' /\ LastEnd' = LastEnd
    BY <1>1, Parts DEF ArrayOK, KeysTileEntries, ItemsInv, LastEnd
  <1>3. Others' /\ IterInv' /\ FuturesInv'
    BY <1>1, <1>2, Parts DEF Others, IterInv, FuturesInv
  <1>4. AnswerInv'
    BY <1>1, <1>2, Parts DEF AnswerInv, LoadedChunks, Needed
  <1> QED  BY <1>2, <1>3, <1>4, Parts

-----------------------------------------------------------------------------
(***************************************************************************)
(* The theorems.                                                           *)
(***************************************************************************)
\* The ranges fit the chunks, walks are where they say they are, and futures
\* are for things that are there, whatever was appended, merged, removed, read
\* and awaited before (array/mod.rs, sync_impl, async_impl).
THEOREM Invariance == MCSpec => []IInv
PROOF
  <1>1. MCInit => IInv
    BY InitOK DEF MCInit
  <1>2. IInv /\ [MCNext]_MCVars => IInv'
    BY NextStep, StaysOK DEF MCNext, MCVars
  <1> QED  BY <1>1, <1>2, PTL DEF MCSpec

\* The types of the array's keys, chunks, iterator and futures.
THEOREM TypeCorrect == MCSpec => []TypeOK
PROOF
  <1>1. IInv => TypeOK
    BY DEF IInv
  <1> QED  BY <1>1, Invariance, PTL

\* keys and entries keep the same length, and the ranges are those of the
\* chunks' items, through every merge and removal (array/mod.rs:78-79, 219-250).
THEOREM KeysStayTiled == MCSpec => []KeysTileEntries
PROOF
  <1>1. IInv => KeysTileEntries
    BY DEF IInv
  <1> QED  BY <1>1, Invariance, PTL

-----------------------------------------------------------------------------
(***************************************************************************)
(* The items one after the other are where the ranges say.                 *)
(***************************************************************************)
LEMMA FlatIs ==
  ASSUME ArrayOK
  PROVE  /\ Len(Flat) = LastEnd
         /\ \A e \in DOMAIN entries : \A k \in 1..Len(entries[e].items) :
              Flat[key_starts[e] + k] = entries[e].items[k]
PROOF
  <1> DEFINE n == Len(entries)
             T == 1..MaxItems
             its == [e \in DOMAIN entries |-> entries[e].items]
             Holds(e, j) == key_starts[e] <= j - 1 /\ j - 1 < key_ends[e]
             Whole == [j \in 1..LastEnd |->
                         LET c == CHOOSE e \in 1..n : Holds(e, j)
                         IN  entries[c].items[j - key_starts[c]]]
             G == [i \in 1..n |-> [j \in 1..key_ends[i] |-> Whole[j]]]
             F == CHOOSE flatten :
                    flatten = [i \in 1..Len(its) |->
                                 IF i = 1 THEN its[i] ELSE flatten[i - 1] \o its[i]]
  <1>1. /\ n \in Nat /\ DOMAIN entries = 1..n /\ Len(key_ends) = n /\ LastEnd \in Nat
        /\ \A e \in 1..n : /\ entries[e].items \in Seq(T) /\ Len(entries[e].items) \in Nat
                           /\ key_ends[e] = key_starts[e] + Len(entries[e].items)
    BY ArrayFacts
  <1>2. /\ n > 0 => LastEnd = key_ends[n]
        /\ n = 0 => LastEnd = 0
        /\ \A e \in 1..n : /\ key_starts[e] \in Nat /\ key_ends[e] \in Nat
                           /\ key_starts[e] = (IF e = 1 THEN 0 ELSE key_ends[e - 1])
                           /\ key_starts[e] <= key_ends[e] /\ key_ends[e] <= LastEnd
    BY <1>1, RangeFacts
  <1>3. its \in [1..n -> Seq(T)] /\ \A e \in 1..n : its[e] = entries[e].items
    BY <1>1
  <1>4. its \in Seq(Seq(T)) /\ Len(its) = n
    <2> HIDE DEF its, n
    <2> QED  BY <1>1, <1>3, IsSeq
  <1>5. Flat = FlattenSeq(its)
    BY DEF Flat
  <1>6. FlattenSeq(its) = IF Len(its) = 0 THEN its ELSE F[Len(its)]
    BY Zenon DEF FlattenSeq
  <1> HIDE DEF F, its, n
  <1>7. ASSUME NEW e \in 1..n, NEW k \in 1..Len(entries[e].items)
        PROVE  /\ key_starts[e] + k \in 1..LastEnd
               /\ key_starts[e] + k <= key_ends[e]
               /\ Whole[key_starts[e] + k] = entries[e].items[k]
    <2> DEFINE j == key_starts[e] + k
    <2>1. /\ j \in Nat /\ j >= 1 /\ j <= key_ends[e] /\ j <= LastEnd
          /\ j - 1 \in Nat /\ j - key_starts[e] = k /\ Holds(e, j)
      <3>1. /\ key_starts[e] \in Nat /\ key_ends[e] \in Nat /\ key_ends[e] <= LastEnd
            /\ key_ends[e] = key_starts[e] + Len(entries[e].items)
            /\ Len(entries[e].items) \in Nat /\ LastEnd \in Nat
        BY <1>1, <1>2
      <3>2. k \in Nat /\ k >= 1 /\ k <= Len(entries[e].items)
        BY <3>1
      <3>3. /\ j \in Nat /\ j >= 1 /\ j <= key_ends[e] /\ j <= LastEnd
            /\ j - 1 \in Nat /\ j - key_starts[e] = k
        BY <3>1, <3>2
      <3>4. key_starts[e] <= j - 1 /\ j - 1 < key_ends[e]
        BY <3>1, <3>2
      <3> QED  BY <3>3, <3>4
    <2> HIDE DEF j
    <2>2. \A f \in 1..n : Holds(f, j) => f = e
      <3>1. \A i \in Nat : \A x, y \in 1..Len(key_ends) :
              key_starts[x] <= i /\ i < key_ends[x]
                /\ key_starts[y] <= i /\ i < key_ends[y] => x = y
        <4>1. Ranges(key_starts, key_ends)
          BY ArrayFacts
        <4> QED  BY <4>1, RangesCover
      <3> QED  BY <2>1, <3>1, <1>1
    <2> HIDE DEF Holds
    <2>3. (CHOOSE f \in 1..n : Holds(f, j)) = e
      BY <2>1, <2>2
    <2>4. j \in 1..LastEnd
      BY <2>1, <1>1
    <2>5. Whole[j] = entries[e].items[j - key_starts[e]]
      BY <2>3, <2>4
    <2> QED  BY <2>1, <2>4, <2>5 DEF j
  <1>8. Whole = [j \in 1..LastEnd |-> Whole[j]]
    OBVIOUS
  <1>9. \A j \in 1..LastEnd : \E e \in 1..n : \E k \in 1..Len(entries[e].items) :
          j = key_starts[e] + k
    <2>1. ASSUME NEW j \in 1..LastEnd
          PROVE  \E e \in 1..n : \E k \in 1..Len(entries[e].items) : j = key_starts[e] + k
      <3>1. j \in Nat /\ j - 1 \in Nat /\ j - 1 < LastEnd
        BY <1>1
      <3>2. PICK e \in 1..n : key_starts[e] <= j - 1 /\ j - 1 < key_ends[e]
        <4>1. Ranges(key_starts, key_ends)
          BY ArrayFacts
        <4>2. \A i \in Nat : i < LastEnd =>
                \E e \in 1..Len(key_ends) : key_starts[e] <= i /\ i < key_ends[e]
          BY <4>1, RangesCover DEF LastEnd
        <4> QED  BY <3>1, <4>2, <1>1
      <3>3. j - key_starts[e] \in 1..Len(entries[e].items)
            /\ j = key_starts[e] + (j - key_starts[e])
        BY <3>1, <3>2, <1>1, <1>2
      <3> QED  BY <3>3
    <2> QED  BY <2>1
  <1> HIDE DEF Whole
  <1>10. \A j \in 1..LastEnd : Whole[j] \in T
    <2>1. ASSUME NEW j \in 1..LastEnd PROVE Whole[j] \in T
      <3>1. PICK e \in 1..n : \E k \in 1..Len(entries[e].items) : j = key_starts[e] + k
        BY <1>9
      <3>2. PICK k \in 1..Len(entries[e].items) : j = key_starts[e] + k
        BY <3>1
      <3>3. Whole[j] = entries[e].items[k]
        BY <3>2, <1>7
      <3>4. entries[e].items[k] \in T
        BY <1>1, ElementOfSeq
      <3> QED  BY <3>3, <3>4
    <2> QED  BY <2>1
  <1> HIDE DEF T
  <1>11. ASSUME NEW i \in 1..n
         PROVE  /\ G[i] \in Seq(T) /\ Len(G[i]) = key_ends[i]
                /\ \A j \in 1..key_ends[i] : G[i][j] = Whole[j]
    <2>1. key_ends[i] \in Nat /\ \A j \in 1..key_ends[i] : j \in 1..LastEnd
      BY <1>1, <1>2
    <2>2. G[i] = [j \in 1..key_ends[i] |-> Whole[j]]
      OBVIOUS
    <2>3. G[i] \in [1..key_ends[i] -> T]
      BY <2>1, <2>2, <1>10
    <2> HIDE DEF G
    <2> QED  BY <2>1, <2>2, <2>3, IsSeq
  <1>12. G = [i \in 1..n |-> G[i]]
    OBVIOUS
  <1> HIDE DEF G
  <1>13. ASSUME NEW i \in 1..n PROVE G[i] = IF i = 1 THEN its[i] ELSE G[i - 1] \o its[i]
    <2>1. its[i] = entries[i].items /\ its[i] \in Seq(T) /\ Len(its[i]) \in Nat
          /\ key_ends[i] = key_starts[i] + Len(its[i]) /\ i \in Nat
      BY <1>1, <1>3
    <2>2. \A k \in 1..Len(its[i]) : /\ key_starts[i] + k <= key_ends[i]
                                    /\ Whole[key_starts[i] + k] = its[i][k]
      BY <2>1, <1>7
    <2>3. CASE i = 1
      <3>1. key_starts[i] = 0 /\ key_ends[i] = Len(its[i])
        BY <2>1, <2>3, <1>2
      <3>2. \A k \in 1..Len(its[i]) : G[i][k] = its[i][k]
        <4>1. ASSUME NEW k \in 1..Len(its[i]) PROVE G[i][k] = its[i][k]
          <5>1. key_starts[i] + k = k
            BY <3>1
          <5> QED  BY <5>1, <2>2, <3>1, <1>11
        <4> QED  BY <4>1
      <3>3. G[i] \in Seq(T) /\ Len(G[i]) = Len(its[i])
        BY <3>1, <1>11
      <3>4. G[i] = its[i]
        BY <2>1, <3>2, <3>3, SeqEqual
      <3> QED  BY <2>3, <3>4
    <2>4. CASE i # 1
      <3> DEFINE s == G[i - 1]
                 t == its[i]
                 a == key_ends[i - 1]
      <3>1. /\ i - 1 \in 1..n /\ key_starts[i] = a /\ a \in Nat
        <4>1. i - 1 \in 1..n
          BY <2>4, <1>1
        <4> QED  BY <4>1, <2>4, <1>2
      <3>2. /\ s \in Seq(T) /\ Len(s) = a /\ \A j \in 1..a : s[j] = Whole[j]
        BY <3>1, <1>11
      <3> HIDE DEF s, t, a
      <3>3. t \in Seq(T) /\ Len(t) \in Nat /\ key_ends[i] = a + Len(t)
            /\ \A k \in 1..Len(t) : Whole[a + k] = t[k]
        BY <2>1, <2>2, <3>1 DEF t
      <3>4. /\ s \o t \in Seq(T) /\ Len(s \o t) = a + Len(t)
            /\ \A j \in 1..a : (s \o t)[j] = s[j]
            /\ \A k \in 1..Len(t) : (s \o t)[a + k] = t[k]
        <4>1. ASSUME NEW x \in Seq(T), NEW y \in Seq(T)
              PROVE  /\ x \o y \in Seq(T) /\ Len(x \o y) = Len(x) + Len(y)
                     /\ \A j \in 1..Len(x) : (x \o y)[j] = x[j]
                     /\ \A j \in 1..Len(y) : (x \o y)[Len(x) + j] = y[j]
          BY Glue
        <4> QED  BY <4>1, <3>2, <3>3
      <3>5. \A j \in 1..(a + Len(t)) : G[i][j] = (s \o t)[j]
        <4>1. ASSUME NEW j \in 1..(a + Len(t)) PROVE G[i][j] = (s \o t)[j]
          <5>1. G[i][j] = Whole[j]
            BY <3>3, <1>11
          <5>2. CASE j <= a
            <6>1. j \in 1..a
              BY <5>2, <3>1, <3>3
            <6> QED  BY <5>1, <6>1, <3>2, <3>4
          <5>3. CASE ~ (j <= a)
            <6>1. j - a \in 1..Len(t) /\ a + (j - a) = j
              BY <5>3, <3>1, <3>3
            <6> QED  BY <5>1, <6>1, <3>3, <3>4
          <5> QED  BY <5>2, <5>3
        <4> QED  BY <4>1
      <3>6. G[i] \in Seq(T) /\ Len(G[i]) = a + Len(t)
        BY <3>3, <1>11
      <3>7. G[i] = s \o t
        BY <3>4, <3>5, <3>6, SeqEqual
      <3> QED  BY <2>4, <3>7 DEF s, t
    <2> QED  BY <2>3, <2>4
  <1>14. G = [i \in 1..n |-> IF i = 1 THEN its[i] ELSE G[i - 1] \o its[i]]
    BY <1>12, <1>13
  <1>15. F = [i \in 1..n |-> IF i = 1 THEN its[i] ELSE F[i - 1] \o its[i]]
    BY <1>4, <1>14 DEF F
  <1>16. \A i \in 1..n : F[i] = G[i]
    <2> DEFINE S == {m \in Nat : m + 1 <= n => F[m + 1] = G[m + 1]}
    <2>1. 0 \in S
      <3>1. ASSUME 0 + 1 <= n PROVE F[0 + 1] = G[0 + 1]
        <4>1. 1 \in 1..n
          BY <3>1, <1>1
        <4>2. F[1] = its[1] /\ G[1] = its[1]
          BY <4>1, <1>13, <1>15
        <4> QED  BY <4>2
      <3> QED  BY <3>1
    <2>2. ASSUME NEW m \in Nat, m \in S PROVE m + 1 \in S
      <3>1. ASSUME (m + 1) + 1 <= n PROVE F[(m + 1) + 1] = G[(m + 1) + 1]
        <4>1. /\ (m + 1) + 1 \in 1..n /\ (m + 1) + 1 # 1 /\ ((m + 1) + 1) - 1 = m + 1
              /\ m + 1 <= n
          BY <3>1, <1>1
        <4>2. F[(m + 1) + 1] = F[m + 1] \o its[(m + 1) + 1]
          BY <4>1, <1>15
        <4>3. G[(m + 1) + 1] = G[m + 1] \o its[(m + 1) + 1]
          BY <4>1, <1>13
        <4>4. F[m + 1] = G[m + 1]
          BY <4>1, <2>2
        <4> QED  BY <4>2, <4>3, <4>4
      <3> QED  BY <3>1
    <2>3. Nat \subseteq S
      <3> HIDE DEF S
      <3> QED  BY <2>1, <2>2, SetInduction
    <2>4. ASSUME NEW i \in 1..n PROVE F[i] = G[i]
      <3>1. i - 1 \in Nat /\ (i - 1) + 1 = i /\ i <= n
        BY <1>1
      <3>2. i - 1 \in S
        BY <3>1, <2>3
      <3> QED  BY <3>1, <3>2
    <2> QED  BY <2>4
  <1>17. CASE n = 0
    <2>1. Flat = its /\ Len(its) = 0 /\ LastEnd = 0
      BY <1>2, <1>4, <1>5, <1>6, <1>17
    <2> QED  BY <2>1, <1>1, <1>17
  <1>18. CASE n # 0
    <2>1. Flat = G[n] /\ n \in 1..n /\ LastEnd = key_ends[n]
      BY <1>1, <1>2, <1>4, <1>5, <1>6, <1>16, <1>18
    <2>2. Len(Flat) = LastEnd /\ \A j \in 1..LastEnd : Flat[j] = Whole[j]
      BY <2>1, <1>11
    <2> QED  BY <2>2, <1>1, <1>7
  <1> QED  BY <1>17, <1>18

\* `get` refuses no index that has an item, unless an empty chunk lies right
\* before it (array/mod.rs:148-162).
THEOREM RefusalsAreOutside == MCSpec => []RefusesOnlyOutside
PROOF
  <1>1. ASSUME IInv PROVE RefusesOnlyOutside
    <2>1. Len(Flat) = LastEnd
      BY <1>1, Parts, FlatIs
    <2> QED  BY <1>1, <2>1 DEF IInv, AnswerInv, RefusesOnlyOutside
  <1> QED  BY <1>1, Invariance, PTL

\* The iterators end where the items do, however they skip, and a walk stands
\* on the item of its position (sync_impl/slice.rs:97-134).
THEOREM IteratorsEndAtTheEnd == MCSpec => []IterEndsAtTheEnd
PROOF
  <1>1. ASSUME IInv PROVE IterEndsAtTheEnd
    <2>1. Len(Flat) = LastEnd /\ ArrayOK /\ Others /\ IterInv /\ AnswerInv
      BY <1>1, Parts, FlatIs
    <2>2. ASSUME iter.kind = "walk", iter.entry <= Len(key_ends)
          PROVE  /\ key_starts[iter.entry] + iter.inside = iter.pos
                 /\ iter.pos > 0 => iter.inside < Len(entries[iter.entry].items)
      <3> DEFINE e == iter.entry
      <3>1. /\ e \in 1..(Len(key_ends) + 1) /\ key_starts[e] + iter.inside = iter.pos
            /\ iter.pos > 0 => iter.pos < key_ends[e]
        BY <2>1, <2>2 DEF IterInv
      <3>2. e \in 1..Len(entries)
        <4>1. Len(key_ends) = Len(entries) /\ Len(entries) \in Nat
          BY <2>1, ArrayFacts
        <4> QED  BY <2>2, <3>1, <4>1
      <3>3. /\ key_starts[e] \in Nat /\ Len(entries[e].items) \in Nat
            /\ key_ends[e] = key_starts[e] + Len(entries[e].items)
        BY <2>1, <3>2, ArrayFacts
      <3>4. iter.inside \in Nat
        BY <2>1 DEF Others
      <3> HIDE DEF e
      <3>5. iter.pos > 0 => iter.inside < Len(entries[e].items)
        BY <3>1, <3>3, <3>4
      <3> QED  BY <3>1, <3>5 DEF e
    <2>3. answer.kind = "end" => answer.at >= Len(Flat)
      BY <2>1 DEF AnswerInv
    <2> QED  BY <2>2, <2>3 DEF IterEndsAtTheEnd
  <1> QED  BY <1>1, Invariance, PTL

\* size_hint never subtracts more than there is, before the end is told, and no
\* future is outside the entry bounds (async_impl/slice.rs:106-108).
THEOREM PositionsStayInside == MCSpec => []PositionStaysInside
PROOF
  <1>1. ASSUME IInv PROVE PositionStaysInside
    <2>1. Len(Flat) = LastEnd /\ IterInv /\ FuturesInv
      BY <1>1, Parts, FlatIs
    <2> QED  BY <2>1 DEF IterInv, FuturesInv, PositionStaysInside
  <1> QED  BY <1>1, Invariance, PTL

\* shrink_to_query keeps, of the loaded chunks, those that hold an item of the
\* query and no other (array/sync_impl/mod.rs:74-88).
THEOREM ShrinkingKeepsTheQuery == MCSpec => []ShrinkKeepsTheQuery
PROOF
  <1>1. ASSUME IInv, answer.kind = "shrunk"
        PROVE  LoadedChunks =
                 {e \in answer.was :
                    \E i \in answer.idxs :
                      i < Len(Flat) /\ Contains(entries[e].items, Flat[i + 1])}
    <2>1. /\ ArrayOK /\ answer.was \subseteq DOMAIN entries /\ answer.idxs \subseteq Nat
          /\ LoadedChunks = answer.was \cap Needed(answer.idxs)
      BY <1>1, Parts DEF AnswerInv
    <2>2. /\ Len(Flat) = LastEnd
          /\ \A e \in DOMAIN entries : \A k \in 1..Len(entries[e].items) :
               Flat[key_starts[e] + k] = entries[e].items[k]
      BY <2>1, FlatIs
    <2>3. /\ DOMAIN key_starts = DOMAIN entries /\ DOMAIN entries = 1..Len(key_ends)
          /\ Ranges(key_starts, key_ends)
          /\ \A e \in DOMAIN entries :
               /\ key_starts[e] \in Nat /\ key_ends[e] \in Nat
               /\ key_ends[e] = key_starts[e] + Len(entries[e].items)
               /\ Len(entries[e].items) \in Nat /\ key_ends[e] <= LastEnd
               /\ DOMAIN entries[e].items = 1..Len(entries[e].items)
      BY <2>1, ArrayFacts
    <2>4. ASSUME NEW e \in DOMAIN entries, NEW i \in Nat,
                 key_starts[e] <= i, i < key_ends[e]
          PROVE  \E k \in 1..Len(entries[e].items) :
                   key_starts[e] + k = i + 1 /\ Flat[i + 1] = entries[e].items[k]
      <3>1. /\ (i - key_starts[e]) + 1 \in 1..Len(entries[e].items)
            /\ key_starts[e] + ((i - key_starts[e]) + 1) = i + 1
        BY <2>3, <2>4
      <3> QED  BY <2>2, <3>1
    <2>5. ASSUME NEW e \in answer.was, e \in Needed(answer.idxs)
          PROVE  \E i \in answer.idxs :
                   i < Len(Flat) /\ Contains(entries[e].items, Flat[i + 1])
      <3>1. e \in DOMAIN entries
        BY <2>1
      <3>2. PICK i \in answer.idxs : key_starts[e] <= i /\ i < key_ends[e]
        BY <2>5 DEF Needed
      <3>3. i \in Nat /\ i < LastEnd
        <4>1. i \in Nat /\ LastEnd \in Nat /\ key_ends[e] \in Nat /\ key_ends[e] <= LastEnd
          BY <2>1, <2>3, <3>1, ArrayFacts
        <4> QED  BY <3>2, <4>1
      <3>4. Contains(entries[e].items, Flat[i + 1])
        BY <2>4, <3>1, <3>2, <3>3 DEF Contains
      <3> QED  BY <2>2, <3>3, <3>4
    <2>6. ASSUME NEW e \in answer.was, NEW i \in answer.idxs,
                 i < Len(Flat), Contains(entries[e].items, Flat[i + 1])
          PROVE  e \in Needed(answer.idxs)
      <3>1. e \in DOMAIN entries /\ i \in Nat /\ i < LastEnd
        BY <2>1, <2>2, <2>6
      <3>2. PICK k \in 1..Len(entries[e].items) : entries[e].items[k] = Flat[i + 1]
        BY <2>6 DEF Contains
      <3>3. PICK f \in DOMAIN entries : key_starts[f] <= i /\ i < key_ends[f]
        <4>1. \A j \in Nat : j < LastEnd =>
                \E x \in 1..Len(key_ends) : key_starts[x] <= j /\ j < key_ends[x]
          BY <2>3, RangesCover DEF LastEnd
        <4> QED  BY <2>3, <3>1, <4>1
      <3>4. PICK l \in 1..Len(entries[f].items) : Flat[i + 1] = entries[f].items[l]
        BY <2>4, <3>1, <3>3
      <3>5. e = f
        <4>1. k \in DOMAIN entries[e].items /\ l \in DOMAIN entries[f].items
          BY <2>3, <3>1
        <4> QED  BY <2>1, <3>1, <3>2, <3>4, <4>1, OnePlace
      <3> QED  BY <2>3, <3>1, <3>3, <3>5 DEF Needed
    <2> QED  BY <2>1, <2>5, <2>6
  <1>2. IInv => ShrinkKeepsTheQuery
    BY <1>1 DEF ShrinkKeepsTheQuery
  <1> QED  BY <1>2, Invariance, PTL

-----------------------------------------------------------------------------
(***************************************************************************)
(* A BackedArray is a FlatArray.                                           *)
(***************************************************************************)
Row == [i \in 1..LastEnd |-> ItemsAt(i - 1)]
Single == {{x} : x \in 1..MaxItems}

RowOK ==
  /\ Row \in Seq(Single) /\ Len(Row) = LastEnd
  /\ \A e \in 1..Len(entries) : \A k \in 1..Len(entries[e].items) :
       Row[key_starts[e] + k] = {entries[e].items[k]}
  /\ \A j \in 1..LastEnd :
       \E e \in 1..Len(entries) : \E k \in 1..Len(entries[e].items) : j = key_starts[e] + k

LEMMA RowFacts == ArrayOK => RowOK
PROOF
  <1> SUFFICES ASSUME ArrayOK PROVE RowOK
    OBVIOUS
  <1> DEFINE n == Len(entries)
  <1>1. /\ n \in Nat /\ DOMAIN entries = 1..n /\ Len(key_ends) = n /\ LastEnd \in Nat
        /\ DOMAIN key_starts = 1..n /\ Ranges(key_starts, key_ends)
        /\ \A e \in 1..n :
             /\ entries[e].items \in Seq(1..MaxItems) /\ Len(entries[e].items) \in Nat
             /\ key_starts[e] \in Nat /\ key_ends[e] \in Nat /\ key_ends[e] <= LastEnd
             /\ key_ends[e] = key_starts[e] + Len(entries[e].items)
    BY ArrayFacts
  <1>2. \A i \in Nat : \A x, y \in 1..n :
          key_starts[x] <= i /\ i < key_ends[x]
            /\ key_starts[y] <= i /\ i < key_ends[y] => x = y
    BY <1>1, RangesCover
  <1>3. \A i \in Nat : i < LastEnd =>
          \E e \in 1..n : key_starts[e] <= i /\ i < key_ends[e]
    BY <1>1, RangesCover DEF LastEnd
  <1>4. ASSUME NEW e \in 1..n, NEW k \in 1..Len(entries[e].items)
        PROVE  /\ key_starts[e] + k \in 1..LastEnd
               /\ Row[key_starts[e] + k] = {entries[e].items[k]}
    <2> DEFINE i == key_starts[e] + k - 1
               C == {c \in DOMAIN entries : /\ key_starts[c] <= i /\ i < key_ends[c]
                                            /\ i < key_starts[c] + Len(entries[c].items)}
    <2>1. /\ key_starts[e] \in Nat /\ key_ends[e] \in Nat /\ key_ends[e] <= LastEnd
          /\ key_ends[e] = key_starts[e] + Len(entries[e].items)
          /\ Len(entries[e].items) \in Nat /\ LastEnd \in Nat
      BY <1>1
    <2>2. k \in Nat /\ k >= 1 /\ k <= Len(entries[e].items)
      BY <2>1
    <2>3. /\ i \in Nat /\ key_starts[e] + k \in 1..LastEnd
          /\ i - key_starts[e] + 1 = k
          /\ key_starts[e] <= i /\ i < key_ends[e]
          /\ i < key_starts[e] + Len(entries[e].items)
          /\ (key_starts[e] + k) - 1 = i
      BY <2>1, <2>2
    <2> HIDE DEF i
    <2>4. C = {e}
      <3>1. e \in C
        BY <2>3, <1>1
      <3>2. ASSUME NEW c \in C PROVE c = e
        <4>1. c \in 1..n /\ key_starts[c] <= i /\ i < key_ends[c]
          BY <1>1
        <4> QED  BY <4>1, <2>3, <1>2
      <3> QED  BY <3>1, <3>2
    <2>5. ItemsAt(i) = {entries[c].items[i - key_starts[c] + 1] : c \in C}
      BY DEF ItemsAt
    <2> HIDE DEF C
    <2>6. ItemsAt(i) = {entries[e].items[k]}
      BY <2>3, <2>4, <2>5
    <2>7. Row[key_starts[e] + k] = ItemsAt(i)
      BY <2>3 DEF Row
    <2> QED  BY <2>3, <2>6, <2>7
  <1>5. ASSUME NEW j \in 1..LastEnd
        PROVE  \E e \in 1..n : \E k \in 1..Len(entries[e].items) : j = key_starts[e] + k
    <2>1. j - 1 \in Nat /\ j - 1 < LastEnd
      BY <1>1
    <2>2. PICK e \in 1..n : key_starts[e] <= j - 1 /\ j - 1 < key_ends[e]
      BY <2>1, <1>3
    <2>3. /\ j - key_starts[e] \in 1..Len(entries[e].items)
          /\ j = key_starts[e] + (j - key_starts[e])
      BY <2>1, <2>2, <1>1
    <2> QED  BY <2>3
  <1>6. Row \in Seq(Single) /\ Len(Row) = LastEnd
    <2>1. ASSUME NEW j \in 1..LastEnd PROVE Row[j] \in Single
      <3>1. PICK e \in 1..n : \E k \in 1..Len(entries[e].items) : j = key_starts[e] + k
        BY <1>5
      <3>2. PICK k \in 1..Len(entries[e].items) : j = key_starts[e] + k
        BY <3>1
      <3>3. Row[j] = {entries[e].items[k]}
        BY <3>2, <1>4
      <3>4. entries[e].items[k] \in 1..MaxItems
        BY <1>1, ElementOfSeq
      <3> QED  BY <3>3, <3>4 DEF Single
    <2>2. Row = [j \in 1..LastEnd |-> Row[j]]
      BY DEF Row
    <2>3. Row \in [1..LastEnd -> Single]
      BY <2>1, <2>2
    <2> QED  BY <2>3, <1>1, IsSeq
  <1> QED  BY <1>4, <1>5, <1>6 DEF RowOK

\* A sequence begins with one that it goes on from.
LEMMA GoesOn ==
  ASSUME NEW S, NEW s \in Seq(S), NEW t \in Seq(S), Len(s) <= Len(t),
         \A j \in 1..Len(s) : t[j] = s[j]
  PROVE  SubSeq(t, 1, Len(s)) = s
PROOF
  <1>1. Len(s) \in Nat /\ Len(t) \in Nat
    BY LenProperties
  <1>2. SubSeq(t, 1, Len(s)) = [j \in 1..Len(s) |-> t[j]]
    BY <1>1, SubSeqProperties
  <1>3. s = [j \in 1..Len(s) |-> s[j]]
    BY LenProperties
  <1> QED  BY <1>2, <1>3

\* A sequence from which a run was cut is what was before it and behind it.
LeavesOut(s, t, i, j) ==
  /\ i <= j /\ j <= Len(s) /\ Len(t) = Len(s) - (j - i)
  /\ \A x \in 1..i : t[x] = s[x]
  /\ \A x \in 1..Len(t) : x > i => t[x] = s[x + (j - i)]

LEMMA RunCut ==
  ASSUME NEW S, NEW s \in Seq(S), NEW t \in Seq(S), NEW i \in Nat, NEW j \in Nat,
         LeavesOut(s, t, i, j)
  PROVE  t = SubSeq(s, 1, i) \o SubSeq(s, j + 1, Len(s))
PROOF
  <1> DEFINE a == SubSeq(s, 1, i)
             b == SubSeq(s, j + 1, Len(s))
             n == Len(s)
  <1>1. /\ n \in Nat /\ Len(t) \in Nat
        /\ i <= j /\ j <= n /\ Len(t) = n - (j - i)
        /\ \A x \in 1..i : t[x] = s[x]
        /\ \A x \in 1..Len(t) : x > i => t[x] = s[x + (j - i)]
    BY LenProperties DEF LeavesOut
  <1>2. a \in Seq(S) /\ Len(a) = i /\ \A x \in 1..i : a[x] = s[x]
    <2>1. \A x \in 1..i : x \in 1..n
      BY <1>1
    <2> QED  BY <2>1, <1>1, SubSeqProperties
  <1>3. b \in Seq(S) /\ Len(b) = n - j /\ \A x \in 1..(n - j) : b[x] = s[j + x]
    <2>1. \A x \in (j + 1)..n : x \in 1..n
      BY <1>1
    <2> QED  BY <2>1, <1>1, SubSeqProperties
  <1> HIDE DEF a, b, n
  <1>4. /\ a \o b \in Seq(S) /\ Len(a \o b) = Len(a) + Len(b)
        /\ \A x \in 1..Len(a) : (a \o b)[x] = a[x]
        /\ \A x \in 1..Len(b) : (a \o b)[Len(a) + x] = b[x]
    <2>1. ASSUME NEW x \in Seq(S), NEW y \in Seq(S)
          PROVE  /\ x \o y \in Seq(S) /\ Len(x \o y) = Len(x) + Len(y)
                 /\ \A k \in 1..Len(x) : (x \o y)[k] = x[k]
                 /\ \A k \in 1..Len(y) : (x \o y)[Len(x) + k] = y[k]
      BY Glue
    <2> QED  BY <2>1, <1>2, <1>3
  <1>5. Len(t) = i + (n - j) /\ Len(a \o b) = Len(t)
    BY <1>1, <1>2, <1>3, <1>4 DEF n
  <1>6. ASSUME NEW x \in 1..Len(t) PROVE t[x] = (a \o b)[x]
    <2>1. CASE x <= i
      <3>1. x \in 1..i
        BY <2>1
      <3> QED  BY <3>1, <1>1, <1>2, <1>4
    <2>2. CASE ~ (x <= i)
      <3>1. /\ x - i \in 1..(n - j) /\ i + (x - i) = x
            /\ j + (x - i) = x + (j - i) /\ x > i
        BY <2>2, <1>1, <1>5
      <3>2. (a \o b)[i + (x - i)] = b[x - i]
        BY <3>1, <1>2, <1>3, <1>4
      <3>3. b[x - i] = s[j + (x - i)]
        BY <3>1, <1>3
      <3>4. t[x] = s[x + (j - i)]
        BY <3>1, <1>1
      <3> QED  BY <3>1, <3>2, <3>3, <3>4
    <2> QED  BY <2>1, <2>2
  <1>7. t = a \o b
    BY <1>4, <1>5, <1>6, SeqEqual
  <1> QED  BY <1>7 DEF a, b, n

\* Chunks that are appended or merged make the array longer.
LEMMA GrowsOn ==
  ASSUME ArrayOK, ArrayOK', Grown, answer' = NoAnswer
  PROVE  Abstract!Grow
PROOF
  <1> DEFINE s == Row
             t == Row'
  <1>1. RowOK
    BY RowFacts
  <1>2. ArrayOK' => RowOK'
    BY RowFacts, PTL
  <1>3. /\ s \in Seq(Single) /\ Len(s) = LastEnd /\ LastEnd \in Nat /\ MaxItems \in Nat
        /\ \A j \in 1..LastEnd : \E e \in 1..Len(entries) : \E k \in 1..Len(entries[e].items) :
             j = key_starts[e] + k /\ s[j] = {entries[e].items[k]}
    <2>1. LastEnd \in Nat /\ MaxItems \in Nat
      BY ArrayFacts
    <2>2. ASSUME NEW j \in 1..LastEnd
          PROVE  \E e \in 1..Len(entries) : \E k \in 1..Len(entries[e].items) :
                   j = key_starts[e] + k /\ Row[j] = {entries[e].items[k]}
      <3>1. PICK e \in 1..Len(entries) : \E k \in 1..Len(entries[e].items) :
              j = key_starts[e] + k
        BY <1>1 DEF RowOK
      <3>2. PICK k \in 1..Len(entries[e].items) : j = key_starts[e] + k
        BY <3>1
      <3>3. Row[key_starts[e] + k] = {entries[e].items[k]}
        BY <1>1 DEF RowOK
      <3> QED  BY <3>2, <3>3
    <2> QED  BY <1>1, <2>1, <2>2 DEF RowOK
  <1>4. /\ t \in Seq(Single) /\ Len(t) = LastEnd'
        /\ \A e \in 1..Len(entries') : \A k \in 1..Len(entries'[e].items) :
             t[key_starts'[e] + k] = {entries'[e].items[k]}
    BY <1>2 DEF RowOK, Single
  <1> HIDE DEF s, t
  <1>5. LastEnd' \in LastEnd..(LastEnd + MaxItems)
    BY DEF Grown
  <1>6. ASSUME NEW j \in 1..Len(s) PROVE t[j] = s[j]
    <2>1. PICK e \in 1..Len(entries) : \E k \in 1..Len(entries[e].items) :
             j = key_starts[e] + k /\ s[j] = {entries[e].items[k]}
      BY <1>3
    <2>2. PICK k \in 1..Len(entries[e].items) :
             j = key_starts[e] + k /\ s[j] = {entries[e].items[k]}
      BY <2>1
    <2>3. /\ e \in 1..Len(entries') /\ entries'[e] = entries[e]
          /\ key_starts'[e] = key_starts[e]
      <3>1. Len(entries) \in Nat /\ Len(entries') \in Nat /\ Len(entries) <= Len(entries')
        BY ArrayFacts, LenProperties DEF Grown, ArrayOK
      <3> QED  BY <3>1 DEF Grown
    <2> QED  BY <2>2, <2>3, <1>4
  <1>7. Len(t) \in Len(s)..(Len(s) + MaxItems) /\ Len(s) <= Len(t)
    BY <1>3, <1>4, <1>5
  <1>8. SubSeq(t, 1, Len(s)) = s
    BY <1>3, <1>4, <1>6, <1>7, GoesOn
  <1>9. \A i \in (Len(s) + 1)..Len(t) : t[i] \in Single
    <2>1. \A i \in (Len(s) + 1)..Len(t) : i \in 1..Len(t)
      BY <1>3, <1>7
    <2> QED  BY <2>1, <1>4, ElementOfSeq
  <1>10. AsRead' = NoAnswer
    BY DEF AsRead, NoAnswer
  <1> QED  BY <1>7, <1>8, <1>9, <1>10 DEF s, t, Row, Single, Abstract!Grow

\* A chunk that is removed is a run that is cut out.
LEMMA CutsOut ==
  ASSUME ArrayOK, ArrayOK', NEW e \in 1..Len(entries), CutOut(e), answer' = NoAnswer
  PROVE  Abstract!Cut
PROOF
  <1> DEFINE s == Row
             t == Row'
             n == Len(entries)
             a == key_starts[e]
             b == key_ends[e]
  <1>1. RowOK
    BY RowFacts
  <1>2. ArrayOK' => RowOK'
    BY RowFacts, PTL
  <1>3. /\ s \in Seq(Single) /\ Len(s) = LastEnd
        /\ \A c \in 1..n : \A k \in 1..Len(entries[c].items) :
             s[key_starts[c] + k] = {entries[c].items[k]}
    BY <1>1 DEF RowOK
  <1>4. /\ t \in Seq(Single) /\ Len(t) = LastEnd'
        /\ \A j \in 1..LastEnd' : \E c \in 1..Len(entries') : \E k \in 1..Len(entries'[c].items) :
             j = key_starts'[c] + k /\ t[j] = {entries'[c].items[k]}
    <2>1. /\ Row' \in Seq(Single) /\ Len(Row') = LastEnd'
          /\ \A c \in 1..Len(entries') : \A k \in 1..Len(entries'[c].items) :
               Row'[key_starts'[c] + k] = {entries'[c].items[k]}
          /\ \A j \in 1..LastEnd' :
               \E c \in 1..Len(entries') : \E k \in 1..Len(entries'[c].items) :
                 j = key_starts'[c] + k
      BY <1>2 DEF RowOK, Single
    <2>2. ASSUME NEW j \in 1..LastEnd'
          PROVE  \E c \in 1..Len(entries') : \E k \in 1..Len(entries'[c].items) :
                   j = key_starts'[c] + k /\ Row'[j] = {entries'[c].items[k]}
      <3>1. PICK c \in 1..Len(entries') : \E k \in 1..Len(entries'[c].items) :
              j = key_starts'[c] + k
        BY <2>1
      <3>2. PICK k \in 1..Len(entries'[c].items) : j = key_starts'[c] + k
        BY <3>1
      <3>3. Row'[key_starts'[c] + k] = {entries'[c].items[k]}
        BY <2>1
      <3> QED  BY <3>2, <3>3
    <2> QED  BY <2>1, <2>2
  <1> HIDE DEF s, t
  <1>5. /\ n \in Nat /\ LastEnd \in Nat /\ a \in Nat /\ b \in Nat /\ a <= b /\ b <= LastEnd
        /\ \A c \in 1..n : /\ key_starts[c] \in Nat /\ key_ends[c] \in Nat
                           /\ Len(entries[c].items) \in Nat
                           /\ key_ends[c] = key_starts[c] + Len(entries[c].items)
    <2>1. /\ n \in Nat /\ LastEnd \in Nat
          /\ \A c \in 1..n : /\ key_starts[c] \in Nat /\ key_ends[c] \in Nat
                             /\ Len(entries[c].items) \in Nat
                             /\ key_ends[c] = key_starts[c] + Len(entries[c].items)
                             /\ key_ends[c] <= LastEnd
      BY ArrayFacts
    <2>2. a \in Nat /\ b \in Nat /\ a <= b /\ b <= LastEnd
      <3>1. /\ a \in Nat /\ b \in Nat /\ Len(entries[e].items) \in Nat
            /\ b = a + Len(entries[e].items) /\ b <= LastEnd
        BY <2>1
      <3> HIDE DEF a, b
      <3> QED  BY <3>1
    <2> QED  BY <2>1, <2>2
  <1>6. \A c, d \in 1..n : c < d => key_ends[c] <= key_starts[d]
    <2>1. Len(key_ends) = n
      BY ArrayFacts
    <2> QED  BY <2>1, RangeFacts
  <1>7. /\ Len(entries') = n - 1 /\ LastEnd' = LastEnd - (b - a)
        /\ \A i \in 1..(n - 1) :
             IF i < e THEN entries'[i] = entries[i] /\ key_starts'[i] = key_starts[i]
                      ELSE /\ entries'[i] = entries[i + 1]
                           /\ key_starts'[i] = key_starts[i + 1] - (b - a)
    BY DEF CutOut
  <1> HIDE DEF n, a, b
  <1>8. ASSUME NEW j \in 1..LastEnd'
        PROVE  IF j <= a THEN t[j] = s[j] ELSE t[j] = s[j + (b - a)]
    <2>1. PICK c \in 1..(n - 1) : \E k \in 1..Len(entries'[c].items) :
            j = key_starts'[c] + k /\ t[j] = {entries'[c].items[k]}
      BY <1>4, <1>7
    <2>2. PICK k \in 1..Len(entries'[c].items) :
            j = key_starts'[c] + k /\ t[j] = {entries'[c].items[k]}
      BY <2>1
    <2>3. c \in 1..n /\ c + 1 \in 1..n /\ e \in Nat /\ e \in 1..n
      BY <1>5 DEF n
    <2>4. CASE c < e
      <3>1. /\ entries'[c] = entries[c] /\ key_starts'[c] = key_starts[c]
            /\ key_ends[c] <= a
        BY <2>3, <2>4, <1>6, <1>7 DEF a
      <3>2. s[j] = t[j]
        BY <2>2, <2>3, <3>1, <1>3
      <3>3. /\ key_starts[c] \in Nat /\ Len(entries[c].items) \in Nat
            /\ key_ends[c] = key_starts[c] + Len(entries[c].items)
        BY <2>3, <1>5
      <3>4. j = key_starts[c] + k /\ k \in Nat /\ k <= Len(entries[c].items)
        BY <2>2, <3>1, <3>3
      <3>5. j <= a
        BY <3>1, <3>3, <3>4, <1>5
      <3> QED  BY <3>2, <3>5
    <2>5. CASE ~ (c < e)
      <3>1. /\ entries'[c] = entries[c + 1] /\ key_starts'[c] = key_starts[c + 1] - (b - a)
            /\ b <= key_starts[c + 1]
        <4>1. e < c + 1
          BY <2>3, <2>5
        <4> QED  BY <4>1, <2>3, <2>5, <1>6, <1>7 DEF b
      <3>2. /\ key_starts[c + 1] \in Nat /\ Len(entries[c + 1].items) \in Nat
        BY <2>3, <1>5
      <3>3. j = (key_starts[c + 1] - (b - a)) + k /\ k \in 1..Len(entries[c + 1].items)
            /\ t[j] = {entries[c + 1].items[k]}
        BY <2>2, <3>1
      <3>4. s[key_starts[c + 1] + k] = {entries[c + 1].items[k]}
        BY <2>3, <3>3, <1>3
      <3>5. j + (b - a) = key_starts[c + 1] + k /\ ~ (j <= a)
        <4>1. k \in Nat /\ k >= 1
          BY <3>2, <3>3
        <4> QED  BY <4>1, <3>1, <3>2, <3>3, <1>5
      <3> QED  BY <3>3, <3>4, <3>5
    <2> QED  BY <2>4, <2>5
  <1>9. t = SubSeq(s, 1, a) \o SubSeq(s, b + 1, Len(s))
    <2>1. Len(t) = Len(s) - (b - a) /\ b <= Len(s) /\ LastEnd' \in Nat
      BY <1>3, <1>4, <1>5, <1>7
    <2>2. \A x \in 1..a : x \in 1..LastEnd' /\ x <= a
      BY <2>1, <1>5, <1>7
    <2>3. \A x \in 1..a : t[x] = s[x]
      BY <2>2, <1>8
    <2>4. \A x \in 1..Len(t) : x > a => x \in 1..LastEnd' /\ ~ (x <= a)
      BY <2>1, <1>4, <1>5
    <2>5. ASSUME NEW x \in 1..Len(t), x > a PROVE t[x] = s[x + (b - a)]
      <3>1. x \in 1..LastEnd' /\ ~ (x <= a)
        BY <2>4, <2>5
      <3> QED  BY <3>1, <1>8
    <2>6. LeavesOut(s, t, a, b)
      BY <2>1, <2>3, <2>5, <1>5 DEF LeavesOut
    <2> QED  BY <2>6, <1>3, <1>4, <1>5, RunCut
  <1>10. a \in 0..Len(s) /\ b \in a..Len(s)
    BY <1>3, <1>5
  <1>11. AsRead' = NoAnswer
    BY DEF AsRead, NoAnswer
  <1>12. \E i \in 0..Len(s) : \E j \in i..Len(s) :
           t = SubSeq(s, 1, i) \o SubSeq(s, j + 1, Len(s))
    BY <1>9, <1>10
  <1> QED  BY <1>11, <1>12 DEF s, t, Row, Abstract!Cut

\* Loading, unloading and walking do not show, and what is read is there.
LEMMA TellsTrue ==
  ASSUME ArrayOK, Tells
  PROVE  Abstract!Read \/ Abstract!Refuse
PROOF
  <1> DEFINE s == Row
  <1>1. RowOK
    BY RowFacts
  <1>2. /\ Len(s) = LastEnd /\ LastEnd \in Nat
        /\ \A e \in 1..Len(entries) : \A k \in 1..Len(entries[e].items) :
             s[key_starts[e] + k] = {entries[e].items[k]}
    BY <1>1, ArrayFacts DEF RowOK
  <1>3. UNCHANGED <<key_starts, key_ends>> /\ LastEnd' = LastEnd
        /\ DOMAIN entries' = DOMAIN entries
        /\ \A e \in DOMAIN entries : entries'[e].items = entries[e].items
    BY ArrayFacts, SameItemsKeep DEF Tells, SameItems, keys
  <1>4. ASSUME NEW i PROVE ItemsAt(i)' = ItemsAt(i)
    <2> DEFINE C == {c \in DOMAIN entries : /\ key_starts[c] <= i /\ i < key_ends[c]
                                            /\ i < key_starts[c] + Len(entries[c].items)}
    <2>1. C' = C
      BY <1>3
    <2>2. ItemsAt(i) = {entries[e].items[i - key_starts[e] + 1] : e \in C}
      BY DEF ItemsAt
    <2>3. ItemsAt(i)' = {entries'[e].items[i - key_starts'[e] + 1] : e \in C'}
      BY DEF ItemsAt
    <2>4. \A e \in C : e \in DOMAIN entries
      OBVIOUS
    <2> HIDE DEF C
    <2> QED  BY <2>1, <2>2, <2>3, <2>4, <1>3
  <1>5. Row' = Row
    BY <1>3, <1>4 DEF Row
  <1>6. CASE answer'.kind = "item"
    <2>1. PICK e \in 1..Len(entries) : \E k \in 1..Len(entries[e].items) :
            answer'.at = (key_starts[e] + k) - 1 /\ answer'.item = entries[e].items[k]
      BY <1>6 DEF Tells
    <2>2. PICK k \in 1..Len(entries[e].items) :
            answer'.at = (key_starts[e] + k) - 1 /\ answer'.item = entries[e].items[k]
      BY <2>1
    <2>3. /\ key_starts[e] + k \in 1..LastEnd
          /\ s[key_starts[e] + k] = {entries[e].items[k]}
      <3>1. /\ key_starts[e] \in Nat /\ key_ends[e] \in Nat /\ key_ends[e] <= LastEnd
            /\ key_ends[e] = key_starts[e] + Len(entries[e].items)
            /\ Len(entries[e].items) \in Nat
        BY ArrayFacts
      <3>2. k \in Nat /\ k >= 1 /\ k <= Len(entries[e].items)
        BY <3>1
      <3> QED  BY <3>1, <3>2, <1>2
    <2>4. AsRead' = [at |-> (key_starts[e] + k) - 1, item |-> s[key_starts[e] + k]]
      <3>1. {answer'.item} = s[key_starts[e] + k]
        BY <2>2, <2>3
      <3>2. AsRead' = [at |-> answer'.at, item |-> {answer'.item}]
        BY <1>6 DEF AsRead
      <3> HIDE DEF s
      <3> QED  BY <3>1, <3>2, <2>2
    <2>5. \E i \in 1..Len(s) : AsRead' = [at |-> i - 1, item |-> s[i]]
      BY <2>3, <2>4, <1>2
    <2> QED  BY <2>5, <1>5 DEF Row, Abstract!Read
  <1>7. CASE answer'.kind # "item"
    <2>1. AsRead' = NoAnswer
      BY <1>7 DEF AsRead
    <2> QED  BY <2>1, <1>5 DEF Row, Abstract!Refuse
  <1> QED  BY <1>6, <1>7

\* At the beginning both are empty.
LEMMA BeginsEmpty ==
  ASSUME Init
  PROVE  Abstract!Init
PROOF
  <1>1. LastEnd = 0 /\ AsRead = NoAnswer /\ MaxItems \in Nat
    BY BoundsAssumption DEF Init, LastEnd, Width, AsRead, NoAnswer
  <1>2. Row \in [1..0 -> Single]
    BY <1>1 DEF Row
  <1>3. Row \in UNION {[1..n -> Single] : n \in 0..MaxItems}
    BY <1>1, <1>2
  <1> QED  BY <1>1, <1>3 DEF Row, Single, Abstract!Init

\* A step of the array is a step of the flat one.
LEMMA StepShows ==
  ASSUME IInv, Next
  PROVE  Abstract!Next
PROOF
  <1>1. IInv' /\ Shows /\ ArrayOK
    BY NextStep, Parts
  <1>2. ArrayOK'
    BY <1>1, Parts
  <1>3. CASE Grown /\ answer' = NoAnswer
    BY <1>1, <1>2, <1>3, GrowsOn DEF Abstract!Next
  <1>4. CASE (\E e \in 1..Len(entries) : CutOut(e)) /\ answer' = NoAnswer
    BY <1>1, <1>2, <1>4, CutsOut DEF Abstract!Next
  <1>5. CASE Tells
    BY <1>1, <1>5, TellsTrue DEF Abstract!Next
  <1> QED  BY <1>1, <1>3, <1>4, <1>5 DEF Shows

\* Seen through its ranges the array is one sequence: it grows at its end, loses
\* whole runs, and every item read, by a get, an iterator or a future awaited
\* late, is the one at that position (array/mod.rs, sync_impl, async_impl).
THEOREM ArrayImplementsFlat == MCSpec => ImplementsFlatArray
PROOF
  <1>1. MCInit => Abstract!Init
    BY BeginsEmpty DEF MCInit
  <1>2. IInv /\ [MCNext]_MCVars => [Abstract!Next]_(Abstract!vars)
    <2>1. ASSUME IInv, Next PROVE Abstract!Next
      BY <2>1, StepShows
    <2>2. ASSUME UNCHANGED vars PROVE UNCHANGED Abstract!vars
      <3>1. UNCHANGED <<key_starts, key_ends, entries, answer>>
        BY <2>2 DEF vars, keys
      <3> QED  BY <3>1 DEF Abstract!vars, LastEnd, Width, ItemsAt, AsRead
    <2> QED  BY <2>1, <2>2 DEF MCNext, MCVars
  <1> QED  BY <1>1, <1>2, Invariance, PTL DEF MCSpec, ImplementsFlatArray, Abstract!Spec

-----------------------------------------------------------------------------
(***************************************************************************)
(* Recurrences.                                                            *)
(***************************************************************************)
Unrolls(g, m, b, h) == g[0] = b /\ \A n \in 1..m : g[n] = h[n][g[n - 1]]

\* What a recurrence describes is there.
LEMMA RecurrenceExists ==
  ASSUME NEW V, NEW m \in Nat, NEW b \in V, NEW h \in [1..m -> [V -> V]]
  PROVE  \E g \in [0..m -> V] : Unrolls(g, m, b, h)
PROOF
  <1> DEFINE Upto(i) == \E g \in [0..i -> V] : g[0] = b /\ \A n \in 1..i : g[n] = h[n][g[n - 1]]
             S == {i \in Nat : i <= m => Upto(i)}
  <1>1. 0 \in S
    <2> DEFINE g == [n \in 0..0 |-> b]
    <2>1. g \in [0..0 -> V] /\ g[0] = b /\ \A n \in 1..0 : g[n] = h[n][g[n - 1]]
      OBVIOUS
    <2> QED  BY <2>1
  <1>2. ASSUME NEW i \in Nat, i \in S PROVE i + 1 \in S
    <2>1. ASSUME i + 1 <= m PROVE Upto(i + 1)
      <3>1. PICK g \in [0..i -> V] : g[0] = b /\ \A n \in 1..i : g[n] = h[n][g[n - 1]]
        BY <1>2, <2>1
      <3>2. h[i + 1] \in [V -> V] /\ g[i] \in V
        BY <2>1
      <3> DEFINE f == [n \in 0..(i + 1) |-> IF n <= i THEN g[n] ELSE h[i + 1][g[i]]]
      <3>3. f \in [0..(i + 1) -> V]
        BY <3>1, <3>2
      <3>4. f[0] = b
        BY <3>1
      <3>5. ASSUME NEW n \in 1..(i + 1) PROVE f[n] = h[n][f[n - 1]]
        <4>1. n - 1 \in 0..i /\ f[n - 1] = g[n - 1]
          OBVIOUS
        <4>2. CASE n <= i
          <5>1. n \in 1..i /\ f[n] = g[n]
            BY <4>2
          <5> QED  BY <4>1, <5>1, <3>1
        <4>3. CASE ~ (n <= i)
          <5>1. n = i + 1 /\ n - 1 = i
            BY <4>3
          <5>2. f[n] = h[i + 1][g[i]]
            BY <4>3
          <5> QED  BY <4>1, <5>1, <5>2
        <4> QED  BY <4>2, <4>3
      <3> HIDE DEF f
      <3> QED  BY <3>3, <3>4, <3>5
    <2> QED  BY <2>1
  <1>3. Nat \subseteq S
    <2> HIDE DEF S
    <2> QED  BY <1>1, <1>2, SetInduction
  <1>4. Upto(m)
    BY <1>3
  <1> QED  BY <1>4 DEF Unrolls

\* And it keeps what its start has and its steps keep.
LEMMA RecurrenceKeeps ==
  ASSUME NEW m \in Nat, NEW g, NEW Good,
         g[0] \in Good,
         \A n \in 1..m : g[n - 1] \in Good => g[n] \in Good
  PROVE  \A n \in 0..m : g[n] \in Good
PROOF
  <1> DEFINE S == {i \in Nat : i <= m => g[i] \in Good}
  <1>1. 0 \in S
    OBVIOUS
  <1>2. ASSUME NEW i \in Nat, i \in S PROVE i + 1 \in S
    <2>1. ASSUME i + 1 <= m PROVE g[i + 1] \in Good
      <3>1. i + 1 \in 1..m /\ (i + 1) - 1 = i /\ g[i] \in Good
        BY <1>2, <2>1
      <3> QED  BY <3>1
    <2> QED  BY <2>1
  <1>3. Nat \subseteq S
    <2> HIDE DEF S
    <2> QED  BY <1>1, <1>2, SetInduction
  <1> QED  BY <1>3

-----------------------------------------------------------------------------
(***************************************************************************)
(* The building of an array.                                               *)
(***************************************************************************)
\* The ranges of the entries that were collected follow each other.
Follows ==
  /\ starts \in Seq(Nat) /\ ends \in Seq(Nat)
  /\ Len(starts) = Len(collected) /\ Len(ends) = Len(collected)
  /\ \A i \in 1..Len(collected) :
       starts[i] = (IF i = 1 THEN 0 ELSE ends[i - 1]) /\ ends[i] = starts[i] + lens[i]

\* The writes in flight go on from what was collected, up to what was pulled.
GoesOnFrom ==
  /\ Len(queue) + Len(collected) = pulled
  /\ \A k \in 1..Len(queue) : queue[k].of = Len(collected) + k

BuildTypes ==
  /\ lens \in Seq(Nat) /\ concurrent \in BOOLEAN /\ pulled \in 0..Len(lens)
  /\ queue \in Seq([of : Nat, answer : {"none", "ok", "error"}])
  /\ collected \in Seq(Nat)

\* What was collected is the front of the iterator.
InOrder == \A i \in 1..Len(collected) : collected[i] = i

BuildInv ==
  /\ BuildTypes
  /\ InOrder
  /\ ~concurrent => queue = <<>> /\ Follows
  /\ outcome = "running" => GoesOnFrom
  /\ BuildsInOrder

LEMMA BuildLens ==
  ASSUME BuildTypes
  PROVE  /\ Len(lens) \in Nat /\ Len(queue) \in Nat /\ Len(collected) \in Nat
         /\ pulled \in Nat /\ pulled <= Len(lens)
         /\ \A i \in 1..Len(lens) : lens[i] \in Nat
PROOF
  BY LenProperties, ElementOfSeq DEF BuildTypes

LEMMA Appended ==
  ASSUME NEW T, NEW s \in Seq(T), NEW x \in T
  PROVE  /\ Append(s, x) \in Seq(T) /\ Len(Append(s, x)) = Len(s) + 1
         /\ \A i \in 1..(Len(s) + 1) : Append(s, x)[i] = IF i <= Len(s) THEN s[i] ELSE x
PROOF
  BY AppendProperties, LenProperties

LEMMA BuildBegins == Build!Init => BuildInv
PROOF
  <1> SUFFICES ASSUME Build!Init PROVE BuildInv
    OBVIOUS
  <1>1. /\ lens \in Build!SeqOf(0..MaxWidth, MaxContainers) /\ concurrent \in BOOLEAN
        /\ pulled = 0 /\ queue = <<>> /\ collected = <<>> /\ starts = <<>> /\ ends = <<>>
        /\ outcome = "running"
    BY DEF Build!Init
  <1>2. lens \in Seq(Nat)
    <2>1. PICK n \in 0..MaxContainers : lens \in [1..n -> 0..MaxWidth]
      BY <1>1 DEF Build!SeqOf
    <2>2. n \in Nat /\ lens \in [1..n -> Nat]
      BY <2>1, SizesAssumption
    <2> QED  BY <2>2, IsSeq
  <1>3. \A T : <<>> \in Seq(T)
    OBVIOUS
  <1>4. Len(lens) \in Nat /\ Len(<<>>) = 0
    BY <1>2, LenProperties
  <1>5. BuildTypes
    BY <1>1, <1>2, <1>3, <1>4 DEF BuildTypes
  <1>6. InOrder /\ Follows /\ GoesOnFrom
    BY <1>1, <1>3, <1>4 DEF InOrder, Follows, GoesOnFrom
  <1>7. BuildsInOrder
    BY <1>1 DEF BuildsInOrder, Build!BuildsInOrder
  <1> QED  BY <1>1, <1>5, <1>6, <1>7 DEF BuildInv

\* One more container, written in place.
LEMMA WriteNextKeeps == BuildInv /\ Build!WriteNext => BuildInv'
PROOF
  <1> SUFFICES ASSUME BuildInv, Build!WriteNext PROVE BuildInv'
    OBVIOUS
  <1> DEFINE c == Len(collected)
             last == IF ends = <<>> THEN 0 ELSE Build!Last(ends)
  <1>1. /\ outcome = "running" /\ ~concurrent /\ pulled < Len(lens) /\ pulled' = pulled + 1
        /\ UNCHANGED <<lens, concurrent, queue>>
    BY DEF Build!WriteNext, Build!Running
  <1>2. \/ /\ collected' = Append(collected, pulled')
           /\ starts' = Append(starts, last)
           /\ ends' = Append(ends, last + lens[pulled'])
           /\ UNCHANGED outcome
        \/ outcome' = "error" /\ UNCHANGED <<collected, starts, ends>>
    BY DEF Build!WriteNext, Build!KeysEnd
  <1>3. BuildTypes /\ InOrder /\ queue = <<>> /\ Follows /\ GoesOnFrom /\ BuildsInOrder
    BY <1>1 DEF BuildInv
  <1>4. /\ Len(lens) \in Nat /\ c \in Nat /\ pulled \in Nat /\ c = pulled
        /\ \A i \in 1..Len(lens) : lens[i] \in Nat
    <2>1. Len(queue) = 0
      BY <1>3
    <2> QED  BY <1>3, <2>1, BuildLens DEF GoesOnFrom
  <1>5. /\ starts \in Seq(Nat) /\ ends \in Seq(Nat) /\ Len(starts) = c /\ Len(ends) = c
        /\ \A i \in 1..c : starts[i] = (IF i = 1 THEN 0 ELSE ends[i - 1])
                           /\ ends[i] = starts[i] + lens[i]
    BY <1>3 DEF Follows
  <1>6. last \in Nat /\ last = IF c = 0 THEN 0 ELSE ends[c]
    BY <1>4, <1>5, ElementOfSeq DEF Build!Last
  <1> HIDE DEF c, last
  <1>7. CASE outcome' = "error" /\ UNCHANGED <<collected, starts, ends>>
    <2>1. BuildTypes' /\ InOrder' /\ Follows' /\ queue' = <<>> /\ BuildsInOrder'
      <3>1. BuildTypes'
        BY <1>1, <1>3, <1>4, <1>7 DEF BuildTypes
      <3>2. InOrder' /\ Follows' /\ queue' = <<>>
        BY <1>1, <1>3, <1>7 DEF InOrder, Follows
      <3>3. BuildsInOrder'
        BY <1>7 DEF BuildsInOrder, Build!BuildsInOrder
      <3> QED  BY <3>1, <3>2, <3>3
    <2> QED  BY <2>1, <1>7 DEF BuildInv
  <1>8. CASE /\ collected' = Append(collected, pulled')
             /\ starts' = Append(starts, last)
             /\ ends' = Append(ends, last + lens[pulled'])
             /\ UNCHANGED outcome
    <2>1. pulled' \in 1..Len(lens) /\ lens[pulled'] \in Nat /\ pulled' = c + 1 /\ pulled' \in Nat
      BY <1>1, <1>4
    <2>2. /\ collected' \in Seq(Nat) /\ Len(collected') = c + 1
          /\ \A i \in 1..(c + 1) : collected'[i] = i
      <3>1. collected \in Seq(Nat) /\ Len(collected) = c /\ \A i \in 1..c : collected[i] = i
        BY <1>3 DEF BuildTypes, InOrder, c
      <3>2. /\ collected' \in Seq(Nat) /\ Len(collected') = c + 1
            /\ \A i \in 1..(c + 1) : collected'[i] = IF i <= c THEN collected[i] ELSE pulled'
        BY <3>1, <2>1, <1>8, Appended
      <3> QED  BY <3>1, <3>2, <2>1, <1>4
    <2>3. /\ starts' \in Seq(Nat) /\ Len(starts') = c + 1
          /\ \A i \in 1..(c + 1) : starts'[i] = IF i <= c THEN starts[i] ELSE last
      BY <1>4, <1>5, <1>6, <1>8, AppendProperties
    <2>4. /\ ends' \in Seq(Nat) /\ Len(ends') = c + 1
          /\ \A i \in 1..(c + 1) : ends'[i] = IF i <= c THEN ends[i] ELSE last + lens[c + 1]
      <3>1. last + lens[pulled'] \in Nat
        BY <1>6, <2>1
      <3> QED  BY <3>1, <1>4, <1>5, <1>8, <2>1, AppendProperties
    <2>5. ASSUME NEW i \in 1..(c + 1)
          PROVE  starts'[i] = (IF i = 1 THEN 0 ELSE ends'[i - 1])
                 /\ ends'[i] = starts'[i] + lens[i]
      <3>1. CASE i <= c
        <4>1. i \in 1..c /\ (i # 1 => i - 1 \in 1..(c + 1) /\ i - 1 <= c)
          BY <3>1, <1>4
        <4> QED  BY <3>1, <4>1, <1>5, <2>3, <2>4
      <3>2. CASE ~ (i <= c)
        <4>1. i = c + 1 /\ i - 1 = c /\ (i # 1 => c \in 1..(c + 1) /\ c # 0)
              /\ (i = 1 => c = 0)
          BY <3>2, <1>4
        <4> QED  BY <3>2, <4>1, <1>4, <1>6, <2>3, <2>4
      <3> QED  BY <3>1, <3>2
    <2>6. BuildTypes'
      BY <1>1, <1>3, <2>1, <2>2 DEF BuildTypes
    <2>7. InOrder'
      BY <2>2 DEF InOrder
    <2>8. Follows'
      BY <1>1, <2>2, <2>3, <2>4, <2>5 DEF Follows
    <2>9. queue' = <<>> /\ GoesOnFrom'
      BY <1>1, <1>3, <1>4, <2>1, <2>2 DEF GoesOnFrom
    <2>10. BuildsInOrder'
      BY <1>1, <1>8 DEF BuildsInOrder, Build!BuildsInOrder
    <2> QED  BY <1>8, <2>6, <2>7, <2>8, <2>9, <2>10 DEF BuildInv
  <1> QED  BY <1>2, <1>7, <1>8

\* The last of them is written.
LEMMA BuiltKeeps == BuildInv /\ Build!Built => BuildInv'
PROOF
  <1> SUFFICES ASSUME BuildInv, Build!Built PROVE BuildInv'
    OBVIOUS
  <1>1. /\ outcome = "running" /\ ~concurrent /\ pulled = Len(lens) /\ outcome' = "built"
        /\ UNCHANGED <<lens, concurrent, pulled, queue, collected, starts, ends>>
    BY DEF Build!Built, Build!Running
  <1>2. BuildTypes /\ InOrder /\ queue = <<>> /\ Follows /\ GoesOnFrom
    BY <1>1 DEF BuildInv
  <1>3. Len(collected) = Len(lens) /\ Len(lens) \in Nat
    BY <1>1, <1>2, BuildLens DEF GoesOnFrom
  <1>4. DOMAIN lens = 1..Len(lens) /\ collected = [i \in 1..Len(lens) |-> i]
    <2>1. lens \in Seq(Nat) /\ collected \in Seq(Nat)
      BY <1>2 DEF BuildTypes
    <2>2. DOMAIN lens = 1..Len(lens) /\ DOMAIN collected = 1..Len(lens)
          /\ collected = [i \in DOMAIN collected |-> collected[i]]
      BY <2>1, <1>3, LenProperties
    <2> QED  BY <2>2, <1>2, <1>3 DEF InOrder
  <1>5. Build!BuildsInOrder
    BY <1>2, <1>3, <1>4 DEF Build!BuildsInOrder, Follows
  <1>6. BuildsInOrder'
    BY <1>1, <1>5, <1>2, <1>3, <1>4 DEF BuildsInOrder, Build!BuildsInOrder, Follows
  <1>7. BuildTypes' /\ InOrder' /\ Follows' /\ queue' = <<>>
    BY <1>1, <1>2 DEF BuildTypes, InOrder, Follows
  <1> QED  BY <1>1, <1>6, <1>7 DEF BuildInv

\* One more write is begun.
LEMMA PullKeeps == BuildInv /\ Build!Pull => BuildInv'
PROOF
  <1> SUFFICES ASSUME BuildInv, Build!Pull PROVE BuildInv'
    OBVIOUS
  <1> DEFINE q == Len(queue)
             one == [of |-> pulled', answer |-> "none"]
  <1>1. /\ outcome = "running" /\ concurrent /\ pulled < Len(lens) /\ pulled' = pulled + 1
        /\ queue' = Append(queue, one)
        /\ UNCHANGED <<lens, concurrent, collected, starts, ends, outcome>>
    BY DEF Build!Pull, Build!Running
  <1>2. BuildTypes /\ InOrder /\ GoesOnFrom
    BY <1>1 DEF BuildInv
  <1>3. q \in Nat /\ pulled \in Nat /\ Len(lens) \in Nat /\ Len(collected) \in Nat
    BY <1>2, BuildLens
  <1>4. one \in [of : Nat, answer : {"none", "ok", "error"}]
    BY <1>1, <1>3
  <1>5. /\ queue' \in Seq([of : Nat, answer : {"none", "ok", "error"}])
        /\ Len(queue') = q + 1
        /\ \A k \in 1..(q + 1) : queue'[k] = IF k <= q THEN queue[k] ELSE one
    <2>1. queue \in Seq([of : Nat, answer : {"none", "ok", "error"}])
      BY <1>2 DEF BuildTypes
    <2> HIDE DEF one
    <2> QED  BY <2>1, <1>1, <1>3, <1>4, AppendProperties
  <1>6. BuildTypes' /\ InOrder'
    BY <1>1, <1>2, <1>3, <1>5 DEF BuildTypes, InOrder
  <1>7. GoesOnFrom'
    <2>1. Len(queue') + Len(collected') = pulled'
      <3>1. q + Len(collected) = pulled
        BY <1>2 DEF GoesOnFrom
      <3>2. Len(queue') = q + 1 /\ collected' = collected /\ pulled' = pulled + 1
        BY <1>1, <1>5
      <3> HIDE DEF q
      <3> QED  BY <3>1, <3>2, <1>3
    <2>2. ASSUME NEW k \in 1..(q + 1) PROVE queue'[k].of = Len(collected) + k
      <3>1. CASE k <= q
        BY <3>1, <1>2, <1>3, <1>5 DEF GoesOnFrom
      <3>2. CASE ~ (k <= q)
        <4>1. k = q + 1 /\ queue'[k] = one
          BY <3>2, <1>3, <1>5
        <4>2. pulled' = Len(collected) + k
          BY <4>1, <1>1, <1>2, <1>3 DEF GoesOnFrom
        <4> QED  BY <4>1, <4>2
      <3> QED  BY <3>1, <3>2
    <2> QED  BY <2>1, <2>2, <1>1, <1>5 DEF GoesOnFrom
  <1>8. BuildsInOrder'
    BY <1>1 DEF BuildsInOrder, Build!BuildsInOrder
  <1> QED  BY <1>1, <1>6, <1>7, <1>8 DEF BuildInv

\* One of them ends.
LEMMA WriteEndsKeeps ==
  ASSUME NEW k \in Nat
  PROVE  BuildInv /\ Build!WriteEnds(k) => BuildInv'
PROOF
  <1> SUFFICES ASSUME BuildInv, Build!WriteEnds(k) PROVE BuildInv'
    OBVIOUS
  <1>1. PICK a \in {"ok", "error"} : queue' = [queue EXCEPT ![k].answer = a]
    BY DEF Build!WriteEnds
  <1>2. /\ outcome = "running" /\ k \in DOMAIN queue
        /\ UNCHANGED <<lens, concurrent, pulled, collected, starts, ends, outcome>>
    BY DEF Build!WriteEnds, Build!Running
  <1>3. BuildTypes /\ InOrder /\ GoesOnFrom
    BY <1>2 DEF BuildInv
  <1>4. concurrent
    BY <1>2 DEF BuildInv
  <1>5. /\ queue \in Seq([of : Nat, answer : {"none", "ok", "error"}])
        /\ Len(queue) \in Nat /\ DOMAIN queue = 1..Len(queue)
    BY <1>3, LenProperties DEF BuildTypes
  <1>6. /\ queue' \in [1..Len(queue) -> [of : Nat, answer : {"none", "ok", "error"}]]
        /\ \A j \in 1..Len(queue) : queue'[j].of = queue[j].of
    <2> DEFINE Write == [of : Nat, answer : {"none", "ok", "error"}]
               w == [queue[k] EXCEPT !.answer = a]
    <2>1. queue \in [1..Len(queue) -> Write] /\ queue[k] \in Write
      <3>1. queue \in Seq(Write) /\ k \in 1..Len(queue)
        BY <1>2, <1>5
      <3> HIDE DEF Write
      <3> QED  BY <3>1, LenProperties
    <2>2. w \in Write /\ w.of = queue[k].of
      BY <2>1
    <2>3. queue' = [queue EXCEPT ![k] = w]
      BY <1>1
    <2> HIDE DEF Write, w
    <2>4. /\ queue' \in [1..Len(queue) -> Write]
          /\ \A j \in 1..Len(queue) : queue'[j] = IF j = k THEN w ELSE queue[j]
      BY <2>1, <2>2, <2>3
    <2>5. \A j \in 1..Len(queue) : queue'[j].of = queue[j].of
      BY <2>2, <2>4
    <2> QED  BY <2>4, <2>5 DEF Write
  <1>7. /\ queue' \in Seq([of : Nat, answer : {"none", "ok", "error"}])
        /\ Len(queue') = Len(queue)
    BY <1>5, <1>6, IsSeq
  <1>8. BuildTypes' /\ InOrder' /\ GoesOnFrom'
    BY <1>2, <1>3, <1>6, <1>7 DEF BuildTypes, InOrder, GoesOnFrom
  <1>9. BuildsInOrder'
    BY <1>2 DEF BuildsInOrder, Build!BuildsInOrder
  <1> QED  BY <1>2, <1>4, <1>8, <1>9 DEF BuildInv

\* The first of them is collected, or its error ends it all.
LEMMA CollectKeeps == BuildInv /\ Build!Collect => BuildInv'
PROOF
  <1> SUFFICES ASSUME BuildInv, Build!Collect PROVE BuildInv'
    OBVIOUS
  <1> DEFINE c == Len(collected)
             q == Len(queue)
             Write == [of : Nat, answer : {"none", "ok", "error"}]
  <1>1. /\ outcome = "running" /\ queue # <<>>
        /\ UNCHANGED <<lens, concurrent, pulled, starts, ends>>
        /\ \/ /\ collected' = Append(collected, queue[1].of)
              /\ queue' = Build!RemoveAt(queue, 1)
              /\ UNCHANGED outcome
           \/ outcome' = "error" /\ queue' = <<>> /\ UNCHANGED collected
    BY DEF Build!Collect, Build!Collected, Build!Running
  <1>2. BuildTypes /\ InOrder /\ GoesOnFrom /\ concurrent
    BY <1>1 DEF BuildInv
  <1>3. c \in Nat /\ q \in Nat /\ pulled \in Nat /\ Len(lens) \in Nat
    BY <1>2, BuildLens
  <1>4. queue \in Seq(Write) /\ collected \in Seq(Nat)
    BY <1>2 DEF BuildTypes
  <1>5. 1 \in 1..q
    BY <1>1, <1>3, <1>4, EmptySeq
  <1>6. CASE outcome' = "error" /\ queue' = <<>> /\ UNCHANGED collected
    <2>1. BuildTypes' /\ InOrder' /\ BuildsInOrder'
      BY <1>1, <1>2, <1>6 DEF BuildTypes, InOrder, BuildsInOrder, Build!BuildsInOrder
    <2> QED  BY <1>1, <1>2, <1>6, <2>1 DEF BuildInv
  <1>7. CASE /\ collected' = Append(collected, queue[1].of)
             /\ queue' = Build!RemoveAt(queue, 1)
             /\ UNCHANGED outcome
    <2>1. Build!RemoveAt(queue, 1) = RemoveAt(queue, 1)
      BY DEF Build!RemoveAt, RemoveAt
    <2>2. /\ queue' \in Seq(Write) /\ Len(queue') = q - 1
          /\ \A i \in 1..(q - 1) : queue'[i] = queue[i + 1]
      <3> HIDE DEF Write
      <3>1. /\ RemoveAt(queue, 1) \in Seq(Write)
            /\ Len(RemoveAt(queue, 1)) = q - 1
            /\ \A i \in 1..(q - 1) :
                 RemoveAt(queue, 1)[i] = IF i < 1 THEN queue[i] ELSE queue[i + 1]
        BY <1>4, <1>5, RemoveAtSkips
      <3> QED  BY <3>1, <1>7, <2>1
    <2>3. queue[1].of = c + 1
      BY <1>2, <1>5 DEF GoesOnFrom
    <2>4. /\ collected' \in Seq(Nat) /\ Len(collected') = c + 1
          /\ \A i \in 1..(c + 1) : collected'[i] = i
      <3>1. c + 1 \in Nat /\ \A i \in 1..c : collected[i] = i
        BY <1>2, <1>3 DEF InOrder
      <3>2. /\ collected' \in Seq(Nat) /\ Len(collected') = c + 1
            /\ \A i \in 1..(c + 1) : collected'[i] = IF i <= c THEN collected[i] ELSE c + 1
        BY <3>1, <2>3, <1>4, <1>7, Appended
      <3> QED  BY <3>1, <3>2, <1>3
    <2>5. BuildTypes' /\ InOrder'
      BY <1>1, <1>2, <2>2, <2>4 DEF BuildTypes, InOrder
    <2>6. GoesOnFrom'
      <3>1. Len(queue') + Len(collected') = pulled'
        <4>1. q + c = pulled
          BY <1>2 DEF GoesOnFrom
        <4>2. Len(queue') = q - 1 /\ Len(collected') = c + 1 /\ pulled' = pulled
          BY <1>1, <2>2, <2>4
        <4> HIDE DEF q, c
        <4> QED  BY <4>1, <4>2, <1>3
      <3>2. ASSUME NEW k \in 1..(q - 1) PROVE queue'[k].of = (c + 1) + k
        <4>1. k + 1 \in 1..q /\ queue'[k] = queue[k + 1]
          BY <1>3, <2>2
        <4> QED  BY <4>1, <1>2, <1>3 DEF GoesOnFrom
      <3> QED  BY <3>1, <3>2, <2>2, <2>4 DEF GoesOnFrom
    <2>7. BuildsInOrder'
      BY <1>1, <1>7 DEF BuildsInOrder, Build!BuildsInOrder
    <2> QED  BY <1>1, <1>2, <1>7, <2>5, <2>6, <2>7 DEF BuildInv
  <1> QED  BY <1>1, <1>6, <1>7

\* All of them are: the keys are the sums of the lengths.
LEMMA ABuiltKeeps == BuildInv /\ Build!ABuilt => BuildInv'
PROOF
  <1> SUFFICES ASSUME BuildInv, Build!ABuilt PROVE BuildInv'
    OBVIOUS
  <1> DEFINE c == Len(collected)
             Sums(f) == f = [k \in 0..c |-> IF k = 0 THEN 0 ELSE f[k - 1] + lens[collected[k]]]
             upTo == CHOOSE f : Sums(f)
  <1>1. /\ outcome = "running" /\ concurrent /\ pulled = Len(lens) /\ queue = <<>>
        /\ outcome' = "built"
        /\ UNCHANGED <<lens, concurrent, pulled, queue, collected>>
    BY DEF Build!ABuilt, Build!Running
  <1>2. /\ starts' = [k \in DOMAIN collected |-> upTo[k - 1]]
        /\ ends' = [k \in DOMAIN collected |-> upTo[k]]
    BY Zenon DEF Build!ABuilt
  <1>3. BuildTypes /\ InOrder /\ GoesOnFrom
    BY <1>1 DEF BuildInv
  <1>4. c \in Nat /\ c = Len(lens) /\ \A i \in 1..c : lens[i] \in Nat
    <2>1. Len(queue) = 0
      BY <1>1
    <2> QED  BY <1>1, <1>3, <2>1, BuildLens DEF GoesOnFrom
  <1>5. /\ DOMAIN collected = 1..c /\ DOMAIN lens = 1..c
        /\ \A i \in 1..c : collected[i] = i
        /\ collected = [i \in 1..c |-> i]
    <2>1. lens \in Seq(Nat) /\ collected \in Seq(Nat)
      BY <1>3 DEF BuildTypes
    <2>2. DOMAIN lens = 1..c /\ DOMAIN collected = 1..c
          /\ collected = [i \in DOMAIN collected |-> collected[i]]
      BY <2>1, <1>4, LenProperties
    <2> QED  BY <2>2, <1>3 DEF InOrder
  <1> HIDE DEF c
  <1>6. \E f \in [0..c -> Nat] : Sums(f)
    <2> DEFINE h == [n \in 1..c |-> [x \in Nat |-> x + lens[n]]]
    <2>1. h \in [1..c -> [Nat -> Nat]]
      BY <1>4
    <2>2. PICK f \in [0..c -> Nat] : Unrolls(f, c, 0, h)
      <3> HIDE DEF h
      <3>1. 0 \in Nat
        OBVIOUS
      <3>2. c \in Nat
        BY <1>4
      <3> QED  BY <2>1, <3>1, <3>2, RecurrenceExists, Zenon
    <2>3. ASSUME NEW k \in 0..c
          PROVE  f[k] = IF k = 0 THEN 0 ELSE f[k - 1] + lens[collected[k]]
      <3>1. CASE k = 0
        BY <3>1, <2>2 DEF Unrolls
      <3>2. CASE k # 0
        <4>1. k \in 1..c /\ k - 1 \in 0..c /\ collected[k] = k
          BY <3>2, <1>4, <1>5
        <4>2. f[k - 1] \in Nat
          BY <4>1, <2>2
        <4> QED  BY <3>2, <4>1, <4>2, <2>2 DEF Unrolls
      <3> QED  BY <3>1, <3>2
    <2>4. f = [k \in 0..c |-> f[k]]
      OBVIOUS
    <2> QED  BY <2>3, <2>4
  <1>7. Sums(upTo)
    BY <1>6, Zenon
  <1> HIDE DEF upTo
  <1>8. /\ upTo[0] = 0
        /\ \A k \in 1..c : upTo[k] = upTo[k - 1] + lens[k]
    <2>1. \A k \in 0..c : upTo[k] = IF k = 0 THEN 0 ELSE upTo[k - 1] + lens[collected[k]]
      BY <1>7
    <2>2. 0 \in 0..c
      BY <1>4
    <2>3. ASSUME NEW k \in 1..c PROVE upTo[k] = upTo[k - 1] + lens[k]
      <3>1. k \in 0..c /\ k # 0 /\ collected[k] = k
        BY <1>4, <1>5
      <3> QED  BY <3>1, <2>1
    <2> QED  BY <2>1, <2>2, <2>3
  <1>9. /\ Len(starts') = c /\ Len(ends') = c
        /\ \A i \in 1..c : starts'[i] = (IF i = 1 THEN 0 ELSE ends'[i - 1])
                           /\ ends'[i] = starts'[i] + lens[i]
    <2>1. Len(starts') = c /\ Len(ends') = c
      BY <1>2, <1>4, <1>5
    <2>2. ASSUME NEW i \in 1..c
          PROVE  starts'[i] = (IF i = 1 THEN 0 ELSE ends'[i - 1])
                 /\ ends'[i] = starts'[i] + lens[i]
      <3>1. starts'[i] = upTo[i - 1] /\ ends'[i] = upTo[i]
        BY <1>2, <1>5
      <3>2. CASE i = 1
        BY <3>1, <3>2, <1>8
      <3>3. CASE i # 1
        <4>1. i - 1 \in 1..c
          BY <3>3, <1>4
        <4>2. ends'[i - 1] = upTo[i - 1]
          BY <4>1, <1>2, <1>5
        <4> QED  BY <3>1, <3>3, <4>2, <1>8
      <3> QED  BY <3>2, <3>3
    <2> QED  BY <2>1, <2>2
  <1>10. BuildsInOrder'
    BY <1>1, <1>4, <1>5, <1>9 DEF BuildsInOrder, Build!BuildsInOrder
  <1>11. BuildTypes' /\ InOrder'
    BY <1>1, <1>3 DEF BuildTypes, InOrder
  <1> QED  BY <1>1, <1>10, <1>11 DEF BuildInv

LEMMA CancelKeeps == BuildInv /\ Build!Cancel => BuildInv'
PROOF
  <1> SUFFICES ASSUME BuildInv, Build!Cancel PROVE BuildInv'
    OBVIOUS
  <1>1. /\ concurrent /\ outcome' = "cancelled" /\ queue' = <<>>
        /\ UNCHANGED <<lens, concurrent, pulled, collected>>
    BY DEF Build!Cancel
  <1>2. BuildTypes /\ InOrder
    BY DEF BuildInv
  <1>3. BuildTypes' /\ InOrder' /\ BuildsInOrder'
    BY <1>1, <1>2 DEF BuildTypes, InOrder, BuildsInOrder, Build!BuildsInOrder
  <1> QED  BY <1>1, <1>3 DEF BuildInv

LEMMA BuildStep == BuildInv /\ [MCNext]_MCVars => BuildInv'
PROOF
  <1> SUFFICES ASSUME BuildInv, [MCNext]_MCVars PROVE BuildInv'
    OBVIOUS
  <1>1. Build!Next \/ UNCHANGED build
    BY DEF MCNext, MCVars
  <1>2. CASE UNCHANGED build
    BY <1>2 DEF build, BuildInv, BuildTypes, InOrder, Follows, GoesOnFrom, BuildsInOrder,
                Build!BuildsInOrder
  <1>3. CASE Build!Next
    <2>1. ASSUME NEW k \in 1..MaxContainers, Build!WriteEnds(k) PROVE BuildInv'
      <3>1. k \in Nat
        BY SizesAssumption
      <3> QED  BY <2>1, <3>1, WriteEndsKeeps
    <2> QED  BY <1>3, <2>1, WriteNextKeeps, BuiltKeeps, PullKeeps, CollectKeeps, ABuiltKeeps,
                CancelKeeps DEF Build!Next, Build!Progress
  <1> QED  BY <1>1, <1>2, <1>3

\* An array that is built holds the containers of the iterator in its order,
\* and its keys give each the place of its items, whichever write of
\* `a_from_containers` ended first (src/src/array/async_impl/mod.rs).
THEOREM BuildsStayInOrder == MCSpec => []BuildsInOrder
PROOF
  <1>1. MCInit => BuildInv
    BY BuildBegins DEF MCInit
  <1>2. BuildInv => BuildsInOrder
    BY DEF BuildInv
  <1> QED  BY <1>1, <1>2, BuildStep, PTL DEF MCSpec

-----------------------------------------------------------------------------
(***************************************************************************)
(* The vectors of a SecretBackedArray.                                     *)
(***************************************************************************)
LEMMA FrontOfSeq ==
  ASSUME NEW T, NEW s \in Seq(T), NEW n \in 0..Len(s)
  PROVE  /\ SubSeq(s, 1, n) \in Seq(T) /\ Len(SubSeq(s, 1, n)) = n
         /\ \A i \in 1..n : SubSeq(s, 1, n)[i] = s[i]
PROOF
  <1>1. Len(s) \in Nat /\ \A i \in 1..n : s[i] \in T
    BY LenProperties, ElementOfSeq
  <1>2. /\ SubSeq(s, 1, n) \in Seq(T) /\ Len(SubSeq(s, 1, n)) = (IF 1 <= n THEN n - 1 + 1 ELSE 0)
        /\ \A i \in 1..(n - 1 + 1) : SubSeq(s, 1, n)[i] = s[1 + i - 1]
    BY <1>1, SubSeqProperties
  <1> QED  BY <1>1, <1>2

\* Sequences of one length with the same elements are one.
LEMMA SameSeq ==
  ASSUME NEW T, NEW s \in Seq(T), NEW t \in Seq(T), Len(s) = Len(t),
         \A i \in 1..Len(s) : s[i] = t[i]
  PROVE  s = t
PROOF
  <1>1. /\ DOMAIN s = 1..Len(s) /\ DOMAIN t = 1..Len(s)
        /\ s = [i \in DOMAIN s |-> s[i]] /\ t = [i \in DOMAIN t |-> t[i]]
    BY LenProperties
  <1> QED  BY <1>1

\* A copy over a vector of another length panics, and is the slice otherwise.
LEMMA CopyOver ==
  ASSUME NEW T, NEW n \in Nat, NEW source \in Seq(T)
  PROVE  LET s == Secret!CopyFromSlice(Secret!Vec(Secret!Random(n)), 1, source)
         IN  \/ Len(source) = n /\ s = Secret!Vec(source)
             \/ Len(source) # n /\ s = [ok |-> FALSE, vec |-> Secret!Random(n)]
PROOF
  <1> DEFINE r == Secret!Random(n)
             v == Secret!Vec(r)
             s == Secret!CopyFromSlice(v, 1, source)
  <1>1. Len(source) \in Nat /\ r = [i \in 1..n |-> Secret!Unset] /\ Len(r) = n
    BY LenProperties DEF Secret!Random
  <1>2. v = [ok |-> TRUE, vec |-> r]
    BY DEF Secret!Vec
  <1>3. s = IF Len(source) = n
              THEN Secret!Vec(SubSeq(r, 1, 0) \o source) ELSE [v EXCEPT !.ok = FALSE]
    <2>1. s = IF v.ok /\ Len(v.vec) - 1 + 1 = Len(source)
                THEN Secret!Vec(SubSeq(v.vec, 1, 0) \o source) ELSE [v EXCEPT !.ok = FALSE]
      BY DEF Secret!CopyFromSlice
    <2>2. v.ok = TRUE /\ v.vec = r
      BY <1>2
    <2> HIDE DEF s, v, r
    <2>3. (Len(r) - 1 + 1 = Len(source)) = (Len(source) = n)
      BY <1>1
    <2> QED  BY <2>1, <2>2, <2>3
  <1>4. SubSeq(r, 1, 0) \o source = source
    <2>1. SubSeq(r, 1, 0) = <<>>
      <3>1. r \in Seq({Secret!Unset})
        BY <1>1, IsSeq
      <3>2. 0 \in 0..Len(r)
        BY <1>1
      <3> HIDE DEF r
      <3>3. SubSeq(r, 1, 0) \in Seq({Secret!Unset}) /\ Len(SubSeq(r, 1, 0)) = 0
        BY <3>1, <3>2, FrontOfSeq
      <3> QED  BY <3>3, EmptySeq
    <2> QED  BY <2>1, ConcatEmptySeq
  <1>5. [v EXCEPT !.ok = FALSE] = [ok |-> FALSE, vec |-> r]
    <2> DEFINE w == [ok |-> TRUE, vec |-> r]
               x == [w EXCEPT !.ok = FALSE]
               y == [ok |-> FALSE, vec |-> r]
    <2> HIDE DEF r
    <2>1. w \in [ok : BOOLEAN, vec : {r}]
      OBVIOUS
    <2>2. x \in [ok : BOOLEAN, vec : {r}] /\ x.ok = FALSE /\ x.vec = r
      <3> HIDE DEF w
      <3> QED  BY <2>1
    <2>3. y \in [ok : BOOLEAN, vec : {r}] /\ y.ok = FALSE /\ y.vec = r
      OBVIOUS
    <2> HIDE DEF x, y
    <2>4. x = y
      BY <2>2, <2>3
    <2> QED  BY <1>2, <2>4 DEF x, y, w
  <1> HIDE DEF v, s, r
  <1> QED  BY <1>3, <1>4, <1>5 DEF v, s, r

LEMMA FromIterIs ==
  ASSUME NEW T, NEW items \in Seq(T)
  PROVE  Secret!FromIter(items) = Secret!Vec(items) /\ Secret!FromIter(items).vec = items
PROOF
  <1>1. Len(items) \in Nat
    BY LenProperties
  <1>2. Secret!FromIter(items) = Secret!Vec(items)
    BY <1>1, CopyOver DEF Secret!FromIter
  <1> QED  BY <1>2 DEF Secret!Vec

\* Two slices only fit when the first fills the vector and the second is empty.
LEMMA BothFit ==
  ASSUME NEW T, NEW n \in Nat, NEW left \in Seq(T), NEW right \in Seq(T), NEW at \in Nat,
         at = Len(left) + 1
  PROVE  LET s == Secret!CopyBoth(n, left, at, right)
         IN  s.ok => n = Len(left) /\ Len(right) = 0 /\ s.vec = left
PROOF
  <1> DEFINE f == Secret!CopyFromSlice(Secret!Vec(Secret!Random(n)), 1, left)
             s == Secret!CopyFromSlice(f, at, right)
  <1>1. Secret!CopyBoth(n, left, at, right) = s
    BY DEF Secret!CopyBoth
  <1>2. Len(left) \in Nat /\ Len(right) \in Nat
    BY LenProperties
  <1>3. \/ Len(left) = n /\ f = [ok |-> TRUE, vec |-> left]
        \/ Len(left) # n /\ f = [ok |-> FALSE, vec |-> Secret!Random(n)]
    <2>1. \/ Len(left) = n /\ f = Secret!Vec(left)
          \/ Len(left) # n /\ f = [ok |-> FALSE, vec |-> Secret!Random(n)]
      BY CopyOver
    <2> QED  BY <2>1 DEF Secret!Vec
  <1>4. s = IF f.ok /\ Len(f.vec) - at + 1 = Len(right)
              THEN Secret!Vec(SubSeq(f.vec, 1, at - 1) \o right) ELSE [f EXCEPT !.ok = FALSE]
    BY DEF Secret!CopyFromSlice
  <1> HIDE DEF f
  <1>5. CASE f.ok /\ Len(f.vec) - at + 1 = Len(right)
    <2>1. f.vec = left /\ n = Len(left)
      BY <1>3, <1>5
    <2>2. Len(right) = 0 /\ at - 1 = Len(left)
      BY <1>2, <1>5, <2>1
    <2>3. right = <<>> /\ SubSeq(left, 1, Len(left)) = left
      <3>1. Len(left) \in 0..Len(left)
        BY <1>2
      <3>2. /\ SubSeq(left, 1, Len(left)) \in Seq(T)
            /\ Len(SubSeq(left, 1, Len(left))) = Len(left)
            /\ \A i \in 1..Len(left) : SubSeq(left, 1, Len(left))[i] = left[i]
        BY <3>1, FrontOfSeq
      <3> QED  BY <3>2, <2>2, SameSeq, EmptySeq
    <2>4. s = Secret!Vec(left)
      BY <1>4, <1>5, <2>1, <2>2, <2>3, ConcatEmptySeq
    <2> QED  BY <1>1, <2>1, <2>2, <2>4 DEF Secret!Vec
  <1>6. CASE ~ (f.ok /\ Len(f.vec) - at + 1 = Len(right))
    <2>1. s = [f EXCEPT !.ok = FALSE]
      BY <1>4, <1>6
    <2>2. ~ s.ok
      <3>1. \E o, w : f = [ok |-> o, vec |-> w]
        BY <1>3
      <3> HIDE DEF s
      <3> QED  BY <2>1, <3>1
    <2> QED  BY <1>1, <2>2
  <1> QED  BY <1>5, <1>6

\* One more item is put into a vector that doubles when it is full.
LEMMA PutKeeps ==
  ASSUME NEW T, NEW vec \in Seq(T), NEW n \in Nat, NEW x \in T, Secret!Unset \in T,
         Len(vec) >= 1, n >= 1, Len(vec) >= n - 1
  PROVE  LET put == [IF n > Len(vec) THEN Secret!Grown(vec) ELSE vec EXCEPT ![n] = x]
         IN  /\ put \in Seq(T) /\ Len(put) >= n /\ Len(put) >= 1 /\ put[n] = x
             /\ \A i \in 1..(n - 1) : put[i] = vec[i]
PROOF
  <1> DEFINE room == IF n > Len(vec) THEN Secret!Grown(vec) ELSE vec
             put == [room EXCEPT ![n] = x]
  <1>1. Len(vec) \in Nat
    BY LenProperties
  <1>2. room \in Seq(T) /\ Len(room) >= n /\ \A i \in 1..(n - 1) : room[i] = vec[i]
    <2>1. CASE n > Len(vec)
      <3> DEFINE r == Secret!Random(Len(vec))
      <3>1. r \in Seq(T) /\ Len(r) = Len(vec)
        BY <1>1, IsSeq DEF Secret!Random
      <3> HIDE DEF r
      <3>2. /\ vec \o r \in Seq(T) /\ Len(vec \o r) = Len(vec) + Len(r)
            /\ \A i \in 1..Len(vec) : (vec \o r)[i] = vec[i]
        <4>1. ASSUME NEW s \in Seq(T), NEW t \in Seq(T)
              PROVE  /\ s \o t \in Seq(T) /\ Len(s \o t) = Len(s) + Len(t)
                     /\ \A i \in 1..Len(s) : (s \o t)[i] = s[i]
          BY Glue
        <4> QED  BY <3>1, <4>1, Zenon
      <3>3. room = vec \o r
        BY <2>1 DEF Secret!Grown, r
      <3> HIDE DEF room
      <3> QED  BY <2>1, <3>1, <3>2, <3>3, <1>1
    <2>2. CASE ~ (n > Len(vec))
      BY <2>2, <1>1
    <2> QED  BY <2>1, <2>2
  <1> HIDE DEF room
  <1>3. Len(room) \in Nat /\ room \in [1..Len(room) -> T] /\ n \in 1..Len(room)
    BY <1>2, LenProperties
  <1>4. /\ put \in [1..Len(room) -> T] /\ put[n] = x
        /\ \A i \in 1..(n - 1) : put[i] = room[i]
    BY <1>3
  <1>5. put \in Seq(T) /\ Len(put) = Len(room)
    BY <1>3, <1>4, IsSeq
  <1> HIDE DEF put
  <1>6. Len(put) >= n /\ Len(put) >= 1
    BY <1>2, <1>3, <1>5
  <1>7. \A i \in 1..(n - 1) : put[i] = vec[i]
    BY <1>2, <1>4
  <1> QED  BY <1>4, <1>5, <1>6, <1>7 DEF put, room

\* What is read back is what was written, from the size or from a guess of it.
LEMMA ReadsBack ==
  ASSUME NEW items \in Seq(Nat), NEW capacity \in Nat, capacity >= 1 \/ capacity = Len(items)
  PROVE  Secret!VisitSeq(items, capacity) = items
PROOF
  <1> DEFINE m == Len(items)
             T == Nat \cup {Secret!Unset}
             Put(vec, n) == [IF n > Len(vec) THEN Secret!Grown(vec) ELSE vec EXCEPT ![n] = items[n]]
             Reads(f) == f = [n \in 0..m |-> IF n = 0 THEN Secret!Random(capacity)
                                             ELSE Put(f[n - 1], n)]
             filled == CHOOSE f : Reads(f)
             Room == {vec \in Seq(T) : m >= 1 => Len(vec) >= 1}
  <1>1. m \in Nat /\ \A i \in 1..m : items[i] \in Nat
    BY LenProperties, ElementOfSeq
  <1>2. Secret!VisitSeq(items, capacity) = SubSeq(filled[m], 1, m)
    BY Zenon DEF Secret!VisitSeq, Secret!Filled
  <1> HIDE DEF m
  <1>3. Secret!Random(capacity) \in Seq(T) /\ Len(Secret!Random(capacity)) = capacity
    BY IsSeq DEF Secret!Random
  <1>4. \E f : Reads(f)
    <2> DEFINE h == [n \in 1..m |-> [vec \in Seq(T) |-> IF Len(vec) >= n - 1 /\ Len(vec) >= 1
                                                       THEN Put(vec, n) ELSE vec]]
    <2>1. h \in [1..m -> [Seq(T) -> Seq(T)]]
      <3>1. ASSUME NEW n \in 1..m, NEW vec \in Seq(T)
            PROVE  (IF Len(vec) >= n - 1 /\ Len(vec) >= 1 THEN Put(vec, n) ELSE vec) \in Seq(T)
        <4>1. CASE Len(vec) >= n - 1 /\ Len(vec) >= 1
          <5>1. n \in Nat /\ n >= 1 /\ items[n] \in T /\ Secret!Unset \in T
            BY <1>1
          <5> HIDE DEF T
          <5>2. Put(vec, n) \in Seq(T)
            BY <5>1, <4>1, PutKeeps
          <5> QED  BY <5>2, <4>1
        <4> QED  BY <4>1
      <3> HIDE DEF T, Put
      <3> QED  BY <3>1
    <2>2. PICK f \in [0..m -> Seq(T)] : Unrolls(f, m, Secret!Random(capacity), h)
      <3> HIDE DEF h, T
      <3> QED  BY <1>1, <1>3, <2>1, RecurrenceExists, Zenon
    <2>3. ASSUME NEW n \in 0..m
          PROVE  n >= 1 => Len(f[n]) >= n /\ Len(f[n]) >= 1 /\ f[n] = Put(f[n - 1], n)
      <3> DEFINE Good(k) == k \in 1..m => /\ Len(f[k]) >= k /\ f[k] = Put(f[k - 1], k)
                 S == {k \in Nat : Good(k)}
      <3>1. 0 \in S
        OBVIOUS
      <3>2. ASSUME NEW k \in Nat, k \in S PROVE k + 1 \in S
        <4>1. ASSUME k + 1 \in 1..m
              PROVE  Len(f[k + 1]) >= k + 1 /\ f[k + 1] = Put(f[(k + 1) - 1], k + 1)
          <5>1. k \in 0..m /\ (k + 1) - 1 = k /\ f[k] \in Seq(T) /\ k + 1 \in Nat /\ k + 1 >= 1
                /\ items[k + 1] \in T /\ Secret!Unset \in T /\ Len(f[k]) \in Nat
            BY <4>1, <1>1, <2>2, LenProperties
          <5>2. Len(f[k]) >= k /\ Len(f[k]) >= 1
            <6>1. CASE k = 0
              <7>1. f[k] = Secret!Random(capacity)
                BY <6>1, <2>2 DEF Unrolls
              <7>2. capacity >= 1
                BY <4>1, <1>1 DEF m
              <7> QED  BY <7>1, <7>2, <6>1, <1>3
            <6>2. CASE k # 0
              BY <6>2, <3>2, <5>1, <4>1, <1>1
            <6> QED  BY <6>1, <6>2
          <5>3. f[k + 1] = Put(f[k], k + 1)
            <6>1. f[k + 1] = h[k + 1][f[k]]
              BY <4>1, <5>1, <2>2 DEF Unrolls
            <6>2. h[k + 1] = [vec \in Seq(T) |-> IF Len(vec) >= (k + 1) - 1 /\ Len(vec) >= 1
                                                THEN Put(vec, k + 1) ELSE vec]
              BY <4>1
            <6> HIDE DEF h, T, Put
            <6> QED  BY <6>1, <6>2, <5>1, <5>2
          <5>4. Len(Put(f[k], k + 1)) >= k + 1
            <6> HIDE DEF T
            <6> QED  BY <5>1, <5>2, PutKeeps
          <5> QED  BY <5>1, <5>3, <5>4
        <4> HIDE DEF Put
        <4> QED  BY <4>1
      <3>3. Nat \subseteq S
        <4> HIDE DEF S
        <4> QED  BY <3>1, <3>2, SetInduction
      <3>4. Good(n)
        <4>1. n \in S
          <5> HIDE DEF S
          <5> QED  BY <3>3, <1>1
        <4> HIDE DEF Good
        <4> QED  BY <4>1
      <3>5. n >= 1 => n \in 1..m
        BY <1>1
      <3>6. n \in Nat /\ Len(f[n]) \in Nat
        BY <2>2, LenProperties
      <3> HIDE DEF Put
      <3> QED  BY <3>4, <3>5, <3>6
    <2>4. f[0] = Secret!Random(capacity)
      BY <2>2 DEF Unrolls
    <2>5. ASSUME NEW n \in 0..m
          PROVE  f[n] = IF n = 0 THEN Secret!Random(capacity) ELSE Put(f[n - 1], n)
      <3> HIDE DEF Put
      <3>1. n # 0 => n >= 1
        BY <1>1
      <3> QED  BY <2>3, <2>4, <3>1
    <2>6. f = [n \in 0..m |-> f[n]]
      OBVIOUS
    <2> HIDE DEF Put
    <2>7. Reads(f)
      BY <2>5, <2>6
    <2> QED  BY <2>7
  <1>5. Reads(filled)
    BY <1>4, Zenon
  <1> HIDE DEF filled
  <1>6. \A n \in 0..m : filled[n] = IF n = 0 THEN Secret!Random(capacity)
                                    ELSE Put(filled[n - 1], n)
    <2> HIDE DEF Put
    <2> QED  BY <1>5
  <1> HIDE DEF Reads
  <1> DEFINE Holds(n) == /\ filled[n] \in Seq(T) /\ Len(filled[n]) >= n
                         /\ m >= 1 => Len(filled[n]) >= 1
                         /\ \A i \in 1..n : filled[n][i] = items[i]
             S == {n \in Nat : n <= m => Holds(n)}
  <1>7. 0 \in S
    <2>1. filled[0] = Secret!Random(capacity)
      <3> HIDE DEF Put
      <3> QED  BY <1>1, <1>6
    <2>2. m >= 1 => capacity >= 1
      BY <1>1 DEF m
    <2> QED  BY <2>1, <2>2, <1>3
  <1>8. ASSUME NEW n \in Nat, n \in S PROVE n + 1 \in S
    <2>1. ASSUME n + 1 <= m PROVE Holds(n + 1)
      <3>1. /\ n <= m /\ n + 1 \in 0..m /\ n + 1 # 0 /\ (n + 1) - 1 = n /\ n + 1 >= 1 /\ m >= 1
            /\ n + 1 \in 1..m
        BY <2>1, <1>1
      <3>2. Holds(n)
        BY <1>8, <3>1
      <3>3. filled[n + 1] = Put(filled[n], n + 1)
        <4> HIDE DEF Put
        <4> QED  BY <3>1, <1>6
      <3>4. items[n + 1] \in T /\ Secret!Unset \in T /\ Len(filled[n]) \in Nat /\ n + 1 \in Nat
        BY <3>1, <3>2, <1>1, LenProperties
      <3>5. /\ Put(filled[n], n + 1) \in Seq(T) /\ Len(Put(filled[n], n + 1)) >= n + 1
            /\ Len(Put(filled[n], n + 1)) >= 1 /\ Put(filled[n], n + 1)[n + 1] = items[n + 1]
            /\ \A i \in 1..((n + 1) - 1) : Put(filled[n], n + 1)[i] = filled[n][i]
        <4> HIDE DEF T
        <4> QED  BY <3>1, <3>2, <3>4, PutKeeps
      <3> HIDE DEF Put
      <3>6. ASSUME NEW i \in 1..(n + 1) PROVE filled[n + 1][i] = items[i]
        <4>1. CASE i = n + 1
          BY <4>1, <3>3, <3>5
        <4>2. CASE i # n + 1
          <5>1. i \in 1..n /\ i \in 1..((n + 1) - 1)
            BY <4>2
          <5> QED  BY <5>1, <3>2, <3>3, <3>5
        <4> QED  BY <4>1, <4>2
      <3> QED  BY <3>3, <3>5, <3>6
    <2> QED  BY <2>1
  <1>9. Nat \subseteq S
    <2> HIDE DEF S
    <2> QED  BY <1>7, <1>8, SetInduction
  <1>10. Holds(m)
    BY <1>1, <1>9
  <1>11. /\ SubSeq(filled[m], 1, m) \in Seq(T) /\ Len(SubSeq(filled[m], 1, m)) = m
         /\ \A i \in 1..m : SubSeq(filled[m], 1, m)[i] = items[i]
    <2>1. filled[m] \in Seq(T) /\ m \in 0..Len(filled[m])
      BY <1>1, <1>10, LenProperties
    <2> HIDE DEF T
    <2>2. /\ SubSeq(filled[m], 1, m) \in Seq(T) /\ Len(SubSeq(filled[m], 1, m)) = m
          /\ \A i \in 1..m : SubSeq(filled[m], 1, m)[i] = filled[m][i]
      BY <2>1, FrontOfSeq
    <2> QED  BY <2>2, <1>10
  <1>12. items \in Seq(T)
    OBVIOUS
  <1> HIDE DEF T
  <1>13. SubSeq(filled[m], 1, m) = items
    BY <1>11, <1>12, SameSeq DEF m
  <1> QED  BY <1>2, <1>13

\* The keys of an array nothing panicked in.
Tiled ==
  /\ secret_starts \in Seq(Nat) /\ secret_ends \in Seq(Nat)
  /\ Len(secret_starts) = Len(widths) /\ Len(secret_ends) = Len(widths)
  /\ \A i \in 1..Len(widths) :
       /\ secret_starts[i] = (IF i = 1 THEN 0 ELSE secret_ends[i - 1])
       /\ secret_ends[i] = secret_starts[i] + widths[i]

SecretInv ==
  /\ panicked \in BOOLEAN /\ widths \in Seq(Nat)
  /\ ~panicked => Tiled

\* What is known before an operation.
LEMMA SecretFacts ==
  ASSUME SecretInv, ~panicked
  PROVE  /\ Tiled /\ widths \in Seq(Nat) /\ Len(widths) \in Nat
         /\ secret_starts \in Seq(Nat) /\ secret_ends \in Seq(Nat)
         /\ Len(secret_starts) = Len(widths) /\ Len(secret_ends) = Len(widths)
         /\ Secret!KeysEnd \in Nat
         /\ Secret!KeysEnd = IF Len(widths) = 0 THEN 0 ELSE secret_ends[Len(widths)]
PROOF
  <1>1. /\ Tiled /\ widths \in Seq(Nat) /\ Len(widths) \in Nat
        /\ secret_starts \in Seq(Nat) /\ secret_ends \in Seq(Nat)
        /\ Len(secret_starts) = Len(widths) /\ Len(secret_ends) = Len(widths)
    BY LenProperties DEF SecretInv, Tiled
  <1>2. CASE secret_ends = <<>>
    BY <1>1, <1>2 DEF Secret!KeysEnd
  <1>3. CASE secret_ends # <<>>
    <2>1. Len(widths) \in 1..Len(secret_ends)
      BY <1>1, <1>3, EmptySeq
    <2>2. secret_ends[Len(widths)] \in Nat
      BY <1>1, <2>1, ElementOfSeq
    <2>3. Secret!KeysEnd = secret_ends[Len(widths)]
      BY <1>1, <1>3 DEF Secret!KeysEnd, Secret!Last
    <2> QED  BY <1>1, <2>1, <2>2, <2>3
  <1> QED  BY <1>1, <1>2, <1>3

LEMMA SecretAppendKeeps ==
  ASSUME NEW width \in Nat
  PROVE  SecretInv /\ Secret!AppendMemory(width) => SecretInv'
PROOF
  <1> SUFFICES ASSUME SecretInv, Secret!AppendMemory(width) PROVE SecretInv'
    OBVIOUS
  <1> DEFINE n == Len(widths)
             last == Secret!KeysEnd
             s == Secret!CPush(secret_starts, last)
             e == Secret!CPush(secret_ends, last + width)
  <1>1. ~panicked /\ Secret!Keys(s, e) /\ widths' = Append(widths, width)
    BY DEF Secret!AppendMemory
  <1>2. /\ Tiled /\ widths \in Seq(Nat) /\ n \in Nat
        /\ secret_starts \in Seq(Nat) /\ secret_ends \in Seq(Nat)
        /\ Len(secret_starts) = n /\ Len(secret_ends) = n
        /\ last \in Nat /\ last = IF n = 0 THEN 0 ELSE secret_ends[n]
    BY <1>1, SecretFacts
  <1>3. /\ s.ok = TRUE /\ s.vec = Append(secret_starts, last)
        /\ e.ok = TRUE /\ e.vec = Append(secret_ends, last + width)
    BY <1>2, FromIterIs DEF Secret!CPush, Secret!Vec
  <1> HIDE DEF s, e, last
  <1>4. /\ panicked' = FALSE
        /\ secret_starts' = Append(secret_starts, last)
        /\ secret_ends' = Append(secret_ends, last + width)
    BY <1>1, <1>3 DEF Secret!Keys
  <1>5. last + width \in Nat
    BY <1>2
  <1> HIDE DEF n
  <1>6. Len(widths) = n
    BY DEF n
  <1>7. /\ widths' \in Seq(Nat) /\ Len(widths') = n + 1
        /\ \A i \in 1..(n + 1) : widths'[i] = IF i <= n THEN widths[i] ELSE width
    BY <1>1, <1>2, <1>6, Appended
  <1>8. /\ secret_starts' \in Seq(Nat) /\ Len(secret_starts') = n + 1
        /\ \A i \in 1..(n + 1) : secret_starts'[i] = IF i <= n THEN secret_starts[i] ELSE last
    BY <1>2, <1>4, Appended
  <1>9. /\ secret_ends' \in Seq(Nat) /\ Len(secret_ends') = n + 1
        /\ \A i \in 1..(n + 1) :
             secret_ends'[i] = IF i <= n THEN secret_ends[i] ELSE last + width
    BY <1>2, <1>4, <1>5, Appended
  <1>10. ASSUME NEW i \in 1..(n + 1)
         PROVE  /\ secret_starts'[i] = (IF i = 1 THEN 0 ELSE secret_ends'[i - 1])
                /\ secret_ends'[i] = secret_starts'[i] + widths'[i]
    <2>1. CASE i <= n
      <3>1. i \in 1..n /\ (i # 1 => i - 1 \in 1..(n + 1) /\ i - 1 <= n)
        BY <2>1, <1>2
      <3>2. /\ secret_starts[i] = (IF i = 1 THEN 0 ELSE secret_ends[i - 1])
            /\ secret_ends[i] = secret_starts[i] + widths[i]
        BY <3>1, <1>2, <1>6 DEF Tiled
      <3> QED  BY <2>1, <3>1, <3>2, <1>7, <1>8, <1>9
    <2>2. CASE ~ (i <= n)
      <3>1. i - 1 = n /\ (i # 1 => n \in 1..(n + 1) /\ n # 0) /\ (i = 1 => n = 0)
        BY <2>2, <1>2
      <3> QED  BY <2>2, <3>1, <1>2, <1>7, <1>8, <1>9
    <2> QED  BY <2>1, <2>2
  <1> QED  BY <1>4, <1>7, <1>8, <1>9, <1>10 DEF SecretInv, Tiled

\* A remove that does not panic is of the last chunk.
LEMMA SecretRemoveKeeps ==
  ASSUME NEW r \in Nat
  PROVE  SecretInv /\ Secret!RemoveEntry(r) => SecretInv'
PROOF
  <1> SUFFICES ASSUME SecretInv, Secret!RemoveEntry(r) PROVE SecretInv'
    OBVIOUS
  <1> DEFINE n == Len(widths)
             shift(vec) ==
               IF vec.ok THEN Secret!Vec([k \in DOMAIN vec.vec |->
                                            IF k < r THEN vec.vec[k] ELSE vec.vec[k] - widths[r]])
                         ELSE vec
             s == Secret!CRemove(secret_starts, r)
             e == Secret!CRemove(secret_ends, r)
  <1>1. ~panicked /\ r \in DOMAIN widths /\ widths' = Secret!RemoveAt(widths, r)
    BY DEF Secret!RemoveEntry
  <1>2. Secret!Keys(shift(s), shift(e))
    BY Zenon DEF Secret!RemoveEntry
  <1>3. /\ Tiled /\ widths \in Seq(Nat) /\ n \in Nat
        /\ secret_starts \in Seq(Nat) /\ secret_ends \in Seq(Nat)
        /\ Len(secret_starts) = n /\ Len(secret_ends) = n
    BY <1>1, SecretFacts
  <1>4. r \in 1..n
    BY <1>1, <1>3, LenProperties
  <1>5. ASSUME NEW v \in Seq(Nat), Len(v) = n, shift(Secret!CRemove(v, r)).ok
        PROVE  /\ r = n /\ shift(Secret!CRemove(v, r)).vec \in Seq(Nat)
               /\ Len(shift(Secret!CRemove(v, r)).vec) = n - 1
               /\ \A i \in 1..(n - 1) : shift(Secret!CRemove(v, r)).vec[i] = v[i]
    <2> DEFINE c == Secret!CRemove(v, r)
               left == SubSeq(v, 1, r - 1)
               right == SubSeq(v, r + 1, Len(v))
    <2>1. c.ok
      BY <1>5
    <2>2. /\ left \in Seq(Nat) /\ Len(left) = r - 1
          /\ \A i \in 1..(r - 1) : left[i] = v[i]
      <3>1. r - 1 \in 0..Len(v)
        BY <1>3, <1>4, <1>5
      <3> QED  BY <3>1, FrontOfSeq
    <2>3. right \in Seq(Nat)
      <3>1. \A i \in (r + 1)..Len(v) : v[i] \in Nat
        <4>1. Len(v) = n
          BY <1>5
        <4> HIDE DEF n
        <4>2. (r + 1)..Len(v) \subseteq 1..Len(v)
          BY <4>1, <1>3, <1>4
        <4> QED  BY <4>2, ElementOfSeq
      <3>2. r + 1 \in Int /\ Len(v) \in Int
        BY <1>3, <1>5
      <3> QED  BY <3>1, <3>2, <1>4, SubSeqProperties
    <2> HIDE DEF left, right
    <2>4. n - 1 = Len(left) /\ c.vec = left
      <3>1. c = Secret!CopyBoth(n - 1, left, r, right)
        BY <1>5 DEF Secret!CRemove, left, right
      <3>2. n - 1 \in Nat /\ r = Len(left) + 1
        BY <1>3, <1>4, <2>2
      <3> HIDE DEF c, n
      <3> QED  BY <2>1, <2>2, <2>3, <3>1, <3>2, BothFit
    <2> HIDE DEF c
    <2>5. r = n
      BY <1>3, <1>4, <2>2, <2>4
    <2>6. shift(c) = Secret!Vec([k \in DOMAIN left |->
                                   IF k < r THEN left[k] ELSE left[k] - widths[r]])
      BY <2>1, <2>4
    <2>7. [k \in DOMAIN left |-> IF k < r THEN left[k] ELSE left[k] - widths[r]] = left
      <3>1. DOMAIN left = 1..(r - 1) /\ left = [k \in DOMAIN left |-> left[k]]
        BY <2>2, LenProperties
      <3>2. \A k \in 1..(r - 1) : k < r
        BY <1>4
      <3> QED  BY <3>1, <3>2
    <2>8. shift(c).vec = left
      <3> HIDE DEF shift
      <3> QED  BY <2>6, <2>7 DEF Secret!Vec
    <2> HIDE DEF shift
    <2>9. /\ shift(c).vec \in Seq(Nat) /\ Len(shift(c).vec) = n - 1
          /\ \A i \in 1..(n - 1) : shift(c).vec[i] = v[i]
      BY <2>2, <2>4, <2>5, <2>8
    <2> QED  BY <2>5, <2>9 DEF c
  <1> DEFINE ss == shift(s)
             se == shift(e)
  <1>6. Secret!Keys(ss, se)
    BY <1>2
  <1>7. ss.ok => /\ r = n /\ ss.vec \in Seq(Nat) /\ Len(ss.vec) = n - 1
                 /\ \A i \in 1..(n - 1) : ss.vec[i] = secret_starts[i]
    <2> HIDE DEF shift
    <2> QED  BY <1>3, <1>5
  <1>8. se.ok => /\ se.vec \in Seq(Nat) /\ Len(se.vec) = n - 1
                 /\ \A i \in 1..(n - 1) : se.vec[i] = secret_ends[i]
    <2> HIDE DEF shift
    <2> QED  BY <1>3, <1>5
  <1> HIDE DEF ss, se, shift
  <1>9. /\ widths' \in Seq(Nat) /\ Len(widths') = n - 1
        /\ \A i \in 1..(n - 1) : widths'[i] = IF i < r THEN widths[i] ELSE widths[i + 1]
    <2>1. widths' = RemoveAt(widths, r)
      BY <1>1 DEF Secret!RemoveAt, RemoveAt
    <2> QED  BY <2>1, <1>3, <1>4, RemoveAtSkips
  <1>10. panicked' = ~ (ss.ok /\ se.ok) /\ panicked' \in BOOLEAN
    BY <1>6 DEF Secret!Keys
  <1>11. ASSUME ~panicked' PROVE Tiled'
    <2>1. ss.ok /\ se.ok
      BY <1>10, <1>11
    <2>2. secret_starts' = ss.vec /\ secret_ends' = se.vec
      BY <1>6, <2>1 DEF Secret!Keys
    <2>3. ASSUME NEW i \in 1..(n - 1)
          PROVE  /\ secret_starts'[i] = (IF i = 1 THEN 0 ELSE secret_ends'[i - 1])
                 /\ secret_ends'[i] = secret_starts'[i] + widths'[i]
      <3>1. i \in 1..n /\ i < r /\ (i # 1 => i - 1 \in 1..(n - 1))
        BY <1>3, <1>7, <2>1
      <3>2. /\ secret_starts[i] = (IF i = 1 THEN 0 ELSE secret_ends[i - 1])
            /\ secret_ends[i] = secret_starts[i] + widths[i]
        BY <3>1, <1>3 DEF Tiled
      <3> QED  BY <3>1, <3>2, <1>7, <1>8, <1>9, <2>1, <2>2
    <2> HIDE DEF n
    <2> QED  BY <2>1, <2>2, <2>3, <1>7, <1>8, <1>9 DEF Tiled
  <1> QED  BY <1>9, <1>10, <1>11 DEF SecretInv

\* A merge that does not panic is of nothing.
LEMMA SecretMergeKeeps ==
  ASSUME NEW m \in Nat
  PROVE  SecretInv /\ Secret!Merge(m) => SecretInv'
PROOF
  <1> SUFFICES ASSUME SecretInv, Secret!Merge(m) PROVE SecretInv'
    OBVIOUS
  <1> DEFINE n == Len(widths)
             last == Secret!KeysEnd
             ts == [i \in 1..m |-> last + i - 1]
             te == [i \in 1..m |-> last + i]
             ones == [i \in 1..m |-> 1]
             s == Secret!Extend(secret_starts, ts)
             e == Secret!Extend(secret_ends, te)
  <1>1. /\ ~panicked /\ Secret!Keys(s, e)
        /\ widths' = IF panicked' THEN widths ELSE widths \o ones
    BY DEF Secret!Merge
  <1>2. /\ Tiled /\ widths \in Seq(Nat) /\ n \in Nat
        /\ secret_starts \in Seq(Nat) /\ secret_ends \in Seq(Nat)
        /\ Len(secret_starts) = n /\ Len(secret_ends) = n /\ last \in Nat
    BY <1>1, SecretFacts
  <1> HIDE DEF last
  <1>3. ts \in Seq(Nat) /\ Len(ts) = m /\ te \in Seq(Nat) /\ Len(te) = m
    <2>1. ts \in [1..m -> Nat] /\ te \in [1..m -> Nat]
      BY <1>2
    <2> QED  BY <2>1, IsSeq
  <1> HIDE DEF ts, te, n
  <1>4. ASSUME NEW v \in Seq(Nat), Len(v) = n, NEW t \in Seq(Nat), Len(t) = m,
               Secret!Extend(v, t).ok
        PROVE  m = 0 /\ Secret!Extend(v, t).vec = v
    <2>1. Secret!Extend(v, t) = Secret!CopyBoth(n + m, v, n + 1, t)
      BY <1>4, FromIterIs DEF Secret!Extend
    <2>2. n + m \in Nat /\ n + 1 \in Nat /\ n + 1 = Len(v) + 1
      BY <1>2, <1>4
    <2>3. n + m = Len(v) /\ Secret!Extend(v, t).vec = v
      BY <2>1, <2>2, <1>4, BothFit
    <2> QED  BY <2>3, <1>2, <1>4
  <1>5. /\ s.ok => m = 0 /\ s.vec = secret_starts
        /\ e.ok => m = 0 /\ e.vec = secret_ends
    BY <1>2, <1>3, <1>4
  <1> HIDE DEF s, e
  <1>6. panicked' = ~ (s.ok /\ e.ok) /\ panicked' \in BOOLEAN
    BY <1>1 DEF Secret!Keys
  <1>7. CASE panicked'
    BY <1>1, <1>2, <1>6, <1>7 DEF SecretInv
  <1>8. CASE ~panicked'
    <2>1. m = 0 /\ secret_starts' = secret_starts /\ secret_ends' = secret_ends
      BY <1>1, <1>5, <1>6, <1>8 DEF Secret!Keys
    <2>2. widths' = widths
      <3>1. ones = <<>>
        <4>1. ones \in Seq(Nat) /\ Len(ones) = 0
          BY <2>1, IsSeq
        <4> QED  BY <4>1, EmptySeq
      <3> HIDE DEF ones
      <3> QED  BY <3>1, <1>1, <1>2, <1>8, ConcatEmptySeq
    <2> QED  BY <1>2, <1>6, <2>1, <2>2 DEF SecretInv, Tiled
  <1> QED  BY <1>7, <1>8

\* What is deserialised is what was serialised.
LEMMA SecretReloadKeeps ==
  ASSUME NEW sized \in BOOLEAN
  PROVE  SecretInv /\ Secret!Reload(sized) => SecretInv'
PROOF
  <1> SUFFICES ASSUME SecretInv, Secret!Reload(sized) PROVE SecretInv'
    OBVIOUS
  <1> DEFINE s == Secret!Vec(Secret!VisitSeq(secret_starts,
                               IF sized THEN Len(secret_starts) ELSE SizeGuess))
             e == Secret!Vec(Secret!VisitSeq(secret_ends,
                               IF sized THEN Len(secret_ends) ELSE SizeGuess))
  <1>1. ~panicked /\ Secret!Keys(s, e) /\ widths' = widths
    BY DEF Secret!Reload
  <1>2. /\ Tiled /\ widths \in Seq(Nat)
        /\ secret_starts \in Seq(Nat) /\ secret_ends \in Seq(Nat)
    BY <1>1, SecretFacts
  <1>3. ASSUME NEW v \in Seq(Nat)
        PROVE  Secret!VisitSeq(v, IF sized THEN Len(v) ELSE SizeGuess) = v
    <2> DEFINE capacity == IF sized THEN Len(v) ELSE SizeGuess
    <2>1. capacity \in Nat /\ (capacity >= 1 \/ capacity = Len(v))
      BY LenProperties, SizesAssumption
    <2> HIDE DEF capacity
    <2>2. Secret!VisitSeq(v, capacity) = v
      BY <2>1, ReadsBack
    <2> QED  BY <2>2 DEF capacity
  <1>4. s = Secret!Vec(secret_starts) /\ e = Secret!Vec(secret_ends)
    BY <1>2, <1>3
  <1> HIDE DEF s, e
  <1>5. secret_starts' = secret_starts /\ secret_ends' = secret_ends /\ panicked' = FALSE
    BY <1>1, <1>4 DEF Secret!Keys, Secret!Vec
  <1> QED  BY <1>1, <1>2, <1>5 DEF SecretInv, Tiled

LEMMA SecretStep == SecretInv /\ [MCNext]_MCVars => SecretInv'
PROOF
  <1> SUFFICES ASSUME SecretInv, [MCNext]_MCVars PROVE SecretInv'
    OBVIOUS
  <1>1. Secret!Next \/ UNCHANGED secret
    BY DEF MCNext, MCVars
  <1>2. CASE UNCHANGED secret
    BY <1>2 DEF secret, SecretInv, Tiled
  <1>3. CASE Secret!Next
    <2>1. ASSUME NEW width \in 0..MaxWidth, Secret!AppendMemory(width) PROVE SecretInv'
      <3>1. width \in Nat
        BY SizesAssumption
      <3> QED  BY <2>1, <3>1, SecretAppendKeeps
    <2>2. ASSUME NEW r \in 1..MaxSecrets, Secret!RemoveEntry(r) PROVE SecretInv'
      <3>1. r \in Nat
        BY SizesAssumption
      <3> QED  BY <2>2, <3>1, SecretRemoveKeeps
    <2>3. ASSUME NEW m \in 0..MaxSecrets, Secret!Merge(m) PROVE SecretInv'
      <3>1. m \in Nat
        BY SizesAssumption
      <3> QED  BY <2>3, <3>1, SecretMergeKeeps
    <2>4. ASSUME NEW sized \in BOOLEAN, Secret!Reload(sized) PROVE SecretInv'
      BY <2>4, SecretReloadKeeps
    <2> QED  BY <1>3, <2>1, <2>2, <2>3, <2>4 DEF Secret!Next
  <1> QED  BY <1>1, <1>2, <1>3

\* The keys of a SecretBackedArray give each chunk its place, through every
\* resize that does not panic and every way back from a file
\* (src/src/array/container/encrypted.rs).
THEOREM SecretsStayTiled == MCSpec => []SecretKeysTile
PROOF
  <1>1. MCInit => SecretInv
    <2> SUFFICES ASSUME Secret!Init PROVE SecretInv
      BY DEF MCInit
    <2>1. /\ secret_starts = <<>> /\ secret_ends = <<>> /\ widths = <<>> /\ panicked = FALSE
          /\ <<>> \in Seq(Nat) /\ Len(<<>>) = 0
      BY DEF Secret!Init
    <2>2. Tiled
      <3>1. 1..Len(widths) = {}
        BY <2>1
      <3> QED  BY <2>1, <3>1 DEF Tiled
    <2> QED  BY <2>1, <2>2 DEF SecretInv
  <1>2. SecretInv => SecretKeysTile
    <2> SUFFICES ASSUME SecretInv, ~panicked
                 PROVE  Secret!Tiles(secret_starts, secret_ends, widths)
      BY DEF SecretKeysTile, Secret!KeysTile
    <2>1. widths \in Seq(Nat) /\ Tiled
      BY DEF SecretInv
    <2>2. DOMAIN widths = 1..Len(widths)
      BY <2>1, LenProperties
    <2> QED  BY <2>1, <2>2 DEF Secret!Tiles, Tiled
  <1> QED  BY <1>1, <1>2, SecretStep, PTL DEF MCSpec
=============================================================================
