------------------------ MODULE SyncAsAsyncWrite_proof ------------------------
(***************************************************************************)
(* The safety of the write adapter, for every buffer size and every number *)
(* of bytes, flushes and errors.                                           *)
(*                                                                         *)
(* The argument has three parts: the queued commands form a chain of       *)
(* intervals from the bytes written to the bytes sent (Chain);             *)
(* num_cmds_pending counts what is queued, in hand and answered, and one   *)
(* for each failed flush, which nothing counts off again, so that it never *)
(* falls below zero (Counted); and a failed write leaves one token that    *)
(* goes from the status channel to the controller's condvar to the toggle  *)
(* and back to the thread (Handshake).                                     *)
(***************************************************************************)
EXTENDS SyncAsAsyncWrite, TLAPS, FiniteSetTheorems, SequenceTheorems,
        WellFoundedInduction

Status == {"ok", "write_error", "flush_error"}

(***************************************************************************)
(* Counting in a sequence.                                                 *)
(***************************************************************************)
At(s, v) == {i \in DOMAIN s : s[i] = v}
Num(s, v) == Cardinality(At(s, v))

LEMMA NumType ==
  ASSUME NEW S, NEW s \in Seq(S), NEW v
  PROVE  /\ IsFiniteSet(At(s, v)) /\ At(s, v) \subseteq 1..Len(s)
         /\ Num(s, v) \in 0..Len(s)
<1>1. Len(s) \in Nat /\ DOMAIN s = 1..Len(s)
  BY LenProperties
<1>2. IsFiniteSet(1..Len(s)) /\ Cardinality(1..Len(s)) = Len(s)
  BY <1>1, FS_Interval
<1>3. At(s, v) \in SUBSET (1..Len(s))
  BY <1>1 DEF At
<1>4. IsFiniteSet(At(s, v)) /\ Cardinality(At(s, v)) <= Len(s)
  BY <1>2, <1>3, FS_Subset
<1>5. Cardinality(At(s, v)) \in Nat
  BY <1>4, FS_CardinalityType
<1> QED
  BY <1>1, <1>3, <1>4, <1>5 DEF Num

LEMMA NumEmpty == \A v : Num(<<>>, v) = 0
<1> TAKE v
<1>1. At(<<>>, v) = {}
  BY DEF At
<1> QED
  BY <1>1, FS_EmptySet DEF Num

LEMMA NumAppend ==
  ASSUME NEW S, NEW s \in Seq(S), NEW x \in S, NEW v
  PROVE  Num(Append(s, x), v) = Num(s, v) + (IF x = v THEN 1 ELSE 0)
<1>1. /\ Len(s) \in Nat /\ DOMAIN s = 1..Len(s)
      /\ DOMAIN Append(s, x) = 1..(Len(s) + 1)
      /\ Append(s, x)[Len(s) + 1] = x
      /\ \A i \in 1..Len(s) : Append(s, x)[i] = s[i]
  BY LenProperties
<1>2. IsFiniteSet(At(s, v)) /\ Num(s, v) \in Nat /\ Len(s) + 1 \notin At(s, v)
  <2>1. /\ IsFiniteSet(At(s, v)) /\ At(s, v) \subseteq 1..Len(s)
        /\ Num(s, v) \in 0..Len(s)
    BY NumType
  <2> QED
    BY <1>1, <2>1
<1>3. CASE x = v
  <2>1. At(Append(s, x), v) = At(s, v) \cup {Len(s) + 1}
    BY <1>1, <1>3 DEF At
  <2> QED
    BY <1>2, <1>3, <2>1, FS_AddElement DEF Num
<1>4. CASE x # v
  <2>1. At(Append(s, x), v) = At(s, v)
    BY <1>1, <1>4 DEF At
  <2> QED
    BY <1>2, <1>4, <2>1 DEF Num
<1> QED
  BY <1>3, <1>4

\* The whole sequence holds nothing else.
LEMMA NumAll ==
  ASSUME NEW S, NEW s \in Seq(S), NEW v, \A i \in 1..Len(s) : s[i] = v
  PROVE  Num(s, v) = Len(s)
<1>1. Len(s) \in Nat /\ At(s, v) = 1..Len(s)
  BY LenProperties DEF At
<1>2. Cardinality(1..Len(s)) = IF 1 > Len(s) THEN 0 ELSE Len(s) - 1 + 1
  BY <1>1, FS_Interval
<1> QED
  BY <1>1, <1>2 DEF Num

\* A prefix of n elements v and one that is not v are cut off.
LEMMA NumSuffix ==
  ASSUME NEW S, NEW s \in Seq(S), NEW v, NEW n \in Nat, n < Len(s),
         \A i \in 1..n : s[i] = v,
         s[n + 1] # v
  PROVE  LET t == SubSeq(s, n + 2, Len(s)) IN
         /\ t \in Seq(S) /\ Len(t) = Len(s) - n - 1
         /\ \A i \in 1..Len(t) : t[i] = s[n + 1 + i]
         /\ Num(s, v) = Num(t, v) + n
<1> DEFINE t == SubSeq(s, n + 2, Len(s))
           R == {i \in (n + 2)..Len(s) : s[i] = v}
           f == [i \in At(t, v) |-> n + 1 + i]
<1>1. Len(s) \in Nat /\ DOMAIN s = 1..Len(s) /\ \A i \in 1..Len(s) : s[i] \in S
  BY LenProperties, ElementOfSeq
<1>2. /\ t \in Seq(S) /\ Len(t) = Len(s) - n - 1
      /\ \A i \in 1..Len(t) : t[i] = s[n + 1 + i]
  <2>1. n + 2 \in Int /\ Len(s) \in Int /\ \A i \in (n + 2)..Len(s) : s[i] \in S
    BY <1>1
  <2>2. /\ t \in Seq(S)
        /\ Len(t) = IF n + 2 <= Len(s) THEN Len(s) - (n + 2) + 1 ELSE 0
        /\ \A i \in 1..(Len(s) - (n + 2) + 1) : t[i] = s[n + 2 + i - 1]
    BY <2>1, SubSeqProperties
  <2> HIDE DEF t
  <2>3. Len(t) = Len(s) - n - 1
    <3>1. Len(t) = IF n + 2 <= Len(s) THEN Len(s) - (n + 2) + 1 ELSE 0
      BY <2>2
    <3>2. Len(s) \in Nat /\ n \in Nat /\ n < Len(s)
      BY <1>1
    <3> QED
      BY <3>1, <3>2
  <2>4. \A i \in 1..Len(t) : n + 2 + i - 1 = n + 1 + i
    BY <2>3, <1>1
  <2>5. Len(s) - (n + 2) + 1 = Len(t)
    BY <2>3, <1>1
  <2> QED
    BY <2>2, <2>3, <2>4, <2>5
<1> HIDE DEF t
<1>3. DOMAIN t = 1..Len(t) /\ Len(t) \in Nat
  BY <1>2, LenProperties
<1>4. f \in Bijection(At(t, v), R)
  <2>1. \A i \in At(t, v) : f[i] \in R
    BY <1>1, <1>2, <1>3 DEF At
  <2>2. \A i, j \in At(t, v) : f[i] = f[j] => i = j
    BY <1>3 DEF At
  <2>3. \A k \in R : \E i \in At(t, v) : f[i] = k
    <3> TAKE k \in R
    <3>1. k - n - 1 \in 1..Len(t) /\ n + 1 + (k - n - 1) = k
      BY <1>1, <1>2
    <3>2. k - n - 1 \in At(t, v)
      BY <1>2, <1>3, <3>1 DEF At
    <3> QED
      BY <3>1, <3>2
  <2>4. f \in [At(t, v) -> R] /\ \A i \in At(t, v) : f[i] = n + 1 + i
    BY <2>1
  <2> HIDE DEF f, R
  <2>5. f \in Injection(At(t, v), R)
    BY <2>2, <2>4 DEF Injection, IsInjective
  <2>6. f \in Surjection(At(t, v), R)
    BY <2>3, <2>4 DEF Surjection
  <2> QED
    BY <2>5, <2>6 DEF Bijection
<1> HIDE DEF f, R
<1>5. IsFiniteSet(At(t, v)) /\ Num(t, v) \in Nat
  <2>1. IsFiniteSet(At(t, v)) /\ Num(t, v) \in 0..Len(t)
    BY <1>2, NumType
  <2> QED
    BY <1>3, <2>1
<1>6. IsFiniteSet(R) /\ Cardinality(R) = Num(t, v)
  BY <1>4, <1>5, FS_Bijection DEF ExistsBijection, Num
<1>7. At(s, v) = (1..n) \cup R /\ (1..n) \cap R = {}
  BY <1>1 DEF At, R
<1>8. IsFiniteSet(1..n) /\ Cardinality(1..n) = n
  <2>1. /\ IsFiniteSet(1..n)
        /\ Cardinality(1..n) = IF 1 > n THEN 0 ELSE n - 1 + 1
    BY FS_Interval
  <2> QED
    BY <2>1
<1>9. Num(s, v) = n + Num(t, v) - Cardinality({})
  <2>1. Cardinality((1..n) \cup R)
          = Cardinality(1..n) + Cardinality(R) - Cardinality((1..n) \cap R)
    BY <1>6, <1>8, FS_Union
  <2> QED
    BY <1>6, <1>7, <1>8, <2>1 DEF Num
<1> QED
  BY <1>2, <1>5, <1>9, FS_EmptySet DEF t

(***************************************************************************)
(* The queued commands as a chain of intervals from base to end: what      *)
(* BytesInOrder says of `cmds`, of any sequence of commands.               *)
(***************************************************************************)
WritesOf(s) == {i \in DOMAIN s : s[i].op = "write"}

\* base and the ends of the writes before i.
FollowsIn(s, base, at, i) ==
  /\ base <= at
  /\ \A k \in WritesOf(s) : k < i => s[k].hi <= at
  /\ at = base \/ \E k \in WritesOf(s) : k < i /\ s[k].hi = at

ChainIn(s, base, end) ==
  /\ \A i \in WritesOf(s) :
       FollowsIn(s, base, s[i].lo, i) /\ s[i].lo <= s[i].hi
  /\ FollowsIn(s, base, end, Len(s) + 1)

LEMMA CommandFields ==
  ASSUME NEW s \in Seq(Command)
  PROVE  /\ Len(s) \in Nat /\ DOMAIN s = 1..Len(s)
         /\ WritesOf(s) \subseteq 1..Len(s)
         /\ \A i \in WritesOf(s) : s[i].lo \in Nat /\ s[i].hi \in Nat
<1>1. Len(s) \in Nat /\ DOMAIN s = 1..Len(s)
  BY LenProperties
<1>2. ASSUME NEW i \in 1..Len(s), s[i].op = "write"
      PROVE  s[i].lo \in Nat /\ s[i].hi \in Nat
  <2>1. s[i] \in Command
    BY ElementOfSeq
  <2>2. s[i] # FlushCmd
    BY <1>2 DEF FlushCmd
  <2> QED
    BY <2>1, <2>2 DEF Command
<1> QED
  BY <1>1, <1>2 DEF WritesOf

LEMMA ChainEmpty ==
  ASSUME NEW base \in Nat, NEW end \in Nat
  PROVE  ChainIn(<<>>, base, end) <=> base = end
<1>1. WritesOf(<<>>) = {}
  BY DEF WritesOf
<1> QED
  BY <1>1 DEF ChainIn, FollowsIn

LEMMA ChainAppendFlush ==
  ASSUME NEW s \in Seq(Command), NEW base \in Nat, NEW end \in Nat,
         ChainIn(s, base, end)
  PROVE  ChainIn(Append(s, FlushCmd), base, end)
<1> DEFINE t == Append(s, FlushCmd)
<1>1. /\ Len(s) \in Nat /\ WritesOf(s) \subseteq 1..Len(s)
      /\ Len(t) = Len(s) + 1
      /\ \A i \in 1..Len(s) : t[i] = s[i]
  BY CommandFields, LenProperties
<1>2. WritesOf(t) = WritesOf(s)
  <2>1. DOMAIN t = 1..(Len(s) + 1) /\ DOMAIN s = 1..Len(s)
    BY LenProperties
  <2>2. t[Len(s) + 1] = FlushCmd /\ FlushCmd.op # "write"
    BY <1>1 DEF FlushCmd
  <2> QED
    BY <1>1, <2>1, <2>2 DEF WritesOf
<1> HIDE DEF t
<1>3. \A i \in WritesOf(s) : t[i] = s[i] /\ i <= Len(s)
  BY <1>1
<1> QED
  BY <1>1, <1>2, <1>3 DEF ChainIn, FollowsIn, t

LEMMA ChainAppendWrite ==
  ASSUME NEW s \in Seq(Command), NEW base \in Nat, NEW end \in Nat,
         NEW hi \in Nat, end <= hi, ChainIn(s, base, end)
  PROVE  ChainIn(Append(s, WriteCmd(end, hi)), base, hi)
<1> DEFINE t == Append(s, WriteCmd(end, hi))
           n == Len(s) + 1
<1>1. /\ Len(s) \in Nat /\ WritesOf(s) \subseteq 1..Len(s)
      /\ Len(t) = n /\ t[n] = WriteCmd(end, hi)
      /\ \A i \in 1..Len(s) : t[i] = s[i]
      /\ \A i \in WritesOf(s) : s[i].lo \in Nat /\ s[i].hi \in Nat
  BY CommandFields, LenProperties
<1>2. t[n].op = "write" /\ t[n].lo = end /\ t[n].hi = hi
  BY <1>1 DEF WriteCmd
<1>3. WritesOf(t) = WritesOf(s) \cup {n}
  <2>1. DOMAIN t = 1..n /\ DOMAIN s = 1..Len(s)
    BY LenProperties
  <2> QED
    BY <1>1, <1>2, <2>1 DEF WritesOf
<1> HIDE DEF t
<1>4. \A i \in WritesOf(s) : t[i] = s[i] /\ i <= Len(s) /\ i < n /\ i \in Nat
  BY <1>1
<1>5. FollowsIn(s, base, end, n)
  BY DEF ChainIn
<1>6. \A i \in WritesOf(s) :
        FollowsIn(t, base, t[i].lo, i) /\ t[i].lo <= t[i].hi
  <2> TAKE i \in WritesOf(s)
  <2>1. FollowsIn(s, base, s[i].lo, i) /\ s[i].lo <= s[i].hi /\ t[i] = s[i]
    BY <1>4 DEF ChainIn
  <2>2. \A k \in WritesOf(t) : k < i => k \in WritesOf(s) /\ t[k] = s[k]
    BY <1>1, <1>3, <1>4
  <2>3. \A k \in WritesOf(s) : k \in WritesOf(t) /\ t[k] = s[k]
    BY <1>3, <1>4
  <2> QED
    BY <2>1, <2>2, <2>3 DEF FollowsIn
<1>7. FollowsIn(t, base, end, n)
  BY <1>1, <1>3, <1>4, <1>5 DEF FollowsIn
<1>8. FollowsIn(t, base, hi, n + 1)
  <2>1. base <= hi
    BY <1>7 DEF FollowsIn
  <2>2. \A k \in WritesOf(t) : k < n + 1 => t[k].hi <= hi
    BY <1>1, <1>2, <1>3, <1>4, <1>7 DEF FollowsIn
  <2>3. n \in WritesOf(t) /\ n < n + 1
    BY <1>1, <1>3
  <2> QED
    BY <1>2, <2>1, <2>2, <2>3 DEF FollowsIn
<1> QED
  BY <1>1, <1>2, <1>3, <1>6, <1>7, <1>8 DEF ChainIn, t

\* Tail, index by index.
LEMMA TailCommands ==
  ASSUME NEW s \in Seq(Command), s # <<>>
  PROVE  /\ Len(s) \in Nat \ {0} /\ Head(s) = s[1]
         /\ Tail(s) \in Seq(Command) /\ Len(Tail(s)) = Len(s) - 1
         /\ \A i \in WritesOf(Tail(s)) :
              i \in Nat /\ i + 1 \in WritesOf(s) /\ Tail(s)[i] = s[i + 1]
         /\ \A i \in WritesOf(s) \ {1} :
              i \in Nat /\ i - 1 \in WritesOf(Tail(s)) /\ Tail(s)[i - 1] = s[i]
         /\ 1 \in WritesOf(s) <=> Head(s).op = "write"
<1>1. /\ Len(s) \in Nat \ {0} /\ Head(s) = s[1] /\ DOMAIN s = 1..Len(s)
      /\ Tail(s) \in Seq(Command) /\ Len(Tail(s)) = Len(s) - 1
      /\ \A i \in 1..Len(Tail(s)) : Tail(s)[i] = s[i + 1]
  BY HeadTailProperties, EmptySeq, LenProperties
<1>2. DOMAIN Tail(s) = 1..(Len(s) - 1)
  BY <1>1, LenProperties
<1> DEFINE t == Tail(s)
<1>3. /\ t \in Seq(Command) /\ Len(t) = Len(s) - 1 /\ DOMAIN t = 1..(Len(s) - 1)
      /\ \A i \in 1..(Len(s) - 1) : t[i] = s[i + 1]
  BY <1>1, <1>2
<1> HIDE DEF t
<1>4. \A i \in WritesOf(t) :
        i \in Nat /\ i + 1 \in WritesOf(s) /\ t[i] = s[i + 1]
  BY <1>1, <1>3 DEF WritesOf
<1>5. \A i \in WritesOf(s) \ {1} :
        i \in Nat /\ i - 1 \in WritesOf(t) /\ t[i - 1] = s[i]
  BY <1>1, <1>3 DEF WritesOf
<1>6. 1 \in WritesOf(s) <=> Head(s).op = "write"
  BY <1>1 DEF WritesOf
<1> QED
  BY <1>1, <1>3, <1>4, <1>5, <1>6 DEF t

LEMMA ChainTailWrite ==
  ASSUME NEW s \in Seq(Command), NEW base \in Nat, NEW end \in Nat,
         s # <<>>, Head(s).op = "write", ChainIn(s, base, end)
  PROVE  /\ Head(s).lo = base /\ Head(s).hi \in Nat /\ base <= Head(s).hi
         /\ ChainIn(Tail(s), Head(s).hi, end)
<1> DEFINE t == Tail(s)
           h == s[1].hi
<1>1. /\ Len(s) \in Nat \ {0} /\ Head(s) = s[1]
      /\ t \in Seq(Command) /\ Len(t) = Len(s) - 1
      /\ \A i \in WritesOf(t) :
           i \in Nat /\ i + 1 \in WritesOf(s) /\ t[i] = s[i + 1]
      /\ \A i \in WritesOf(s) \ {1} :
           i \in Nat /\ i - 1 \in WritesOf(t) /\ t[i - 1] = s[i]
      /\ 1 \in WritesOf(s)
  BY TailCommands
<1>2. WritesOf(s) \subseteq 1..Len(s)
  BY CommandFields
<1>3. \A i \in WritesOf(s) : s[i].lo \in Nat /\ s[i].hi \in Nat
  BY CommandFields
<1>4. s[1].lo = base /\ base <= h /\ h \in Nat
  <2>1. FollowsIn(s, base, s[1].lo, 1) /\ s[1].lo <= s[1].hi
    BY <1>1 DEF ChainIn
  <2>2. \A k \in WritesOf(s) : ~(k < 1)
    BY <1>1, <1>2
  <2> QED
    BY <1>1, <1>3, <2>1, <2>2 DEF FollowsIn
<1> HIDE DEF t, h
<1>5. ASSUME NEW at \in Nat, NEW i \in Nat \ {0}, FollowsIn(s, base, at, i + 1)
      PROVE  FollowsIn(t, h, at, i)
  <2>1. h <= at
    BY <1>1, <1>5 DEF FollowsIn, h
  <2>2. \A k \in WritesOf(t) : k < i => t[k].hi <= at
    BY <1>1, <1>5 DEF FollowsIn
  <2>3. CASE at = base
    <3>1. at = h
      BY <1>4, <2>1, <2>3
    <3> QED
      BY <2>1, <2>2, <3>1 DEF FollowsIn
  <2>4. ASSUME NEW k \in WritesOf(s), k < i + 1, s[k].hi = at
        PROVE  FollowsIn(t, h, at, i)
    <3>1. CASE k = 1
      BY <2>1, <2>2, <2>4, <3>1 DEF FollowsIn, h
    <3>2. CASE k # 1
      <4>1. k - 1 \in WritesOf(t) /\ t[k - 1].hi = at /\ k - 1 < i
        BY <1>1, <2>4, <3>2
      <4> QED
        BY <2>1, <2>2, <4>1 DEF FollowsIn
    <3> QED
      BY <3>1, <3>2
  <2> QED
    BY <1>5, <2>3, <2>4 DEF FollowsIn
<1>6. ASSUME NEW i \in WritesOf(t)
      PROVE  FollowsIn(t, h, t[i].lo, i) /\ t[i].lo <= t[i].hi
  <2>1. i \in Nat \ {0} /\ i + 1 \in WritesOf(s) /\ t[i] = s[i + 1]
    BY <1>1, CommandFields
  <2>2. FollowsIn(s, base, s[i + 1].lo, i + 1) /\ s[i + 1].lo <= s[i + 1].hi
    BY <2>1 DEF ChainIn
  <2> QED
    BY <1>3, <1>5, <2>1, <2>2
<1>7. FollowsIn(t, h, end, Len(t) + 1)
  <2>1. FollowsIn(s, base, end, Len(s) + 1) /\ Len(s) = Len(t) + 1
    BY <1>1 DEF ChainIn
  <2> QED
    BY <1>1, <1>5, <2>1
<1> QED
  BY <1>1, <1>4, <1>6, <1>7 DEF ChainIn, t, h

LEMMA ChainTailFlush ==
  ASSUME NEW s \in Seq(Command), NEW base \in Nat, NEW end \in Nat,
         s # <<>>, Head(s).op = "flush", ChainIn(s, base, end)
  PROVE  ChainIn(Tail(s), base, end)
<1> DEFINE t == Tail(s)
<1>1. /\ Len(s) \in Nat \ {0}
      /\ t \in Seq(Command) /\ Len(t) = Len(s) - 1
      /\ \A i \in WritesOf(t) :
           i \in Nat /\ i + 1 \in WritesOf(s) /\ t[i] = s[i + 1]
      /\ \A i \in WritesOf(s) \ {1} :
           i \in Nat /\ i - 1 \in WritesOf(t) /\ t[i - 1] = s[i]
      /\ 1 \notin WritesOf(s)
  BY TailCommands
<1> HIDE DEF t
<1>2. ASSUME NEW at, NEW i \in Nat, FollowsIn(s, base, at, i + 1)
      PROVE  FollowsIn(t, base, at, i)
  <2>1. base <= at /\ \A k \in WritesOf(t) : k < i => t[k].hi <= at
    BY <1>1, <1>2 DEF FollowsIn
  <2>2. ASSUME NEW k \in WritesOf(s), k < i + 1, s[k].hi = at
        PROVE  \E j \in WritesOf(t) : j < i /\ t[j].hi = at
    <3>1. k - 1 \in WritesOf(t) /\ t[k - 1].hi = at /\ k - 1 < i
      BY <1>1, <2>2
    <3> QED
      BY <3>1
  <2> QED
    BY <1>2, <2>1, <2>2 DEF FollowsIn
<1>3. ASSUME NEW i \in WritesOf(t)
      PROVE  FollowsIn(t, base, t[i].lo, i) /\ t[i].lo <= t[i].hi
  <2>1. i \in Nat /\ i + 1 \in WritesOf(s) /\ t[i] = s[i + 1]
    BY <1>1
  <2> QED
    BY <1>2, <2>1 DEF ChainIn
<1>4. FollowsIn(t, base, end, Len(t) + 1)
  <2>1. FollowsIn(s, base, end, Len(s) + 1) /\ Len(s) = Len(t) + 1
    BY <1>1 DEF ChainIn
  <2> QED
    BY <1>1, <1>2, <2>1
<1> QED
  BY <1>3, <1>4 DEF ChainIn, t

\* BytesInOrder's way to say it.
LEMMA ChainIsOrder ==
  ASSUME NEW s \in Seq(Command), NEW base \in Nat, NEW end \in Nat
  PROVE  LET Before(i) == {base} \cup {s[j].hi : j \in {k \in WritesOf(s) : k < i}}
             Follows(at, i) == at \in Before(i) /\ \A b \in Before(i) : b <= at
         IN ChainIn(s, base, end) <=>
              /\ \A i \in WritesOf(s) : Follows(s[i].lo, i) /\ s[i].lo <= s[i].hi
              /\ Follows(end, Len(s) + 1)
<1> DEFINE Before(i) == {base} \cup {s[j].hi : j \in {k \in WritesOf(s) : k < i}}
           Follows(at, i) == at \in Before(i) /\ \A b \in Before(i) : b <= at
<1>1. ASSUME NEW at, NEW i
      PROVE  FollowsIn(s, base, at, i) <=> Follows(at, i)
  BY DEF FollowsIn
<1> HIDE DEF Follows
<1>2. ChainIn(s, base, end) <=>
        /\ \A i \in WritesOf(s) : Follows(s[i].lo, i) /\ s[i].lo <= s[i].hi
        /\ Follows(end, Len(s) + 1)
  BY <1>1 DEF ChainIn
<1> QED
  BY <1>2 DEF Follows

(***************************************************************************)
(* Draining: where the first error is, and what a drain leaves.            *)
(***************************************************************************)
LEMMA FirstErrorExists ==
  ASSUME NEW s \in Seq(Status)
  PROVE  \E n \in 0..Len(s) :
           /\ \A i \in 1..n : ~IsError(s[i])
           /\ n < Len(s) => IsError(s[n + 1])
<1> DEFINE E == {i \in 1..Len(s) : IsError(s[i])}
           R == {ss \in Nat \X Nat : ss[1] < ss[2]}
<1>1. Len(s) \in Nat
  BY LenProperties
<1>2. CASE E = {}
  BY <1>1, <1>2
<1>3. CASE E # {}
  <2>1. IsWellFoundedOn(R, Nat) /\ E \subseteq Nat
    BY NatLessThanWellFounded DEF OpToRel
  <2> HIDE DEF R
  <2>2. PICK m \in E : \A y \in E : ~(<<y, m>> \in R)
    BY <1>3, <2>1, WFMin
  <2>3. \A y \in E : ~(y < m)
    BY <2>1, <2>2 DEF R
  <2>4. m - 1 \in 0..Len(s) /\ (m - 1) + 1 = m /\ IsError(s[m])
    BY <1>1
  <2>5. \A i \in 1..(m - 1) : ~IsError(s[i])
    <3> TAKE i \in 1..(m - 1)
    <3>1. i \in 1..Len(s) /\ i < m
      BY <1>1
    <3> QED
      BY <2>3, <3>1
  <2> QED
    BY <2>4, <2>5
<1> QED
  BY <1>2, <1>3

LEMMA DrainPoint ==
  ASSUME statuses \in Seq(Status)
  PROVE  /\ OksBeforeError \in 0..Len(statuses)
         /\ \A i \in 1..OksBeforeError : statuses[i] = "ok"
         /\ OksBeforeError < Len(statuses) => statuses[OksBeforeError + 1] # "ok"
<1> DEFINE P(n) == /\ \A i \in 1..n : ~IsError(statuses[i])
                   /\ n < Len(statuses) => IsError(statuses[n + 1])
<1>1. \E n \in 0..Len(statuses) : P(n)
  BY FirstErrorExists
<1>2. OksBeforeError = CHOOSE n \in 0..Len(statuses) : P(n)
  BY DEF OksBeforeError
<1> HIDE DEF P
<1>3. OksBeforeError \in 0..Len(statuses) /\ P(OksBeforeError)
  BY <1>1, <1>2
<1> QED
  BY <1>3 DEF P, IsError

(***************************************************************************)
(* The inductive invariant.                                                *)
(***************************************************************************)
\* Where the first queued command starts.
Base == IF InHand = 1 THEN job[2] ELSE Len(written)

Chain ==
  /\ written = [i \in 1..Len(written) |-> i]
  /\ bg \in {"write", "wait"} => job[1] = Len(written)
  /\ Running => ChainIn(cmds, Base, sent) /\ sent <= accepted

Counted ==
  Running =>
    num_cmds_pending =
      Len(cmds) + InHand + Num(statuses, "ok") + flush_errors

Lifetimes ==
  /\ alive <=> client \notin {"Dropping", "Dropped"}
  /\ alive => Running

\* Where the token of the failed write is: nowhere, in the last status, in
\* the condvar or in the toggle.
NoWriteError(s) == \A i \in 1..Len(s) : s[i] # "write_error"
LastIsWriteError(s) ==
  /\ Len(s) > 0 /\ s[Len(s)] = "write_error"
  /\ \A i \in 1..Len(s) : i < Len(s) => s[i] # "write_error"

Handshake ==
  alive =>
    \/ bg # "wait" /\ ~retry /\ ~enabled /\ NoWriteError(statuses)
    \/ bg = "wait" /\ ~retry /\ ~enabled /\ LastIsWriteError(statuses)
    \/ bg = "wait" /\ (retry <=> ~enabled) /\ statuses = <<>>

FlushDone == answer = "flushed" => Len(written) = sent /\ cmds = <<>> /\ InHand = 0

IInv ==
  TypeOK /\ Chain /\ Counted /\ Lifetimes /\ Handshake /\ FlushDone

\* Nothing but oks: all of them are counted off, and no token is lost.
LEMMA DrainAllStep ==
  ASSUME IInv, alive, NEW k \in {0, 1}, DrainAll(k)
  PROVE  /\ statuses' = <<>>
         /\ num_cmds_pending' \in Nat
         /\ num_cmds_pending' = Len(cmds) + InHand + flush_errors + k
         /\ Handshake /\ (bg = "wait" => statuses = <<>>)
<1>1. /\ statuses \in Seq(Status) /\ num_cmds_pending \in Nat /\ flush_errors \in Nat
      /\ Len(cmds) \in Nat /\ InHand \in {0, 1} /\ cmds \in Seq(Command)
  BY LenProperties DEF IInv, TypeOK, Status, InHand
<1>2. /\ OksBeforeError = Len(statuses) /\ Len(statuses) \in Nat
      /\ \A i \in 1..Len(statuses) : statuses[i] = "ok"
  BY <1>1, DrainPoint, LenProperties DEF DrainAll, DrainHitsError
<1>3. Num(statuses, "ok") = Len(statuses)
  BY <1>1, <1>2, NumAll
<1>4. num_cmds_pending = Len(cmds) + InHand + Len(statuses) + flush_errors
  BY <1>3 DEF IInv, Counted, Lifetimes
<1>5. num_cmds_pending' = num_cmds_pending - Len(statuses) + k /\ statuses' = <<>>
  BY <1>2 DEF DrainAll
<1>6. ~LastIsWriteError(statuses)
  BY <1>2 DEF LastIsWriteError
<1>7. bg = "wait" => statuses = <<>>
  BY <1>6 DEF IInv, Handshake
<1> QED
  BY <1>1, <1>2, <1>4, <1>5, <1>7 DEF IInv

\* The first error: it and the oks before it go, and its token with it.
LEMMA DrainToErrorStep ==
  ASSUME IInv, alive, DrainToError, UNCHANGED <<bg, enabled>>
  PROVE  /\ statuses' \in Seq(Status)
         /\ num_cmds_pending' \in Nat
         /\ num_cmds_pending' =
              Len(cmds) + InHand + Num(statuses', "ok") + flush_errors
         /\ retry' \in BOOLEAN /\ answer' = "error"
         /\ \/ bg' # "wait" /\ ~retry' /\ ~enabled' /\ NoWriteError(statuses')
            \/ bg' = "wait" /\ ~retry' /\ ~enabled' /\ LastIsWriteError(statuses')
            \/ bg' = "wait" /\ (retry' <=> ~enabled') /\ statuses' = <<>>
<1> DEFINE n == OksBeforeError
           t == SubSeq(statuses, n + 2, Len(statuses))
<1>1. /\ statuses \in Seq(Status) /\ num_cmds_pending \in Nat /\ flush_errors \in Nat
      /\ Len(cmds) \in Nat /\ InHand \in {0, 1} /\ enabled \in BOOLEAN
  BY LenProperties DEF IInv, TypeOK, Status, InHand
<1>2. /\ Len(statuses) \in Nat /\ n \in Nat /\ n < Len(statuses)
      /\ \A i \in 1..n : statuses[i] = "ok"
      /\ statuses[n + 1] # "ok"
  <2>1. Len(statuses) \in Nat
    BY <1>1, LenProperties
  <2>2. OksBeforeError < Len(statuses)
    BY DEF DrainToError, DrainHitsError
  <2> QED
    BY <1>1, <2>1, <2>2, DrainPoint
<1>3. /\ statuses' = t
      /\ num_cmds_pending' = num_cmds_pending - n
      /\ retry' \in BOOLEAN /\ (retry' <=> statuses[n + 1] = "write_error")
      /\ answer' = "error"
  <2>1. retry' = (statuses[n + 1] = "write_error")
    BY Zenon DEF DrainToError
  <2>2. retry' \in BOOLEAN /\ (retry' <=> statuses[n + 1] = "write_error")
    BY <2>1, Zenon
  <2> QED
    BY <2>2 DEF DrainToError
<1> HIDE DEF n
<1>4. /\ t \in Seq(Status) /\ Len(t) = Len(statuses) - n - 1
      /\ \A i \in 1..Len(t) : t[i] = statuses[n + 1 + i]
      /\ Num(statuses, "ok") = Num(t, "ok") + n
  BY <1>1, <1>2, NumSuffix
<1>5. Num(t, "ok") \in Nat
  <2>1. Num(t, "ok") \in 0..Len(t)
    BY <1>4, NumType
  <2> QED
    BY <2>1
<1> HIDE DEF t
<1>6. /\ num_cmds_pending = Len(cmds) + InHand + (Num(t, "ok") + n) + flush_errors
  BY <1>4 DEF IInv, Counted, Lifetimes
<1>7. /\ num_cmds_pending' = Len(cmds) + InHand + Num(t, "ok") + flush_errors
      /\ num_cmds_pending' \in Nat
  BY <1>1, <1>2, <1>3, <1>5, <1>6
<1>8. \/ bg # "wait" /\ ~enabled /\ NoWriteError(statuses)
      \/ bg = "wait" /\ ~enabled /\ LastIsWriteError(statuses)
  <2>1. statuses # <<>>
    BY <1>2
  <2> QED
    BY <2>1 DEF IInv, Handshake
<1>9. CASE bg # "wait" /\ ~enabled /\ NoWriteError(statuses)
  <2>1. ~retry'
    BY <1>2, <1>3, <1>9 DEF NoWriteError
  <2>2. NoWriteError(t)
    BY <1>2, <1>4, <1>9 DEF NoWriteError
  <2> QED
    BY <1>3, <1>4, <1>7, <1>9, <2>1, <2>2
<1>10. CASE bg = "wait" /\ ~enabled /\ LastIsWriteError(statuses)
  <2>1. CASE n + 1 = Len(statuses)
    <3>1. retry' /\ Len(t) = 0
      BY <1>2, <1>3, <1>4, <1>10, <2>1 DEF LastIsWriteError
    <3>2. t = <<>>
      BY <1>4, <3>1, EmptySeq
    <3> QED
      BY <1>3, <1>4, <1>7, <1>10, <3>1, <3>2
  <2>2. CASE n + 1 < Len(statuses)
    <3>1. ~retry'
      BY <1>2, <1>3, <1>10, <2>2 DEF LastIsWriteError
    <3>2. LastIsWriteError(t)
      <4>1. Len(t) \in 1..Len(t) /\ n + 1 + Len(t) = Len(statuses)
        BY <1>2, <1>4, <2>2
      <4>2. t[Len(t)] = "write_error"
        BY <1>4, <1>10, <4>1 DEF LastIsWriteError
      <4>3. ASSUME NEW i \in 1..Len(t), i < Len(t) PROVE t[i] # "write_error"
        <5>1. n + 1 + i \in 1..Len(statuses) /\ n + 1 + i < Len(statuses)
          BY <1>2, <4>1, <4>3
        <5> QED
          BY <1>4, <1>10, <5>1 DEF LastIsWriteError
      <4> QED
        BY <4>1, <4>2, <4>3 DEF LastIsWriteError
    <3> QED
      BY <1>3, <1>4, <1>7, <1>10, <3>1, <3>2
  <2> QED
    BY <1>2, <2>1, <2>2
<1> QED
  BY <1>8, <1>9, <1>10

\* The bytes of one call of the writer continue those it took before.
LEMMA WrittenExtends ==
  ASSUME NEW w \in Seq(Nat), NEW k \in Nat,
         w = [i \in 1..Len(w) |-> i]
  PROVE  LET v == w \o [i \in 1..k |-> Len(w) + i] IN
         /\ v \in Seq(Nat) /\ Len(v) = Len(w) + k
         /\ v = [i \in 1..Len(v) |-> i]
<1> DEFINE x == [i \in 1..k |-> Len(w) + i]
           v == w \o x
<1>1. Len(w) \in Nat /\ \A i \in 1..Len(w) : w[i] = i
  BY LenProperties
<1>2. x \in Seq(Nat) /\ Len(x) = k /\ \A i \in 1..k : x[i] = Len(w) + i
  BY <1>1
<1> HIDE DEF x
<1>3. /\ v \in Seq(Nat) /\ Len(v) = Len(w) + Len(x)
      /\ \A i \in 1..(Len(w) + Len(x)) :
           v[i] = IF i <= Len(w) THEN w[i] ELSE x[i - Len(w)]
  BY <1>2, ConcatProperties, ZenonT(30)
<1> HIDE DEF v
<1>4. \A i \in 1..Len(v) : v[i] = i
  <2> TAKE i \in 1..Len(v)
  <2>1. CASE i <= Len(w)
    BY <1>1, <1>2, <1>3, <2>1
  <2>2. CASE i > Len(w)
    <3>1. i - Len(w) \in 1..k /\ Len(w) + (i - Len(w)) = i
      BY <1>1, <1>2, <1>3, <2>2
    <3>2. v[i] = x[i - Len(w)]
      BY <1>1, <1>2, <1>3, <2>2
    <3> QED
      BY <1>2, <3>1, <3>2
  <2> QED
    BY <1>1, <1>2, <1>3, <2>1, <2>2
<1>5. DOMAIN v = 1..Len(v) /\ v = [i \in DOMAIN v |-> v[i]]
  BY <1>3, LenProperties
<1>6. v = [i \in 1..Len(v) |-> i]
  BY <1>4, <1>5
<1> QED
  BY <1>2, <1>3, <1>6 DEF v, x

LEMMA AppendStatus ==
  ASSUME NEW s \in Seq(Status), NEW x \in Status
  PROVE  /\ Append(s, x) \in Seq(Status) /\ Len(s) \in Nat
         /\ Len(Append(s, x)) = Len(s) + 1 /\ Append(s, x)[Len(s) + 1] = x
         /\ \A i \in 1..Len(s) : Append(s, x)[i] = s[i]
         /\ Num(s, "ok") \in Nat
         /\ Num(Append(s, x), "ok") = Num(s, "ok") + (IF x = "ok" THEN 1 ELSE 0)
         /\ NoWriteError(s) =>
              IF x = "write_error" THEN LastIsWriteError(Append(s, x))
                                   ELSE NoWriteError(Append(s, x))
<1>1. /\ Append(s, x) \in Seq(Status) /\ Len(s) \in Nat
      /\ Len(Append(s, x)) = Len(s) + 1 /\ Append(s, x)[Len(s) + 1] = x
      /\ \A i \in 1..Len(s) : Append(s, x)[i] = s[i]
  BY LenProperties
<1>2. Num(s, "ok") \in 0..Len(s)
  BY NumType
<1>3. Num(Append(s, x), "ok") = Num(s, "ok") + (IF x = "ok" THEN 1 ELSE 0)
  BY NumAppend
<1> DEFINE t == Append(s, x)
<1>4. /\ Len(t) = Len(s) + 1 /\ t[Len(s) + 1] = x
      /\ \A i \in 1..Len(s) : t[i] = s[i]
  BY <1>1
<1> HIDE DEF t
<1>5. ASSUME NoWriteError(s)
      PROVE  IF x = "write_error" THEN LastIsWriteError(t) ELSE NoWriteError(t)
  BY <1>1, <1>4, <1>5 DEF LastIsWriteError, NoWriteError
<1>6. Num(s, "ok") \in Nat
  BY <1>1, <1>2
<1> QED
  BY <1>1, <1>3, <1>5, <1>6 DEF t

LEMMA InvInit == Init => IInv
<1> SUFFICES ASSUME Init PROVE IInv
  OBVIOUS
<1>1. cmds = <<>> /\ statuses = <<>> /\ written = <<>> /\ bg = "recv" /\ sent = 0
  BY DEF Init
<1>2. TypeOK
  <2>1. /\ <<>> \in Seq(Command) /\ <<>> \in Seq({"ok", "write_error", "flush_error"})
        /\ <<>> \in Seq(Nat) /\ <<0, 0>> \in Nat \X Nat
    OBVIOUS
  <2> QED
    BY <2>1 DEF Init, TypeOK
<1>3. Chain
  <2>1. Len(written) = 0 /\ written = [i \in 1..Len(written) |-> i]
    BY <1>1
  <2>2. Base = 0
    BY <1>1, <2>1 DEF Base, InHand
  <2>3. ChainIn(cmds, Base, sent)
    BY <1>1, <2>2, ChainEmpty
  <2> QED
    BY <1>1, <2>1, <2>3 DEF Chain, Init
<1>4. Counted
  BY <1>1, NumEmpty DEF Counted, Init, InHand
<1>5. Lifetimes /\ FlushDone
  BY DEF Init, Lifetimes, FlushDone, Running
<1>6. Handshake
  BY <1>1 DEF Init, Handshake, NoWriteError
<1> QED
  BY <1>2, <1>3, <1>4, <1>5, <1>6 DEF IInv

LEMMA InvNext == IInv /\ [Next]_vars => IInv'
<1> SUFFICES ASSUME IInv, [Next]_vars PROVE IInv'
  OBVIOUS
<1> USE DEF clientVars, shared, bgVars, bounds
<1>a. /\ cmds \in Seq(Command) /\ Len(cmds) \in Nat
      /\ statuses \in Seq(Status) /\ Len(statuses) \in Nat
      /\ accepted \in Nat /\ sent \in Nat /\ num_cmds_pending \in Nat
      /\ written \in Seq(Nat) /\ Len(written) \in Nat
      /\ job \in Nat \X Nat /\ job[1] \in Nat /\ job[2] \in Nat
      /\ InHand \in {0, 1} /\ Base \in Nat
      /\ flush_errors \in Nat /\ errors \in Nat /\ flushed \in Nat /\ flushes \in Nat
  BY LenProperties DEF IInv, TypeOK, Status, InHand, Base
\* The thread leaves a step of the controller's: what it holds is the same.
<1>b. ASSUME UNCHANGED bgVars
      PROVE  InHand' = InHand /\ Base' = Base /\ (Running' <=> Running)
  BY <1>b DEF InHand, Base, Running
\* The numbers alone.
<1>c. /\ Len(cmds) \in Nat /\ InHand \in {0, 1} /\ flush_errors \in Nat
      /\ num_cmds_pending \in Nat /\ Num(statuses, "ok") \in Nat
      /\ Running => num_cmds_pending =
                      Len(cmds) + InHand + Num(statuses, "ok") + flush_errors
  <2>1. Num(statuses, "ok") \in 0..Len(statuses)
    BY <1>a, NumType
  <2> QED
    BY <1>a, <2>1 DEF IInv, Counted
<1>1. CASE UNCHANGED vars
  <2>1. UNCHANGED <<bgVars, client, answer, accepted, sent, num_cmds_pending,
                    retry, scheduled, cmds, statuses, enabled, alive, flush_waker,
                    bounds>>
    BY <1>1 DEF vars
  <2>2. TypeOK'
    BY <2>1 DEF IInv, TypeOK
  <2>3. Chain' /\ Counted' /\ Lifetimes' /\ FlushDone'
    BY <1>b, <2>1 DEF IInv, Chain, Counted, Lifetimes, FlushDone
  <2>4. Handshake'
    BY <2>1 DEF IInv, Handshake
  <2> QED
    BY <2>2, <2>3, <2>4 DEF IInv
<1>2. CASE WriteRetry
  <2>1. /\ UNCHANGED bgVars /\ alive /\ retry
    BY <1>2 DEF WriteRetry, IInv, Lifetimes
  <2> QED
    BY <1>2, <1>b, <2>1
    DEF WriteRetry, IInv, TypeOK, Chain, Counted, Lifetimes, Handshake, FlushDone
<1>3. CASE Write
  <2>1. /\ UNCHANGED <<bgVars, alive, enabled, scheduled, flush_waker, bounds>>
        /\ client' = "Ready" /\ alive /\ Running /\ Running'
    BY <1>3, <1>b DEF Write, IInv, Lifetimes
  <2>2. PICK n \in 0..MaxChunk :
          \/ WriteAccept(n)
          \/ DrainToError /\ UNCHANGED <<accepted, sent, cmds>>
    BY <1>3 DEF Write
  <2>3. CASE DrainToError /\ UNCHANGED <<accepted, sent, cmds>>
    <3>1. /\ statuses' \in Seq(Status)
          /\ num_cmds_pending' \in Nat
          /\ num_cmds_pending' =
               Len(cmds) + InHand + Num(statuses', "ok") + flush_errors
          /\ retry' \in BOOLEAN /\ answer' = "error"
          /\ \/ bg' # "wait" /\ ~retry' /\ ~enabled' /\ NoWriteError(statuses')
             \/ bg' = "wait" /\ ~retry' /\ ~enabled' /\ LastIsWriteError(statuses')
             \/ bg' = "wait" /\ (retry' <=> ~enabled') /\ statuses' = <<>>
      BY <2>1, <2>3, DrainToErrorStep
    <3>2. TypeOK'
      BY <2>1, <2>3, <3>1 DEF IInv, TypeOK, Status
    <3>3. Chain' /\ Counted' /\ Lifetimes'
      BY <1>b, <2>1, <2>3, <3>1 DEF IInv, Chain, Counted, Lifetimes
    <3>4. Handshake' /\ FlushDone'
      BY <3>1 DEF Handshake, FlushDone
    <3> QED
      BY <3>2, <3>3, <3>4 DEF IInv
  <2>4. CASE WriteAccept(n)
    <3> DEFINE ready == accepted + n - sent >= buffer_min_size
               k == IF ready THEN 1 ELSE 0
    <3>1. /\ DrainAll(k) /\ accepted' = accepted + n
          /\ cmds' = IF ready THEN Append(cmds, WriteCmd(sent, accepted')) ELSE cmds
          /\ sent' = IF ready THEN accepted' ELSE sent
          /\ answer' = "wrote" /\ retry' = retry
      BY <2>4 DEF WriteAccept
    <3>2. k \in {0, 1} /\ n \in Nat /\ accepted' \in Nat /\ sent' \in Nat
      BY <1>a, <3>1, SizesAssumption
    <3>3. /\ statuses' = <<>>
          /\ num_cmds_pending' \in Nat
          /\ num_cmds_pending' = Len(cmds) + InHand + flush_errors + k
          /\ Handshake /\ (bg = "wait" => statuses = <<>>)
      BY <2>1, <3>1, <3>2, DrainAllStep
    <3>4. Num(statuses', "ok") = 0
      BY <3>3, NumEmpty
    <3>5. ChainIn(cmds, Base, sent) /\ sent <= accepted
      BY <2>1 DEF IInv, Chain
    <3>6. /\ cmds' \in Seq(Command) /\ Len(cmds') = Len(cmds) + k
          /\ ChainIn(cmds', Base, sent') /\ sent' <= accepted'
      <4>1. CASE ready
        <5>1. sent <= accepted' /\ WriteCmd(sent, accepted') \in Command
          BY <1>a, <3>1, <3>2, <3>5, <4>1, SizesAssumption DEF Command, WriteCmd
        <5>2. ChainIn(cmds', Base, accepted')
          BY <1>a, <3>1, <3>2, <3>5, <4>1, <5>1, ChainAppendWrite
        <5> QED
          BY <1>a, <3>1, <3>2, <4>1, <5>1, <5>2
      <4>2. CASE ~ready
        BY <1>a, <3>1, <3>2, <3>5, <4>2
      <4> QED
        BY <4>1, <4>2
    <3> HIDE DEF ready, k
    <3>7. TypeOK'
      BY <2>1, <3>1, <3>2, <3>3, <3>6 DEF IInv, TypeOK, Status
    <3>8. Chain' /\ Lifetimes'
      BY <1>b, <2>1, <3>6 DEF IInv, Chain, Lifetimes
    <3>9. Counted'
      BY <1>a, <1>b, <2>1, <3>2, <3>3, <3>4, <3>6 DEF Counted
    <3>10. Handshake'
      BY <2>1, <3>1, <3>3 DEF Handshake, NoWriteError, LastIsWriteError
    <3>11. FlushDone'
      BY <3>1 DEF FlushDone
    <3> QED
      BY <3>7, <3>8, <3>9, <3>10, <3>11 DEF IInv
  <2> QED
    BY <2>2, <2>3, <2>4
<1>4. CASE FlushBegin
  <2>1. /\ UNCHANGED <<bgVars, statuses, alive, enabled, retry, sent, accepted,
                       flush_waker, buffer_min_size, flush_errors, errors>>
        /\ answer' = "none" /\ client' = "FlushSent" /\ scheduled' = FALSE
        /\ alive /\ Running /\ Running'
    BY <1>4, <1>b DEF FlushBegin, IInv, Lifetimes
  <2>2. ChainIn(cmds, Base, sent)
    BY <2>1 DEF IInv, Chain
  <2>3. \/ UNCHANGED <<cmds, num_cmds_pending, flushes>>
        \/ /\ cmds' = Append(cmds, FlushCmd)
           /\ num_cmds_pending' = num_cmds_pending + 1
           /\ flushes' = flushes + 1
    BY <1>4 DEF FlushBegin
  <2>4. /\ cmds' \in Seq(Command) /\ num_cmds_pending' \in Nat /\ flushes' \in Nat
        /\ num_cmds_pending' - Len(cmds') = num_cmds_pending - Len(cmds)
        /\ Len(cmds') \in Nat /\ ChainIn(cmds', Base, sent)
    <3>1. FlushCmd \in Command
      BY DEF Command
    <3>2. ChainIn(Append(cmds, FlushCmd), Base, sent)
      BY <1>a, <2>2, ChainAppendFlush
    <3>3. CASE UNCHANGED <<cmds, num_cmds_pending, flushes>>
      BY <1>a, <2>2, <3>3
    <3>4. CASE /\ cmds' = Append(cmds, FlushCmd)
               /\ num_cmds_pending' = num_cmds_pending + 1
               /\ flushes' = flushes + 1
      <4>1. /\ cmds' \in Seq(Command) /\ Len(cmds') = Len(cmds) + 1
            /\ ChainIn(cmds', Base, sent)
        BY <1>a, <3>1, <3>2, <3>4
      <4>2. /\ num_cmds_pending' \in Nat /\ flushes' \in Nat /\ Len(cmds') \in Nat
            /\ num_cmds_pending' - Len(cmds') = num_cmds_pending - Len(cmds)
        <5>1. flushes \in Nat
          BY <1>a
        <5> QED
          BY <1>c, <3>4, <4>1, <5>1
      <4> QED
        BY <4>1, <4>2
    <3> QED
      BY <2>3, <3>3, <3>4
  <2>5. TypeOK'
    BY <2>1, <2>4 DEF IInv, TypeOK
  <2>6. Chain' /\ Lifetimes' /\ Handshake' /\ FlushDone'
    BY <1>b, <2>1, <2>4 DEF IInv, Chain, Lifetimes, Handshake, FlushDone
  <2>7. Counted'
    <3>1. /\ Running /\ InHand' = InHand /\ statuses' = statuses
          /\ flush_errors' = flush_errors
      BY <1>b, <2>1
    <3>2. num_cmds_pending' =
            Len(cmds') + InHand + Num(statuses, "ok") + flush_errors
      BY <1>c, <2>4, <3>1
    <3> QED
      BY <3>1, <3>2 DEF Counted
  <2> QED
    BY <2>5, <2>6, <2>7 DEF IInv
<1>5. CASE FlushDrain
  <2>1. /\ UNCHANGED <<bgVars, alive, enabled, accepted, sent, cmds, scheduled,
                       flush_waker, bounds>>
        /\ alive /\ Running /\ Running'
    BY <1>5, <1>b DEF FlushDrain, IInv, Lifetimes
  <2>2. CASE DrainToError /\ client' = "Ready"
    <3>1. /\ statuses' \in Seq(Status)
          /\ num_cmds_pending' \in Nat
          /\ num_cmds_pending' =
               Len(cmds) + InHand + Num(statuses', "ok") + flush_errors
          /\ retry' \in BOOLEAN /\ answer' = "error"
          /\ \/ bg' # "wait" /\ ~retry' /\ ~enabled' /\ NoWriteError(statuses')
             \/ bg' = "wait" /\ ~retry' /\ ~enabled' /\ LastIsWriteError(statuses')
             \/ bg' = "wait" /\ (retry' <=> ~enabled') /\ statuses' = <<>>
      BY <2>1, <2>2, DrainToErrorStep
    <3>2. TypeOK'
      BY <2>1, <2>2, <3>1 DEF IInv, TypeOK, Status
    <3>3. Chain' /\ Counted' /\ Lifetimes'
      BY <1>b, <2>1, <2>2, <3>1 DEF IInv, Chain, Counted, Lifetimes
    <3>4. Handshake' /\ FlushDone'
      BY <3>1 DEF Handshake, FlushDone
    <3> QED
      BY <3>2, <3>3, <3>4 DEF IInv
  <2>3. CASE /\ DrainAll(0) /\ retry' = retry
             /\ IF num_cmds_pending' > 0
                  THEN client' = "FlushDrained" /\ answer' = answer
                  ELSE client' = "Ready" /\ answer' = "flushed"
    <3>1. /\ statuses' = <<>>
          /\ num_cmds_pending' \in Nat
          /\ num_cmds_pending' = Len(cmds) + InHand + flush_errors + 0
          /\ Handshake /\ (bg = "wait" => statuses = <<>>)
      BY <2>1, <2>3, DrainAllStep
    <3>2. Num(statuses', "ok") = 0
      BY <3>1, NumEmpty
    <3>3. TypeOK'
      BY <2>1, <2>3, <3>1 DEF IInv, TypeOK, Status
    <3>4. Chain' /\ Lifetimes'
      BY <1>b, <2>1, <2>3 DEF IInv, Chain, Lifetimes
    <3>5. Counted'
      BY <1>a, <1>b, <2>1, <3>1, <3>2 DEF Counted
    <3>6. Handshake'
      BY <2>1, <2>3, <3>1 DEF Handshake, NoWriteError, LastIsWriteError
    <3>7. FlushDone'
      <4>1. CASE num_cmds_pending' > 0
        BY <1>b, <2>1, <2>3, <4>1 DEF IInv, FlushDone
      <4>2. CASE ~(num_cmds_pending' > 0)
        <5>1. Len(cmds) = 0 /\ InHand = 0
          BY <1>a, <3>1, <4>2
        <5>2. cmds = <<>>
          BY <1>a, <5>1, EmptySeq
        <5>3. ChainIn(<<>>, Base, sent) /\ Base = Len(written)
          BY <2>1, <5>1, <5>2 DEF IInv, Chain, Base
        <5>4. Len(written) = sent
          BY <1>a, <5>3, ChainEmpty
        <5> QED
          BY <1>b, <2>1, <5>1, <5>2, <5>4 DEF FlushDone
      <4> QED
        BY <4>1, <4>2
    <3> QED
      BY <3>3, <3>4, <3>5, <3>6, <3>7 DEF IInv
  <2> QED
    BY <1>5, <2>2, <2>3 DEF FlushDrain
<1>6. CASE FlushPark
  <2>1. UNCHANGED bgVars
    BY <1>6 DEF FlushPark
  <2> QED
    BY <1>6, <1>b, <2>1
    DEF FlushPark, IInv, TypeOK, Chain, Counted, Lifetimes, Handshake, FlushDone
<1>7. CASE DropBegin
  <2>1. UNCHANGED bgVars
    BY <1>7 DEF DropBegin
  <2> QED
    BY <1>7, <1>b, <2>1
    DEF DropBegin, IInv, TypeOK, Chain, Counted, Lifetimes, Handshake, FlushDone
<1>8. CASE DropEnd
  <2>1. /\ UNCHANGED <<bgVars, answer, accepted, sent, num_cmds_pending,
                       retry, scheduled, cmds, statuses, enabled, alive, flush_waker,
                       bounds>>
        /\ client = "Dropping" /\ client' = "Dropped"
    BY <1>8 DEF DropEnd
  <2>2. TypeOK'
    BY <2>1 DEF IInv, TypeOK
  <2>3. Chain' /\ Counted' /\ Lifetimes' /\ FlushDone'
    BY <1>b, <2>1 DEF IInv, Chain, Counted, Lifetimes, FlushDone
  <2>4. Handshake'
    BY <2>1 DEF IInv, Handshake
  <2> QED
    BY <2>2, <2>3, <2>4 DEF IInv
<1>9. CASE BgTakeWrite
  <2>1. /\ bg = "recv" /\ bg' = "write" /\ cmds # <<>> /\ Head(cmds).op = "write"
        /\ cmds' = Tail(cmds) /\ job' = <<Head(cmds).lo, Head(cmds).hi>>
        /\ UNCHANGED <<clientVars, scheduled, statuses, enabled, alive, flush_waker,
                       written, flushed, bounds>>
        /\ Running /\ Running' /\ InHand = 0 /\ InHand' = 1
    BY <1>9 DEF BgTakeWrite, Running, InHand
  <2>2. ChainIn(cmds, Len(written), sent) /\ Base = Len(written)
    BY <2>1 DEF IInv, Chain, Base
  <2>3. /\ Head(cmds).lo = Len(written) /\ Head(cmds).hi \in Nat
        /\ ChainIn(Tail(cmds), Head(cmds).hi, sent)
    BY <1>a, <2>1, <2>2, ChainTailWrite
  <2>4. Tail(cmds) \in Seq(Command) /\ Len(Tail(cmds)) = Len(cmds) - 1
    BY <1>a, <2>1, HeadTailProperties
  <2>5. job' \in Nat \X Nat /\ job'[1] = Len(written) /\ Base' = Head(cmds).hi
    BY <1>a, <2>1, <2>3 DEF Base
  <2>6. TypeOK'
    BY <2>1, <2>4, <2>5 DEF IInv, TypeOK
  <2>7. Chain' /\ Lifetimes'
    BY <2>1, <2>3, <2>5 DEF IInv, Chain, Lifetimes
  <2>8. Counted'
    <3>1. Num(statuses, "ok") \in 0..Len(statuses)
      BY <1>a, NumType
    <3> QED
      BY <1>c, <2>1, <2>4, <3>1 DEF Counted
  <2>9. Handshake' /\ FlushDone'
    BY <2>1 DEF IInv, Handshake, FlushDone
  <2> QED
    BY <2>6, <2>7, <2>8, <2>9 DEF IInv
<1>10. CASE BgWrite
  <2>1. /\ bg = "write"
        /\ UNCHANGED <<clientVars, scheduled, cmds, enabled, alive, flush_waker,
                       flushed, bounds>>
        /\ Running /\ InHand = 1 /\ job[1] = Len(written) /\ Base = job[2]
    BY <1>10 DEF BgWrite, Running, InHand, Base, IInv, Chain
  <2>2. PICK k \in (IF job[1] = job[2] THEN {0} ELSE 1..(job[2] - job[1])) :
          /\ written' = written \o [i \in 1..k |-> job[1] + i]
          /\ job' = <<job[1] + k, job[2]>>
          /\ IF job[1] + k = job[2]
               THEN bg' = "recv" /\ statuses' = Append(statuses, "ok")
               ELSE UNCHANGED <<bg, statuses>>
    BY <1>10 DEF BgWrite
  <2>3. k \in Nat /\ job' \in Nat \X Nat
        /\ job'[1] = job[1] + k /\ job'[2] = job[2]
    BY <1>a, <2>2
  <2>4. /\ written' \in Seq(Nat) /\ Len(written') = Len(written) + k
        /\ written' = [i \in 1..Len(written') |-> i]
    <3>1. written = [i \in 1..Len(written) |-> i]
      BY DEF IInv, Chain
    <3> QED
      BY <1>a, <2>1, <2>2, <2>3, <3>1, WrittenExtends
  <2>5. /\ bg' \in {"write", "recv"} /\ Running' /\ statuses' \in Seq(Status)
        /\ Base' = Base
        /\ InHand' + Num(statuses', "ok") = InHand + Num(statuses, "ok")
        /\ InHand' \in {0, 1} /\ Num(statuses', "ok") \in Nat /\ Num(statuses, "ok") \in Nat
    <3>1. Num(statuses, "ok") \in 0..Len(statuses)
      BY <1>a, NumType
    <3>2. CASE job[1] + k = job[2]
      <4>1. bg' = "recv" /\ statuses' = Append(statuses, "ok")
        BY <2>2, <3>2
      <4>2. "ok" \in Status
        BY DEF Status
      <4>3. Num(statuses', "ok") = Num(statuses, "ok") + 1 /\ statuses' \in Seq(Status)
        BY <1>a, <4>1, <4>2, NumAppend
      <4>4. Base' = Len(written') /\ InHand' = 0 /\ Running'
        BY <4>1 DEF Base, InHand, Running
      <4> QED
        BY <1>a, <2>1, <2>3, <2>4, <3>1, <3>2, <4>1, <4>3, <4>4
    <3>3. CASE job[1] + k # job[2]
      <4>1. bg' = "write" /\ statuses' = statuses
        BY <2>1, <2>2, <3>3
      <4> QED
        BY <1>a, <2>1, <2>3, <3>1, <4>1 DEF Base, InHand, Running
    <3> QED
      BY <3>2, <3>3
  <2>6. TypeOK'
    BY <2>1, <2>3, <2>4, <2>5 DEF IInv, TypeOK, Status
  <2>7. Chain' /\ Lifetimes'
    <3>1. bg' \in {"write", "wait"} => job'[1] = Len(written')
      BY <2>1, <2>3, <2>4
    <3> QED
      BY <2>1, <2>4, <2>5, <3>1 DEF IInv, Chain, Lifetimes
  <2>8. Counted'
    <3>1. num_cmds_pending =
            Len(cmds) + InHand' + Num(statuses', "ok") + flush_errors
      <4>1. num_cmds_pending = Len(cmds) + (InHand + Num(statuses, "ok")) + flush_errors
        BY <1>c, <2>1
      <4>2. InHand + Num(statuses, "ok") = InHand' + Num(statuses', "ok")
        BY <2>5
      <4>3. num_cmds_pending = Len(cmds) + (InHand' + Num(statuses', "ok")) + flush_errors
        BY <4>1, <4>2
      <4>4. InHand' \in Nat /\ Num(statuses', "ok") \in Nat
        BY <2>5
      <4> QED
        BY <1>c, <4>3, <4>4
    <3> QED
      BY <2>1, <3>1 DEF Counted
  <2>9. Handshake'
    <3>1. CASE alive
      <4>1. ~retry /\ ~enabled /\ NoWriteError(statuses)
        BY <2>1, <3>1 DEF IInv, Handshake
      <4>2. NoWriteError(statuses')
        <5>1. "ok" \in Status /\ "ok" # "write_error"
          BY DEF Status
        <5>2. NoWriteError(Append(statuses, "ok"))
          BY <1>a, <4>1, <5>1, AppendStatus
        <5>3. statuses' = statuses \/ statuses' = Append(statuses, "ok")
          BY <2>2
        <5> QED
          BY <4>1, <5>2, <5>3
      <4> QED
        BY <2>1, <2>5, <4>1, <4>2 DEF Handshake
    <3>2. CASE ~alive
      BY <2>1, <3>2 DEF Handshake
    <3> QED
      BY <3>1, <3>2
  <2>10. FlushDone'
    BY <2>1 DEF IInv, FlushDone
  <2> QED
    BY <2>6, <2>7, <2>8, <2>9, <2>10 DEF IInv
<1>11. CASE BgWriteError
  <2>1. /\ bg = "write" /\ errors' = errors + 1
        /\ UNCHANGED <<clientVars, scheduled, cmds, enabled, alive, flush_waker,
                       job, written, flushed, buffer_min_size, flushes,
                       flush_errors>>
        /\ Running /\ InHand = 1 /\ Base = job[2]
    BY <1>11 DEF BgWriteError, Running, InHand, Base
  <2>2. CASE bg' = "panicked" /\ statuses' = statuses /\ client = "Dropped"
    <3>1. ~Running' /\ ~alive /\ InHand' = 0 /\ answer # "flushed"
      BY <2>1, <2>2 DEF Running, IInv, Lifetimes, InHand, FlushDone
    <3>2. TypeOK'
      BY <1>a, <2>1, <2>2 DEF IInv, TypeOK
    <3>3. Chain' /\ Counted' /\ Lifetimes' /\ FlushDone'
      BY <2>1, <2>2, <3>1 DEF IInv, Chain, Counted, Lifetimes, FlushDone
    <3>4. Handshake'
      BY <2>1, <3>1 DEF Handshake
    <3> QED
      BY <3>2, <3>3, <3>4 DEF IInv
  <2>3. CASE bg' = "wait" /\ statuses' = Append(statuses, "write_error")
    <3>1. Running' /\ InHand' = 1 /\ Base' = Base
      BY <2>1, <2>3 DEF Running, InHand, Base
    <3>2. "write_error" \in Status
      BY DEF Status
    <3>3. /\ Num(statuses', "ok") = Num(statuses, "ok") /\ statuses' \in Seq(Status)
          /\ NoWriteError(statuses) => LastIsWriteError(statuses')
      BY <1>a, <2>3, <3>2, AppendStatus
    <3>4. TypeOK'
      BY <2>1, <2>3, <3>3 DEF IInv, TypeOK, Status
    <3>5. Chain' /\ Lifetimes' /\ FlushDone' /\ Counted'
      BY <2>1, <2>3, <3>1, <3>3 DEF IInv, Chain, Lifetimes, FlushDone, Counted
    <3>6. Handshake'
      <4>1. CASE alive
        <5>1. ~retry /\ ~enabled /\ NoWriteError(statuses)
          BY <2>1, <4>1 DEF IInv, Handshake
        <5>2. LastIsWriteError(statuses')
          BY <3>3, <5>1
        <5> QED
          BY <2>1, <2>3, <5>1, <5>2 DEF Handshake
      <4>2. CASE ~alive
        BY <2>1, <4>2 DEF Handshake
      <4> QED
        BY <4>1, <4>2
    <3> QED
      BY <3>4, <3>5, <3>6 DEF IInv
  <2> QED
    BY <1>11, <2>2, <2>3 DEF BgWriteError
<1>12. CASE BgRetry
  <2>1. /\ bg = "wait"
        /\ UNCHANGED <<clientVars, scheduled, cmds, statuses, alive, flush_waker,
                       job, written, flushed, bounds>>
        /\ Running /\ InHand = 1 /\ answer # "flushed"
    BY <1>12 DEF BgRetry, Running, InHand, IInv, FlushDone
  <2>2. CASE ~alive /\ bg' = "returned" /\ enabled' = enabled
    <3>1. ~Running'
      BY <2>2 DEF Running
    <3> QED
      BY <2>1, <2>2, <3>1
      DEF IInv, TypeOK, Chain, Counted, Lifetimes, Handshake, FlushDone
  <2>3. CASE alive /\ enabled /\ enabled' = FALSE /\ bg' = "write"
    <3>1. Running' /\ InHand' = 1 /\ Base' = Base
      BY <2>1, <2>3 DEF Running, InHand, Base
    <3>2. ~retry /\ statuses = <<>>
      BY <2>1, <2>3 DEF IInv, Handshake
    <3>3. Handshake'
      BY <2>1, <2>3, <3>2 DEF Handshake, NoWriteError
    <3> QED
      BY <2>1, <2>3, <3>1, <3>3
      DEF IInv, TypeOK, Chain, Counted, Lifetimes, FlushDone
  <2> QED
    BY <1>12, <2>2, <2>3 DEF BgRetry
<1>13. CASE BgFlush
  <2>1. /\ bg = "recv" /\ bg' = "wake" /\ cmds # <<>> /\ Head(cmds).op = "flush"
        /\ cmds' = Tail(cmds)
        /\ UNCHANGED <<clientVars, scheduled, enabled, alive, flush_waker, job,
                       written, buffer_min_size, flushes>>
        /\ Running /\ Running' /\ InHand = 0 /\ InHand' = 0 /\ Base' = Base
    BY <1>13 DEF BgFlush, Running, InHand, Base
  <2>2. /\ Tail(cmds) \in Seq(Command) /\ Len(Tail(cmds)) = Len(cmds) - 1
        /\ ChainIn(Tail(cmds), Base, sent)
    <3>1. ChainIn(cmds, Base, sent)
      BY <2>1 DEF IInv, Chain
    <3> QED
      BY <1>a, <2>1, <3>1, HeadTailProperties, ChainTailFlush
  <2>3. PICK x \in {"ok", "flush_error"} :
          /\ statuses' = Append(statuses, x)
          /\ flushed' \in Nat /\ errors' \in Nat
          /\ flush_errors' = flush_errors + (IF x = "ok" THEN 0 ELSE 1)
    <3>1. CASE /\ statuses' = Append(statuses, "ok")
               /\ flushed' = Len(written)
               /\ UNCHANGED <<errors, flush_errors>>
      BY <1>a, <3>1
    <3>2. CASE /\ errors' = errors + 1 /\ flush_errors' = flush_errors + 1
               /\ statuses' = Append(statuses, "flush_error")
               /\ UNCHANGED flushed
      BY <1>a, <3>2
    <3> QED
      BY <1>13, <3>1, <3>2 DEF BgFlush
  <2>4. /\ x \in Status /\ x # "write_error"
        /\ statuses' \in Seq(Status) /\ flush_errors' \in Nat
        /\ Num(statuses', "ok") = Num(statuses, "ok") + (IF x = "ok" THEN 1 ELSE 0)
        /\ NoWriteError(statuses) => NoWriteError(statuses')
    <3>1. x \in Status /\ x # "write_error"
      BY DEF Status
    <3> QED
      BY <1>a, <2>3, <3>1, AppendStatus
  <2>5. TypeOK'
    BY <2>1, <2>2, <2>3, <2>4 DEF IInv, TypeOK, Status
  <2>6. Chain' /\ Lifetimes' /\ FlushDone'
    BY <2>1, <2>2 DEF IInv, Chain, Lifetimes, FlushDone
  <2>7. Counted'
    BY <1>c, <2>1, <2>2, <2>3, <2>4 DEF Counted
  <2>8. Handshake'
    BY <2>1, <2>4 DEF IInv, Handshake
  <2> QED
    BY <2>5, <2>6, <2>7, <2>8 DEF IInv
<1>14. CASE BgWake
  <2>1. /\ bg = "wake" /\ bg' = "recv"
        /\ UNCHANGED <<clientVars, shared, job, written, flushed, bounds>>
        /\ scheduled' \in BOOLEAN
        /\ Running /\ Running' /\ InHand = 0 /\ InHand' = 0 /\ Base' = Base
    BY <1>14 DEF BgWake, Running, InHand, Base, IInv, TypeOK
  <2> QED
    BY <2>1
    DEF IInv, TypeOK, Chain, Counted, Lifetimes, Handshake, FlushDone
<1>15. CASE BgEnd
  <2>1. /\ bg = "recv" /\ bg' = "returned" /\ client = "Dropped"
        /\ UNCHANGED <<clientVars, scheduled, shared, job, written, flushed, bounds>>
        /\ ~Running' /\ InHand' = 0 /\ ~alive
    BY <1>15 DEF BgEnd, Running, InHand, IInv, Lifetimes
  <2> QED
    BY <2>1
    DEF IInv, TypeOK, Chain, Counted, Lifetimes, Handshake, FlushDone
<1> QED
  BY <1>1, <1>2, <1>3, <1>4, <1>5, <1>6, <1>7, <1>8, <1>9, <1>10, <1>11, <1>12,
     <1>13, <1>14, <1>15 DEF Next, Client, Bg

\* The inductive invariant says what the properties say.
LEMMA InvImplies ==
  IInv => /\ TypeOK /\ BytesInOrder /\ PendingAccounted /\ RetryHandshake
          /\ ThreadOutlivesController /\ FlushedCommandsAreWritten
<1> SUFFICES ASSUME IInv
             PROVE  /\ TypeOK /\ BytesInOrder /\ PendingAccounted /\ RetryHandshake
                    /\ ThreadOutlivesController /\ FlushedCommandsAreWritten
  OBVIOUS
<1>1. /\ cmds \in Seq(Command) /\ statuses \in Seq(Status)
      /\ sent \in Nat /\ Base \in Nat /\ Len(statuses) \in Nat
  BY LenProperties DEF IInv, TypeOK, Status, Base
<1>2. BytesInOrder
  <2>1. Writes = WritesOf(cmds)
    BY DEF Writes, WritesOf
  <2>2. CASE Running
    <3>1. ChainIn(cmds, Base, sent) /\ sent <= accepted
      BY <2>2 DEF IInv, Chain
    <3>2. LET Before(i) == {Base} \cup {cmds[j].hi : j \in {k \in WritesOf(cmds) : k < i}}
              Follows(at, i) == at \in Before(i) /\ \A b \in Before(i) : b <= at
          IN /\ \A i \in WritesOf(cmds) :
                  Follows(cmds[i].lo, i) /\ cmds[i].lo <= cmds[i].hi
             /\ Follows(sent, Len(cmds) + 1)
      BY <1>1, <3>1, ChainIsOrder
    <3> QED
      BY <2>1, <3>1, <3>2 DEF IInv, Chain, BytesInOrder, Base
  <2>3. CASE ~Running
    BY <2>3 DEF IInv, Chain, BytesInOrder
  <2> QED
    BY <2>2, <2>3
<1>3. PendingAccounted
  <2>1. Num(statuses, "ok") \in 0..Len(statuses)
    BY <1>1, NumType
  <2>2. Count(statuses, LAMBDA s : s = "ok") = Num(statuses, "ok")
    BY DEF Count, Num, At
  <2>3. Len(cmds) \in Nat /\ InHand \in {0, 1} /\ flush_errors \in Nat
    BY <1>1, LenProperties DEF IInv, TypeOK, InHand
  <2>4. ASSUME Running
        PROVE  /\ num_cmds_pending >= Len(cmds) + InHand + Num(statuses, "ok")
               /\ flush_errors = 0 =>
                    num_cmds_pending = Len(cmds) + InHand + Num(statuses, "ok")
    <3>1. num_cmds_pending = Len(cmds) + InHand + Num(statuses, "ok") + flush_errors
      BY <2>4 DEF IInv, Counted
    <3> QED
      BY <1>1, <2>1, <2>3, <3>1
  <2> QED
    BY <2>2, <2>4 DEF PendingAccounted
<1>4. RetryHandshake
  <2> DEFINE E == At(statuses, "write_error")
  <2>1. E \subseteq 1..Len(statuses) /\ \A i \in E : statuses[i] = "write_error"
    BY <1>1, NumType DEF At
  <2>2. ASSUME NoWriteError(statuses) PROVE Cardinality(E) = 0
    <3>1. E = {}
      BY <2>1, <2>2 DEF NoWriteError
    <3> QED
      BY <3>1, FS_EmptySet
  <2>3. ASSUME LastIsWriteError(statuses) PROVE Cardinality(E) = 1
    <3>1. Len(statuses) \in E
      BY <1>1, <2>3, LenProperties DEF LastIsWriteError, At
    <3>2. E = {Len(statuses)}
      BY <1>1, <2>1, <2>3, <3>1 DEF LastIsWriteError
    <3> QED
      BY <3>2, FS_Singleton
  <2>4. statuses = <<>> => NoWriteError(statuses)
    BY DEF NoWriteError
  <2>5. Count(statuses, LAMBDA s : s = "write_error") = Cardinality(E)
    BY DEF Count, At
  <2>6. retry \in BOOLEAN /\ enabled \in BOOLEAN
    BY DEF IInv, TypeOK
  <2> HIDE DEF E
  <2>7. ASSUME alive, Running
        PROVE  Cardinality(E) + (IF retry THEN 1 ELSE 0) + (IF enabled THEN 1 ELSE 0)
                 = (IF bg = "wait" THEN 1 ELSE 0)
    BY <2>2, <2>3, <2>4, <2>6, <2>7 DEF IInv, Handshake
  <2> QED
    BY <2>5, <2>7 DEF RetryHandshake
<1>5. ThreadOutlivesController /\ FlushedCommandsAreWritten
  BY DEF IInv, Lifetimes, FlushDone, ThreadOutlivesController, FlushedCommandsAreWritten
<1> QED
  BY <1>2, <1>3, <1>4, <1>5 DEF IInv

\* The invariant holds in every reachable state of the adapter and its thread
\* (adapters.rs:336-523).
THEOREM Invariance == Spec => []IInv
<1> QED
  BY InvInit, InvNext, PTL DEF Spec

\* In particular num_cmds_pending, an unsigned integer that draining counts
\* down, never falls below zero (adapters.rs:449-456).
THEOREM TypeCorrect == Spec => []TypeOK
<1> QED
  BY Invariance, InvImplies, PTL

\* The blocking writer takes the accepted bytes in order, whatever fails and is
\* retried (adapters.rs:338-343, 458-467).
THEOREM BytesStayInOrder == Spec => []BytesInOrder
<1> QED
  BY Invariance, InvImplies, PTL

\* num_cmds_pending is what is queued, in hand and answered, as long as no flush
\* has failed, and never less, so that no flush is answered early
\* (adapters.rs:449-456, 479-486).
THEOREM PendingIsAccounted == Spec => []PendingAccounted
<1> QED
  BY Invariance, InvImplies, PTL

\* A failed write leaves one token, and the thread waits while it is out
\* (adapters.rs:369-377, 440-456).
THEOREM OneRetryToken == Spec => []RetryHandshake
<1> QED
  BY Invariance, InvImplies, PTL

\* The thread runs as long as the controller does, so its sends find the
\* channel open (adapters.rs:464-466, 475).
THEOREM ThreadLivesOn == Spec => []ThreadOutlivesController
<1> QED
  BY Invariance, InvImplies, PTL

\* An answered flush leaves nothing queued: all that was sent is written
\* (adapters.rs:488-493).
THEOREM FlushedIsWritten == Spec => []FlushedCommandsAreWritten
<1> QED
  BY Invariance, InvImplies, PTL
=============================================================================
