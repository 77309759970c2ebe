------------------------- MODULE ArrayIterMut_proof -------------------------
(***************************************************************************)
(* What `BackedArrayIterMut` and its handles do for every array, every     *)
(* interleaving of the handles' drops with the iterator's, and any number  *)
(* of writes and failed flushes: NoSilentLoss, HandlesNameTheirItems and   *)
(* DropsFlushAlone of ArrayIterMut.                                        *)
(***************************************************************************)
EXTENDS ArrayIterMut, TLAPS, WellFoundedInduction

-----------------------------------------------------------------------------
(***************************************************************************)
(* The inductive invariant.                                                *)
(***************************************************************************)
\* The ranges are in order, and none is longer than a chunk may be.
RangesInv ==
  \A c \in Chunks : StartOf(c) <= EndOf(c) /\ EndOf(c) <= StartOf(c) + MaxLen

\* The two iterators are on the same chunk, and what is behind it has not been
\* touched.
WalkInv ==
  /\ key <= Len(ends) + 1 /\ entry <= Len(ends)
  /\ iter = "live" /\ key \in Chunks =>
       /\ entry = key
       /\ pos = 0 => key = 1
       /\ pos > 0 => StartOf(key) < pos /\ pos <= EndOf(key)
  /\ iter \in {"live", "chunks"} =>
       \A c \in Chunks : c > entry => handle[c] = "none"
  /\ iter = "chunks" => held \cup checked = {}

\* A held place is inside an open chunk, among the positions already passed.
HeldInv ==
  \A p \in held \cup checked :
    /\ p[1] \in Chunks /\ handle[p[1]] = "open"
    /\ StartOf(p[1]) + p[2] < EndOf(p[1])
    /\ StartOf(p[1]) + p[2] < pos
    /\ iter = "live" => p[1] <= entry

\* The mark tells what is not on disk, but for the writes after a flush.
MarkInv ==
  \A c \in Chunks : c \notin modified => disk[c] = memory[c] \/ c \in late

\* A chunk is not let go with its mark, but by a panic.
LetGoInv ==
  \A c \in Chunks : handle[c] = "dropped" => c \notin modified \/ c \in loud

IInv == TypeOK /\ RangesInv /\ WalkInv /\ HeldInv /\ MarkInv /\ LetGoInv

\* What a flush may change, as TypeOK has it.
StoreTyped ==
  /\ memory \in [Chunks -> 0..MaxWrites]
  /\ disk \in [Chunks -> 0..MaxWrites \cup {Torn}]
  /\ modified \subseteq Chunks /\ late \subseteq Chunks
  /\ failures \in 0..MaxFailures

-----------------------------------------------------------------------------
(***************************************************************************)
(* The range found for a position.                                         *)
(***************************************************************************)
LEMMA LeastNat ==
  ASSUME NEW S, S \subseteq Nat, S # {}
  PROVE  \E m \in S : \A n \in S : m <= n
PROOF
  <1>1. IsWellFoundedOn(OpToRel(<, Nat), Nat)
    BY NatLessThanWellFounded
  <1>2. PICK m \in S : \A n \in S : ~ (<<n, m>> \in OpToRel(<, Nat))
    BY <1>1, WFMin
  <1>3. ASSUME NEW n \in S PROVE m <= n
    <2>1. ~ (<<n, m>> \in OpToRel(<, Nat))
      BY <1>2
    <2>2. n \in Nat /\ m \in Nat
      OBVIOUS
    <2>3. ~ (n < m)
      BY <2>1, <2>2 DEF OpToRel
    <2> QED  BY <2>2, <2>3
  <1> QED  BY <1>3

\* `nth` passes every range that ends at or before the position and stops at
\* the first that does not (slice.rs:265-274).
LEMMA KeyForFinds ==
  ASSUME ends \in Seq(Nat), key \in 1..(Len(ends) + 1), NEW p \in Nat
  PROVE  /\ KeyFor(p) \in key..(Len(ends) + 1)
         /\ \A j \in key..(KeyFor(p) - 1) : EndOf(j) <= p
         /\ KeyFor(p) <= Len(ends) => EndOf(KeyFor(p)) > p
PROOF
  <1> DEFINE Beyond == {j \in key..Len(ends) : EndOf(j) > p}
             Found(k) == /\ \A j \in key..(k - 1) : EndOf(j) <= p
                         /\ k <= Len(ends) => EndOf(k) > p
  <1>1. \A j \in key..Len(ends) : EndOf(j) \in Nat
    BY DEF EndOf
  <1>2. \E k \in key..(Len(ends) + 1) : Found(k)
    <2>1. CASE Beyond = {}
      <3>1. \A j \in key..Len(ends) : EndOf(j) <= p
        BY <2>1, <1>1
      <3>2. Found(Len(ends) + 1)
        BY <3>1
      <3> QED  BY <3>2
    <2>2. CASE Beyond # {}
      <3>1. Beyond \subseteq Nat
        OBVIOUS
      <3>2. PICK m \in Beyond : \A n \in Beyond : m <= n
        <4> HIDE DEF Beyond
        <4> QED  BY <2>2, <3>1, LeastNat
      <3>3. m \in key..Len(ends) /\ EndOf(m) > p
        OBVIOUS
      <3>4. ASSUME NEW j \in key..(m - 1) PROVE EndOf(j) <= p
        <4>1. j \in key..Len(ends) /\ ~ (m <= j)
          BY <3>3
        <4>2. j \notin Beyond
          BY <3>2, <4>1
        <4>3. ~ (EndOf(j) > p)
          BY <4>1, <4>2
        <4> QED  BY <4>1, <4>3, <1>1
      <3> QED  BY <3>3, <3>4
    <2> QED  BY <2>1, <2>2
  <1>3. KeyFor(p) = CHOOSE k \in key..(Len(ends) + 1) : Found(k)
    BY DEF KeyFor
  <1>4. KeyFor(p) \in key..(Len(ends) + 1) /\ Found(KeyFor(p))
    <2> HIDE DEF Found
    <2> QED  BY <1>2, <1>3
  <1> QED  BY <1>4

-----------------------------------------------------------------------------
(***************************************************************************)
(* Flushes.                                                                *)
(***************************************************************************)
\* A flush that goes through leaves no mark on what it was asked for, and
\* touches no other chunk.
LEMMA FlushKeeps ==
  ASSUME TypeOK, MarkInv, NEW C, Flush(C), ends' = ends
  PROVE  /\ StoreTyped' /\ MarkInv'
         /\ modified' = modified \ C
         /\ \A c \in Chunks : c \notin C => disk'[c] = disk[c]
PROOF
  <1>1. Chunks' = Chunks
    BY DEF Chunks
  <1>2. StoreTyped'
    BY <1>1 DEF TypeOK, StoreTyped, Flush
  <1>3. MarkInv'
    BY <1>1 DEF TypeOK, MarkInv, Flush
  <1> QED  BY <1>2, <1>3 DEF Flush

\* One that fails leaves the mark on the chunk that failed.
LEMMA FlushFailsKeeps ==
  ASSUME TypeOK, MarkInv, NEW C, NEW bad, bad \notin C, FlushFails(C, bad), ends' = ends
  PROVE  /\ StoreTyped' /\ MarkInv'
         /\ modified' \subseteq modified
         /\ \A c \in Chunks : c \notin C \cup {bad} => disk'[c] = disk[c]
PROOF
  <1>1. Chunks' = Chunks
    BY DEF Chunks
  <1>2. PICK torn \in BOOLEAN :
          disk' = [c \in Chunks |->
                     IF c = bad THEN IF torn THEN Torn ELSE disk[c]
                     ELSE IF c \in C \cap modified THEN memory[c] ELSE disk[c]]
    BY DEF FlushFails
  <1>3. disk' \in [Chunks -> 0..MaxWrites \cup {Torn}]
    BY <1>2 DEF TypeOK
  <1>4. failures' \in 0..MaxFailures
    BY BoundsAssumption DEF TypeOK, FlushFails
  <1>5. StoreTyped'
    BY <1>1, <1>3, <1>4 DEF TypeOK, StoreTyped, FlushFails
  <1>6. ASSUME NEW c \in Chunks, c \notin modified'
        PROVE  disk'[c] = memory'[c] \/ c \in late'
    <2>1. c # bad /\ memory' = memory
      BY <1>6 DEF FlushFails
    <2>2. CASE c \in C \cap modified
      BY <2>1, <2>2, <1>2
    <2>3. CASE c \notin C \cap modified
      <3>1. disk'[c] = disk[c] /\ c \notin modified
        BY <2>1, <2>3, <1>2, <1>6 DEF FlushFails
      <3>2. c \in late => c \in late'
        BY <2>3 DEF FlushFails
      <3> QED  BY <2>1, <3>1, <3>2 DEF MarkInv
    <2> QED  BY <2>2, <2>3
  <1>7. MarkInv'
    BY <1>1, <1>6 DEF MarkInv
  <1>8. \A c \in Chunks : c \notin C \cup {bad} => disk'[c] = disk[c]
    BY <1>2
  <1> QED  BY <1>5, <1>7, <1>8 DEF FlushFails

\* A flush, whether it fails or not, that moves nothing else.
LEMMA StoreStep ==
  ASSUME IInv, StoreTyped', MarkInv', modified' \subseteq modified,
         UNCHANGED <<ends, handle, walk, held, checked, aborted, loud>>,
         unwinding' \subseteq Places \cup {Iterator}
  PROVE  IInv'
PROOF
  <1>1. Chunks' = Chunks /\ UNCHANGED <<iter, cursor, pos, key, entry>>
    BY DEF Chunks, walk
  <1>2. TypeOK'
    BY <1>1 DEF IInv, TypeOK, StoreTyped, Places
  <1>3. RangesInv'
    BY <1>1 DEF IInv, RangesInv, StartOf, EndOf
  <1>4. WalkInv'
    BY <1>1 DEF IInv, WalkInv, StartOf, EndOf
  <1>5. HeldInv'
    BY <1>1 DEF IInv, HeldInv, StartOf, EndOf
  <1>6. LetGoInv'
    BY <1>1 DEF IInv, LetGoInv
  <1> QED  BY <1>2, <1>3, <1>4, <1>5, <1>6 DEF IInv

-----------------------------------------------------------------------------
(***************************************************************************)
(* The walk.                                                               *)
(***************************************************************************)
\* What the steps' proofs need of the state again and again.
LEMMA Basics ==
  ASSUME IInv
  PROVE  /\ Chunks = 1..Len(ends) /\ Len(ends) \in Nat
         /\ ends \in Seq(Nat)
         /\ pos \in Nat /\ key \in 1..(Len(ends) + 1) /\ entry \in 0..Len(ends)
         /\ \A c \in Chunks : EndOf(c) \in Nat /\ StartOf(c) \in Nat
         /\ \A p \in held \cup checked : p \in Places /\ p[1] \in Nat /\ p[2] \in Nat
PROOF
  <1>1. ends \in Seq(0..MaxItems) /\ pos \in Nat /\ key \in 1..(MaxChunks + 1)
        /\ entry \in 0..MaxChunks /\ MaxChunks \in Nat /\ MaxItems \in Nat /\ MaxLen \in Nat
    BY BoundsAssumption DEF IInv, TypeOK
  <1>2. Len(ends) \in Nat /\ Chunks = 1..Len(ends) /\ \A c \in Chunks : ends[c] \in Nat
    BY <1>1 DEF Chunks
  <1>3. ends \in Seq(Nat)
    BY <1>2, <1>1
  <1>4. key \in 1..(Len(ends) + 1) /\ entry \in 0..Len(ends)
    BY <1>1, <1>2 DEF IInv, WalkInv
  <1>5. \A c \in Chunks : EndOf(c) \in Nat /\ StartOf(c) \in Nat
    BY <1>2 DEF EndOf, StartOf
  <1>6. \A p \in Places : p[1] \in Nat /\ p[2] \in Nat
    BY <1>1 DEF Places
  <1>7. held \cup checked \subseteq Places
    BY DEF IInv, TypeOK
  <1> QED  BY <1>1, <1>2, <1>3, <1>4, <1>5, <1>6, <1>7

\* A step leaves the ranges alone.
LEMMA RangesKept ==
  ASSUME ends' = ends
  PROVE  /\ Chunks' = Chunks /\ (RangesInv => RangesInv')
         /\ \A c : EndOf(c)' = EndOf(c) /\ StartOf(c)' = StartOf(c)
PROOF
  BY DEF Chunks, EndOf, StartOf, RangesInv

LEMMA InitInv ==
  ASSUME Init
  PROVE  IInv
PROOF
  <1>1. /\ MaxChunks \in Nat /\ MaxItems \in Nat /\ MaxLen \in Nat
        /\ MaxWrites \in Nat /\ MaxFailures \in Nat
    BY BoundsAssumption
  <1>2. PICK m \in 0..MaxChunks : ends \in [1..m -> 0..MaxItems]
    BY <1>1 DEF Init, BoundedSeq, SeqOf
  <1>3. ends \in Seq(0..MaxItems) /\ Len(ends) = m /\ Chunks = 1..m /\ m \in Nat
    BY <1>1, <1>2 DEF Chunks
  <1>4. /\ memory = [c \in Chunks |-> 0] /\ disk = memory
        /\ modified = {} /\ late = {} /\ loud = {} /\ cursor = 1 /\ pos = 0 /\ key = 1
        /\ held = {} /\ checked = {} /\ unwinding = {} /\ aborted = FALSE /\ failures = 0
    BY DEF Init
  <1>5. /\ iter \in {"live", "chunks"}
        /\ entry = IF iter = "live" /\ m > 0 THEN 1 ELSE 0
        /\ handle \in [Chunks -> {"none", "open", "error"}]
        /\ \A c \in Chunks : c > entry => handle[c] = "none"
    <2>1. CASE Opened
      <3>1. PICK first \in {"open", "error"} :
              handle = [c \in Chunks |-> IF c = 1 THEN first ELSE "none"]
        BY <2>1 DEF Opened
      <3>2. iter = "live" /\ entry = IF ends = <<>> THEN 0 ELSE 1
        BY <2>1 DEF Opened
      <3>3. ends = <<>> <=> m = 0
        BY <1>3
      <3>4. entry = IF m > 0 THEN 1 ELSE 0
        BY <3>2, <3>3, <1>3
      <3>5. handle \in [Chunks -> {"none", "open", "error"}]
        BY <3>1
      <3>6. ASSUME NEW c \in Chunks, c > entry PROVE handle[c] = "none"
        BY <3>6, <3>1, <3>4, <1>3
      <3> QED  BY <3>2, <3>4, <3>5, <3>6
    <2>2. CASE ChunksNew
      BY <2>2 DEF ChunksNew
    <2> QED  BY <2>1, <2>2 DEF Init, IterNew, GenericIterNew
  <1>6. RangesInv
    <2>1. ASSUME NEW c \in Chunks PROVE StartOf(c) <= EndOf(c) /\ EndOf(c) <= StartOf(c) + MaxLen
      <3>1. StartOf(c) \in Nat
        BY <1>1, <1>2, <1>3 DEF StartOf
      <3>2. EndOf(c) \in StartOf(c)..(StartOf(c) + MaxLen)
        BY DEF Init
      <3> QED  BY <3>1, <3>2, <1>1
    <2> QED  BY <2>1 DEF RangesInv
  <1>7. TypeOK
    <2>1. memory \in [Chunks -> 0..MaxWrites] /\ disk \in [Chunks -> 0..MaxWrites \cup {Torn}]
      BY <1>1, <1>4
    <2>2. entry \in 0..MaxChunks /\ key \in 1..(MaxChunks + 1)
      BY <1>1, <1>3, <1>4, <1>5
    <2>3. Len(ends) <= MaxChunks
      BY <1>1, <1>3
    <2>4. handle \in [Chunks -> {"none", "open", "view", "error", "dropped"}]
      BY <1>5
    <2>5. failures \in 0..MaxFailures /\ pos \in Nat /\ held \cap checked = {}
      BY <1>1, <1>4
    <2> QED  BY <1>3, <1>4, <1>5, <2>1, <2>2, <2>3, <2>4, <2>5 DEF TypeOK
  <1>8. WalkInv
    <2>1. iter = "live" /\ 1 \in Chunks => entry = 1
      BY <1>3, <1>5
    <2>2. key <= Len(ends) + 1 /\ entry <= Len(ends)
      BY <1>3, <1>4, <1>5
    <2> QED  BY <1>4, <1>5, <2>1, <2>2 DEF WalkInv
  <1>9. HeldInv /\ MarkInv /\ LetGoInv
    BY <1>4, <1>5 DEF HeldInv, MarkInv, LetGoInv
  <1> QED  BY <1>6, <1>7, <1>8, <1>9 DEF IInv

\* nth beyond the last item: only the position and the ranges passed move.
LEMMA NthBeyond ==
  ASSUME IInv, NEW n \in 0..MaxSkip, Nth(n), KeyFor(pos + n) > Len(ends)
  PROVE  IInv'
PROOF
  <1>1. /\ n \in Nat /\ Chunks = 1..Len(ends) /\ pos \in Nat /\ ends \in Seq(Nat)
        /\ Len(ends) \in Nat /\ key \in 1..(Len(ends) + 1)
    BY Basics, BoundsAssumption
  <1>2. KeyFor(pos + n) \in key..(Len(ends) + 1)
    <2>1. pos + n \in Nat
      BY <1>1
    <2> QED  BY <1>1, <2>1, KeyForFinds
  <1>3. key' = Len(ends) + 1 /\ pos' = pos + n
    BY <1>1, <1>2 DEF Nth
  <1>4. UNCHANGED <<ends, memory, disk, late, iter, cursor, checked, unwinding, aborted,
                    loud, failures, entry, handle, modified, held>>
    BY DEF Nth
  <1>5. /\ Chunks' = Chunks /\ RangesInv' /\ key' \notin Chunks /\ pos' \in Nat
        /\ key' \in 1..(MaxChunks + 1)
    BY <1>1, <1>3, <1>4, RangesKept, BoundsAssumption DEF IInv, TypeOK
  <1>6. TypeOK'
    BY <1>4, <1>5 DEF IInv, TypeOK, Places
  <1>7. WalkInv'
    BY <1>1, <1>3, <1>4, <1>5 DEF IInv, WalkInv
  <1>8. HeldInv'
    <2>1. ASSUME NEW p \in held \cup checked PROVE StartOf(p[1]) + p[2] < pos'
      <3>1. StartOf(p[1]) \in Nat /\ p[2] \in Nat /\ StartOf(p[1]) + p[2] < pos
        BY Basics DEF IInv, HeldInv
      <3> QED  BY <3>1, <1>1, <1>3
    <2> QED  BY <2>1, <1>4, <1>5, RangesKept DEF IInv, HeldInv
  <1>9. MarkInv' /\ LetGoInv'
    BY <1>4, <1>5 DEF IInv, MarkInv, LetGoInv
  <1> QED  BY <1>5, <1>6, <1>7, <1>8, <1>9 DEF IInv

\* nth inside the array: the two iterators move to the same chunk, and the
\* item given out has not been given out before.
LEMMA NthInside ==
  ASSUME IInv, NEW n \in 0..MaxSkip, Nth(n), KeyFor(pos + n) <= Len(ends)
  PROVE  IInv'
PROOF
  <1> DEFINE k == KeyFor(pos + n)
             inside == pos + n - StartOf(k)
             place == <<k, inside>>
  <1>1. /\ n \in Nat /\ Chunks = 1..Len(ends) /\ pos \in Nat /\ ends \in Seq(Nat)
        /\ Len(ends) \in Nat /\ Len(ends) <= MaxChunks /\ key \in 1..(Len(ends) + 1)
        /\ pos + n \in Nat /\ MaxChunks \in Nat /\ MaxLen \in Nat
        /\ entry \in 0..Len(ends)
    BY Basics, BoundsAssumption DEF IInv, TypeOK
  <1>2. /\ k \in key..(Len(ends) + 1)
        /\ \A j \in key..(k - 1) : EndOf(j) <= pos + n
        /\ k <= Len(ends) => EndOf(k) > pos + n
    BY <1>1, KeyForFinds
  <1> HIDE DEF k
  <1>3. k \in Chunks /\ key \in Chunks /\ k >= key /\ k \in Nat /\ k <= MaxChunks
    <2>1. k <= Len(ends)
      BY DEF k
    <2> QED  BY <2>1, <1>1, <1>2
  <1>4. /\ EndOf(k) \in Nat /\ StartOf(k) \in Nat /\ EndOf(k) > pos + n
        /\ EndOf(k) <= StartOf(k) + MaxLen
    BY <1>1, <1>2, <1>3, Basics DEF IInv, RangesInv
  <1>5. iter = "live" /\ entry = key
    BY <1>3 DEF Nth, IInv, WalkInv
  <1>6. StartOf(k) <= pos + n
    <2>1. CASE k = key
      <3>1. CASE pos = 0
        <4>1. k = 1
          BY <2>1, <3>1, <1>3, <1>5 DEF IInv, WalkInv
        <4> QED  BY <4>1, <1>1 DEF StartOf
      <3>2. CASE pos > 0
        <4>1. StartOf(k) < pos
          BY <2>1, <3>2, <1>3, <1>5 DEF IInv, WalkInv
        <4> QED  BY <4>1, <1>1, <1>4
      <3> QED  BY <3>1, <3>2, <1>1
    <2>2. CASE k # key
      <3>1. k - 1 \in key..(k - 1) /\ k # 1
        BY <2>2, <1>1, <1>3
      <3>2. StartOf(k) = EndOf(k - 1)
        BY <3>1 DEF StartOf, EndOf
      <3> QED  BY <3>1, <3>2, <1>2
    <2> QED  BY <2>1, <2>2
  <1>7. inside \in 0..(MaxLen - 1) /\ StartOf(k) + inside = pos + n
    BY <1>1, <1>4, <1>6
  <1> HIDE DEF inside
  <1>8. place \in Places /\ place[1] = k /\ place[2] = inside
    BY <1>1, <1>3, <1>7 DEF Places
  <1>9. key' = k /\ pos' = pos + n + 1
    BY <1>1, <1>3 DEF Nth, k
  <1>10. UNCHANGED <<ends, memory, disk, late, iter, cursor, checked, unwinding, aborted,
                     loud, failures>>
    BY DEF Nth
  <1>11. /\ entry' = IF k - key > 0 THEN EntryAfter(k - key) ELSE entry
         /\ IF k - key > 0
              THEN \E result \in {"open", "error"} :
                     handle' = [handle EXCEPT ![entry'] = result]
              ELSE UNCHANGED handle
         /\ Yield(entry', inside)
    BY <1>1, <1>3 DEF Nth, k, inside
  <1>12. entry' = k
    BY <1>3, <1>5, <1>11, <1>1 DEF EntryAfter
  <1>13. /\ handle' \in [Chunks -> {"none", "open", "view", "error", "dropped"}]
         /\ \A c \in Chunks : c # k => handle'[c] = handle[c]
         /\ k # key => handle'[k] \in {"open", "error"}
         /\ k = key => handle' = handle
    <2>1. handle \in [Chunks -> {"none", "open", "view", "error", "dropped"}]
      BY DEF IInv, TypeOK
    <2>2. CASE k = key
      BY <2>1, <2>2, <1>3, <1>11
    <2>3. CASE k # key
      <3>1. k - key > 0
        BY <2>3, <1>1, <1>3
      <3>2. PICK result \in {"open", "error"} : handle' = [handle EXCEPT ![k] = result]
        BY <3>1, <1>11, <1>12
      <3> QED  BY <2>1, <2>3, <3>2, <1>3
    <2> QED  BY <2>2, <2>3
  <1>14. /\ held \subseteq held' /\ held' \subseteq held \cup {place}
         /\ place \in held' => handle'[k] = "open" \/ held' = held
         /\ modified \subseteq modified' /\ modified' \subseteq modified \cup {k}
         /\ modified' = modified \/ handle'[k] = "open"
    <2>1. /\ IF handle'[k] = "open"
               THEN modified' = modified \cup {k} /\ held' = held \cup {<<k, inside>>}
               ELSE UNCHANGED <<modified, held>>
      BY <1>11, <1>12 DEF Yield
    <2> QED  BY <2>1
  <1>15. Chunks' = Chunks /\ RangesInv' /\ (\A c : EndOf(c)' = EndOf(c) /\ StartOf(c)' = StartOf(c))
    BY <1>10, RangesKept DEF IInv
  <1>16. \A p \in held \cup checked :
           /\ p[1] \in Chunks /\ p[1] <= key /\ handle'[p[1]] = "open"
           /\ StartOf(p[1]) + p[2] < pos /\ StartOf(p[1]) + p[2] < pos'
    <2>1. ASSUME NEW p \in held \cup checked
          PROVE  /\ p[1] \in Chunks /\ p[1] <= key /\ handle'[p[1]] = "open"
                 /\ StartOf(p[1]) + p[2] < pos /\ StartOf(p[1]) + p[2] < pos'
      <3>1. /\ p[1] \in Chunks /\ p[1] <= key /\ handle[p[1]] = "open"
            /\ StartOf(p[1]) + p[2] < pos
        BY <1>5 DEF IInv, HeldInv
      <3>2. StartOf(p[1]) \in Nat /\ p[2] \in Nat
        BY <3>1, Basics
      <3>3. StartOf(p[1]) + p[2] < pos'
        BY <3>1, <3>2, <1>1, <1>9
      <3>4. handle'[p[1]] = "open"
        BY <3>1, <1>1, <1>3, <1>13
      <3> QED  BY <3>1, <3>3, <3>4
    <2> QED  BY <2>1
  <1>17. place \notin held \cup checked
    <2> SUFFICES ASSUME place \in held \cup checked PROVE FALSE
      OBVIOUS
    <2>1. StartOf(k) + inside < pos
      BY <1>8, <1>16
    <2> QED  BY <2>1, <1>1, <1>7
  <1>18. TypeOK'
    <2>1. held' \subseteq Places /\ held' \cap checked' = {} /\ Places' = Places
      <3>1. held \subseteq Places /\ held \cap checked = {} /\ checked' = checked
        BY <1>10 DEF IInv, TypeOK
      <3>2. place \notin checked /\ held' \subseteq held \cup {place}
        BY <1>14, <1>17
      <3> HIDE DEF place
      <3>3. held' \cap checked' = {}
        BY <3>1, <3>2
      <3>4. held' \subseteq Places
        BY <3>1, <3>2, <1>8
      <3> QED  BY <3>3, <3>4 DEF Places
    <2>2. modified' \subseteq Chunks
      BY <1>3, <1>14 DEF IInv, TypeOK
    <2>3. pos' \in Nat /\ key' \in 1..(MaxChunks + 1) /\ entry' \in 0..MaxChunks
      BY <1>1, <1>3, <1>9, <1>12
    <2> QED  BY <1>10, <1>13, <1>15, <2>1, <2>2, <2>3 DEF IInv, TypeOK
  <1>19. WalkInv'
    <2>1. key' <= Len(ends') + 1 /\ entry' <= Len(ends') /\ entry' = key'
      BY <1>1, <1>3, <1>9, <1>10, <1>12
    <2>2. pos' > 0 /\ StartOf(key') < pos' /\ pos' <= EndOf(key')
      BY <1>1, <1>4, <1>6, <1>9
    <2>3. (\A c \in Chunks : c > entry => handle[c] = "none")
      BY <1>5 DEF IInv, WalkInv
    <2>4. \A c \in Chunks : c > entry' => handle'[c] = "none"
      <3>1. ASSUME NEW c \in Chunks, c > entry' PROVE handle'[c] = "none"
        <4>1. c # k /\ c > entry
          BY <3>1, <1>1, <1>3, <1>5, <1>12
        <4>2. handle'[c] = handle[c]
          BY <4>1, <1>13
        <4> QED  BY <4>1, <4>2, <2>3
      <3> QED  BY <3>1
    <2>5. StartOf(key)' = StartOf(key') /\ EndOf(key)' = EndOf(key')
      BY <1>10 DEF StartOf, EndOf
    <2>6. pos' # 0 /\ iter' = "live"
      BY <2>2, <1>1, <1>5, <1>9, <1>10
    <2> QED  BY <1>15, <2>1, <2>2, <2>4, <2>5, <2>6 DEF WalkInv
  <1>20. HeldInv'
    <2>1. ASSUME NEW p \in held' \cup checked'
          PROVE  /\ p[1] \in Chunks /\ handle'[p[1]] = "open"
                 /\ StartOf(p[1]) + p[2] < EndOf(p[1])
                 /\ StartOf(p[1]) + p[2] < pos'
                 /\ p[1] <= entry'
      <3>1. CASE p \in held \cup checked
        <4>1. StartOf(p[1]) + p[2] < EndOf(p[1])
          BY <3>1 DEF IInv, HeldInv
        <4>2. p[1] <= k
          BY <3>1, <1>1, <1>3, <1>16
        <4> QED  BY <3>1, <4>1, <4>2, <1>12, <1>16
      <3>2. CASE p \notin held \cup checked
        <4>1. p = place /\ handle'[k] = "open"
          BY <2>1, <3>2, <1>10, <1>14
        <4>2. StartOf(k) + inside < EndOf(k) /\ StartOf(k) + inside < pos'
          BY <1>1, <1>4, <1>7, <1>9
        <4>3. k <= entry'
          BY <1>3, <1>12
        <4> QED  BY <4>1, <4>2, <4>3, <1>3, <1>8
      <3> QED  BY <3>1, <3>2
    <2>2. \A p : /\ (StartOf(p[1]) + p[2] < EndOf(p[1]))' <=> StartOf(p[1]) + p[2] < EndOf(p[1])
                 /\ (StartOf(p[1]) + p[2] < pos)' <=> StartOf(p[1]) + p[2] < pos'
      BY <1>10 DEF StartOf, EndOf
    <2> QED  BY <1>15, <2>1, <2>2 DEF HeldInv
  <1>21. MarkInv'
    BY <1>10, <1>14, <1>15 DEF IInv, MarkInv
  <1>22. LetGoInv'
    <2>1. ASSUME NEW c \in Chunks, handle'[c] = "dropped" PROVE c \notin modified' \/ c \in loud'
      <3>1. handle[c] = "dropped"
        BY <2>1, <1>13
      <3>2. c \notin modified \/ c \in loud
        BY <3>1 DEF IInv, LetGoInv
      <3>3. c \in modified' => c \in modified
        BY <2>1, <1>14
      <3> QED  BY <3>2, <3>3, <1>10
    <2> QED  BY <2>1, <1>15 DEF LetGoInv
  <1> QED  BY <1>15, <1>18, <1>19, <1>20, <1>21, <1>22 DEF IInv

-----------------------------------------------------------------------------
(***************************************************************************)
(* The handles' holders and the drops.                                     *)
(***************************************************************************)
LEMMA IteratorIsNoPlace ==
  Iterator \notin Places /\ Places' = Places
PROOF
  <1>1. Places \subseteq Nat \X Nat
    BY BoundsAssumption DEF Places
  <1> QED  BY <1>1, IteratorAssumption DEF Places

LEMMA MutateKeeps ==
  ASSUME IInv, NEW p \in Places, Mutate(p)
  PROVE  IInv'
PROOF
  <1> DEFINE c == p[1]
  <1>1. c \in Chunks /\ handle[c] = "open"
    BY DEF Mutate, IInv, HeldInv
  <1>2. UNCHANGED <<ends, disk, modified, handle, walk, held, checked, unwinding, aborted,
                    loud, failures>>
    BY DEF Mutate
  <1>3. /\ memory[c] < MaxWrites /\ memory' = [memory EXCEPT ![c] = @ + 1]
        /\ late' = IF c \in modified THEN late ELSE late \cup {c}
    BY DEF Mutate
  <1> HIDE DEF c
  <1>4. Chunks' = Chunks
    BY <1>2, RangesKept
  <1>5. StoreTyped'
    <2>1. memory \in [Chunks -> 0..MaxWrites] /\ late \subseteq Chunks /\ MaxWrites \in Nat
      BY BoundsAssumption DEF IInv, TypeOK
    <2>2. memory' \in [Chunks -> 0..MaxWrites]
      BY <2>1, <1>1, <1>3
    <2>3. late' \subseteq Chunks
      BY <2>1, <1>1, <1>3
    <2> QED  BY <2>2, <2>3, <1>2, <1>4 DEF IInv, TypeOK, StoreTyped
  <1>6. MarkInv'
    <2>1. ASSUME NEW d \in Chunks, d \notin modified' PROVE disk'[d] = memory'[d] \/ d \in late'
      <3>1. CASE d = c
        BY <2>1, <3>1, <1>2, <1>3
      <3>2. CASE d # c
        <4>1. memory'[d] = memory[d]
          BY <3>2, <1>3 DEF IInv, TypeOK
        <4> QED  BY <2>1, <4>1, <1>2, <1>3 DEF IInv, MarkInv
      <3> QED  BY <3>1, <3>2
    <2> QED  BY <2>1, <1>4 DEF MarkInv
  <1>7. unwinding' \subseteq Places \cup {Iterator}
    BY <1>2 DEF IInv, TypeOK
  <1> QED  BY <1>2, <1>5, <1>6, <1>7, StoreStep

LEMMA ChunkMutateKeeps ==
  ASSUME IInv, NEW c \in Chunks, ChunkMutate(c)
  PROVE  IInv'
PROOF
  <1>1. /\ UNCHANGED <<ends, disk, late, handle, walk, held, checked, unwinding, aborted,
                       loud, failures>>
        /\ memory' = [memory EXCEPT ![c] = @ + 1] /\ memory[c] < MaxWrites
        /\ modified' = modified \cup {c}
        /\ handle[c] = "open"
    BY DEF ChunkMutate, Given
  <1>2. Chunks' = Chunks /\ RangesInv' /\ UNCHANGED <<iter, cursor, pos, key, entry>>
    BY <1>1, RangesKept DEF IInv, walk
  <1>3. TypeOK'
    <2>1. memory' \in [Chunks -> 0..MaxWrites]
      BY <1>1, BoundsAssumption DEF IInv, TypeOK
    <2>2. modified' \subseteq Chunks
      BY <1>1 DEF IInv, TypeOK
    <2> QED  BY <2>1, <2>2, <1>1, <1>2, IteratorIsNoPlace DEF IInv, TypeOK
  <1>4. WalkInv'
    BY <1>1, <1>2 DEF IInv, WalkInv, StartOf, EndOf
  <1>5. HeldInv'
    BY <1>1, <1>2 DEF IInv, HeldInv, StartOf, EndOf
  <1>6. MarkInv'
    <2>1. ASSUME NEW d \in Chunks, d \notin modified' PROVE disk'[d] = memory'[d] \/ d \in late'
      <3>1. d # c /\ d \notin modified
        BY <2>1, <1>1
      <3>2. memory'[d] = memory[d]
        BY <3>1, <1>1 DEF IInv, TypeOK
      <3> QED  BY <3>1, <3>2, <1>1 DEF IInv, MarkInv
    <2> QED  BY <2>1, <1>2 DEF MarkInv
  <1>7. LetGoInv'
    BY <1>1, <1>2 DEF IInv, LetGoInv
  <1> QED  BY <1>2, <1>3, <1>4, <1>5, <1>6, <1>7 DEF IInv

\* The flush of a drop touches its own chunk alone.
LEMMA DropFlushKeeps ==
  ASSUME IInv, NEW c, NEW dropper \in Places \cup {Iterator}, FlushOrPanic(c, dropper),
         ends' = ends
  PROVE  /\ StoreTyped' /\ MarkInv' /\ modified' \subseteq modified
         /\ unwinding' \subseteq Places \cup {Iterator}
         /\ \A d \in Chunks : d # c => disk'[d] = disk[d]
PROOF
  <1>1. unwinding \subseteq Places \cup {Iterator} /\ TypeOK /\ MarkInv
    BY DEF IInv, TypeOK
  <1>2. CASE Flush({c}) /\ UNCHANGED unwinding
    <2>1. /\ StoreTyped' /\ MarkInv' /\ modified' = modified \ {c}
          /\ \A d \in Chunks : d \notin {c} => disk'[d] = disk[d]
      BY <1>1, <1>2, FlushKeeps
    <2> QED  BY <2>1, <1>1, <1>2
  <1>3. CASE FlushFails({}, c) /\ unwinding' = unwinding \cup {dropper}
    <2>1. c \notin {}
      OBVIOUS
    <2>2. /\ StoreTyped' /\ MarkInv' /\ modified' \subseteq modified
          /\ \A d \in Chunks : d \notin {} \cup {c} => disk'[d] = disk[d]
      BY <2>1, <1>1, <1>3, FlushFailsKeeps
    <2> QED  BY <2>2, <1>1, <1>3
  <1> QED  BY <1>2, <1>3 DEF FlushOrPanic

\* With nothing flushed the same holds.
LEMMA StoreUnchanged ==
  ASSUME IInv, UNCHANGED <<ends, store, failures>>
  PROVE  StoreTyped' /\ MarkInv' /\ modified' = modified /\ disk' = disk
PROOF
  <1>1. Chunks' = Chunks /\ UNCHANGED <<memory, disk, modified, late>>
    BY RangesKept DEF store
  <1> QED  BY <1>1 DEF IInv, TypeOK, StoreTyped, MarkInv

\* The first half of a handle's drop.
LEMMA CheckHandleKeeps ==
  ASSUME IInv, NEW p \in Places, CheckHandle(p)
  PROVE  IInv'
PROOF
  <1>1. /\ p \in held /\ held' = held \ {p} /\ checked' = checked \cup {p}
        /\ UNCHANGED <<ends, handle, walk, aborted, loud>>
    BY DEF CheckHandle
  <1>2. /\ StoreTyped' /\ MarkInv' /\ modified' \subseteq modified
        /\ unwinding' \subseteq Places \cup {Iterator}
    <2>1. CASE Sole(p[1], p)
      <3>1. FlushOrPanic(p[1], p)
        BY <2>1 DEF CheckHandle
      <3> QED  BY <3>1, <1>1, DropFlushKeeps
    <2>2. CASE ~ Sole(p[1], p)
      <3>1. UNCHANGED <<store, failures, unwinding>>
        BY <2>2 DEF CheckHandle
      <3> QED  BY <3>1, <1>1, StoreUnchanged DEF IInv, TypeOK
    <2> QED  BY <2>1, <2>2
  <1>3. Chunks' = Chunks /\ RangesInv' /\ UNCHANGED <<iter, cursor, pos, key, entry>>
    BY <1>1, RangesKept DEF IInv, walk
  <1>4. held' \cup checked' = held \cup checked
    BY <1>1
  <1>5. TypeOK'
    <2>1. held' \subseteq Places /\ checked' \subseteq Places /\ held' \cap checked' = {}
      BY <1>1 DEF IInv, TypeOK
    <2> QED  BY <2>1, <1>1, <1>2, <1>3, IteratorIsNoPlace DEF IInv, TypeOK, StoreTyped
  <1>6. WalkInv'
    BY <1>1, <1>3, <1>4 DEF IInv, WalkInv, StartOf, EndOf
  <1>7. HeldInv'
    BY <1>1, <1>3, <1>4 DEF IInv, HeldInv, StartOf, EndOf
  <1>8. LetGoInv'
    BY <1>1, <1>2, <1>3 DEF IInv, LetGoInv
  <1> QED  BY <1>2, <1>3, <1>5, <1>6, <1>7, <1>8 DEF IInv

\* The last reference to a chunk goes: nobody else holds it, and it is either
\* flushed or counted among those that panicked.
LEMMA ReleaseKeeps ==
  ASSUME IInv, NEW c \in Chunks, NEW dropper \in Places \cup {Iterator},
         Release(c, dropper), ends' = ends
  PROVE  /\ StoreTyped' /\ MarkInv' /\ LetGoInv'
         /\ handle' \in [Chunks -> {"none", "open", "view", "error", "dropped"}]
         /\ unwinding' \subseteq Places \cup {Iterator}
         /\ loud' \subseteq Chunks /\ aborted' \in BOOLEAN
         /\ \A d \in Chunks : d # c => handle'[d] = handle[d] /\ disk'[d] = disk[d]
         /\ (handle' = handle /\ disk' = disk) \/ Sole(c, dropper)
PROOF
  <1>1. /\ unwinding \subseteq Places \cup {Iterator} /\ TypeOK /\ MarkInv
        /\ loud \subseteq Chunks /\ aborted \in BOOLEAN
        /\ handle \in [Chunks -> {"none", "open", "view", "error", "dropped"}]
        /\ Chunks' = Chunks /\ LetGoInv
    BY RangesKept DEF IInv, TypeOK
  <1>2. CASE ~ Sole(c, dropper)
    <2>1. UNCHANGED <<store, handle, failures, unwinding, loud, aborted>>
      BY <1>2 DEF Release
    <2>2. StoreTyped' /\ MarkInv' /\ modified' = modified /\ disk' = disk
      BY <2>1, StoreUnchanged
    <2>3. LetGoInv'
      BY <2>1, <2>2, <1>1 DEF LetGoInv
    <2> QED  BY <2>1, <2>2, <2>3, <1>1
  <1>3. CASE Sole(c, dropper)
    <2>1. /\ handle' = [handle EXCEPT ![c] = "dropped"]
          /\ \/ Flush({c}) /\ UNCHANGED <<unwinding, loud, aborted>>
             \/ /\ FlushFails({}, c)
                /\ unwinding' = unwinding \cup {dropper}
                /\ loud' = loud \cup {c}
                /\ aborted' = (dropper \in unwinding)
      BY <1>3 DEF Release
    <2>2. /\ handle' \in [Chunks -> {"none", "open", "view", "error", "dropped"}]
          /\ \A d \in Chunks : d # c => handle'[d] = handle[d]
      BY <2>1, <1>1
    <2>3. CASE Flush({c}) /\ UNCHANGED <<unwinding, loud, aborted>>
      <3>1. /\ StoreTyped' /\ MarkInv' /\ modified' = modified \ {c}
            /\ \A d \in Chunks : d \notin {c} => disk'[d] = disk[d]
        BY <1>1, <2>3, FlushKeeps
      <3>2. LetGoInv'
        BY <3>1, <2>2, <2>3, <1>1 DEF LetGoInv
      <3> QED  BY <3>1, <3>2, <2>2, <2>3, <1>1, <1>3
    <2>4. CASE /\ FlushFails({}, c)
               /\ unwinding' = unwinding \cup {dropper}
               /\ loud' = loud \cup {c}
               /\ aborted' = (dropper \in unwinding)
      <3>1. c \notin {}
        OBVIOUS
      <3>2. /\ StoreTyped' /\ MarkInv' /\ modified' \subseteq modified
            /\ \A d \in Chunks : d \notin {} \cup {c} => disk'[d] = disk[d]
        BY <3>1, <1>1, <2>4, FlushFailsKeeps
      <3>3. LetGoInv'
        BY <3>2, <2>2, <2>4, <1>1 DEF LetGoInv
      <3>4. aborted' \in BOOLEAN
        BY <2>4
      <3> QED  BY <3>2, <3>3, <3>4, <2>2, <2>4, <1>1, <1>3
    <2> QED  BY <2>1, <2>3, <2>4
  <1> QED  BY <1>2, <1>3

\* The second half of a handle's drop.  While the iterator lives it holds every
\* chunk, and nothing is let go.
LEMMA ReleaseHandleKeeps ==
  ASSUME IInv, NEW p \in Places, ReleaseHandle(p)
  PROVE  IInv'
PROOF
  <1> DEFINE c == p[1]
  <1>1. /\ p \in checked /\ checked' = checked \ {p} /\ Release(c, p)
        /\ UNCHANGED <<ends, walk, held>>
    BY DEF ReleaseHandle
  <1>2. c \in Chunks /\ handle[c] = "open"
    BY <1>1 DEF IInv, HeldInv
  <1>3. Chunks' = Chunks /\ RangesInv' /\ UNCHANGED <<iter, cursor, pos, key, entry>>
    BY <1>1, RangesKept DEF IInv, walk
  <1>4. /\ StoreTyped' /\ MarkInv' /\ LetGoInv'
        /\ handle' \in [Chunks -> {"none", "open", "view", "error", "dropped"}]
        /\ unwinding' \subseteq Places \cup {Iterator}
        /\ loud' \subseteq Chunks /\ aborted' \in BOOLEAN
        /\ \A d \in Chunks : d # c => handle'[d] = handle[d]
        /\ handle' = handle \/ Sole(c, p)
    BY <1>1, <1>2, ReleaseKeeps
  <1>5. held' \cup checked' \subseteq (held \cup checked) \ {p}
    BY <1>1 DEF IInv, TypeOK
  <1> HIDE DEF c
  <1>6. \A q \in held' \cup checked' : handle'[q[1]] = handle[q[1]]
    <2> SUFFICES ASSUME NEW q \in held' \cup checked', handle'[q[1]] # handle[q[1]]
                 PROVE  FALSE
      OBVIOUS
    <2>1. q \in held \cup checked /\ q # p /\ q[1] \in Chunks
      BY <1>5 DEF IInv, HeldInv
    <2>2. q[1] = c /\ Sole(c, p)
      BY <2>1, <1>4
    <2>3. q \in Holders(c)
      BY <2>1, <2>2 DEF Holders
    <2> QED  BY <2>1, <2>2, <2>3 DEF Sole
  <1>7. iter \in {"live", "chunks"} => handle' = handle
    <2>1. iter # "chunks"
      BY <1>1 DEF IInv, WalkInv
    <2>2. ASSUME iter = "live", Sole(c, p) PROVE FALSE
      <3>1. Iterator \in Holders(c)
        BY <2>2 DEF Holders
      <3> QED  BY <2>2, <3>1, IteratorIsNoPlace DEF Sole
    <2> QED  BY <2>1, <2>2, <1>4
  <1>8. TypeOK'
    <2>1. held' \subseteq Places /\ checked' \subseteq Places /\ held' \cap checked' = {}
      BY <1>1 DEF IInv, TypeOK
    <2> QED  BY <2>1, <1>1, <1>3, <1>4, IteratorIsNoPlace DEF IInv, TypeOK, StoreTyped
  <1>9. WalkInv'
    BY <1>1, <1>3, <1>5, <1>7 DEF IInv, WalkInv, StartOf, EndOf
  <1>10. HeldInv'
    <2>1. ASSUME NEW q \in held' \cup checked'
          PROVE  /\ q[1] \in Chunks /\ handle'[q[1]] = "open"
                 /\ StartOf(q[1]) + q[2] < EndOf(q[1])
                 /\ StartOf(q[1]) + q[2] < pos
                 /\ iter = "live" => q[1] <= entry
      BY <1>5, <1>6 DEF IInv, HeldInv
    <2> QED  BY <2>1, <1>1, <1>3 DEF HeldInv, StartOf, EndOf
  <1> QED  BY <1>3, <1>4, <1>8, <1>9, <1>10 DEF IInv

LEMMA IterDropKeeps ==
  ASSUME IInv, IterDrop
  PROVE  IInv'
PROOF
  <1>1. /\ iter' = "flushing" /\ cursor' = 1
        /\ UNCHANGED <<ends, store, handle, pos, key, entry, held, checked, unwinding,
                       aborted, loud, failures>>
    BY DEF IterDrop
  <1>2. Chunks' = Chunks /\ RangesInv'
    BY <1>1, RangesKept DEF IInv
  <1>3. StoreTyped' /\ MarkInv' /\ modified' = modified
    BY <1>1, StoreUnchanged
  <1>4. TypeOK'
    BY <1>1, <1>2, <1>3, IteratorIsNoPlace DEF IInv, TypeOK, StoreTyped
  <1>5. WalkInv' /\ HeldInv' /\ LetGoInv'
    BY <1>1, <1>2, <1>3 DEF IInv, WalkInv, HeldInv, LetGoInv, StartOf, EndOf
  <1> QED  BY <1>2, <1>3, <1>4, <1>5 DEF IInv

\* The iterator's drop goes on to the next chunk, or to what comes after.
LEMMA StepTyped ==
  ASSUME IInv, NEW next, Step(next)
  PROVE  /\ cursor' \in Chunks \cup {1}
         /\ iter' = iter \/ iter' = next
PROOF
  <1>1. Chunks = 1..Len(ends) /\ Len(ends) \in Nat
    BY Basics
  <1>2. cursor \in Chunks \cup {1}
    BY DEF IInv, TypeOK
  <1>3. CASE cursor < Len(ends)
    BY <1>1, <1>2, <1>3 DEF Step
  <1>4. CASE ~ (cursor < Len(ends))
    BY <1>4 DEF Step
  <1> QED  BY <1>3, <1>4

LEMMA DropFlushesKeeps ==
  ASSUME IInv, DropFlushes
  PROVE  IInv'
PROOF
  <1>1. /\ iter = "flushing"
        /\ UNCHANGED <<ends, handle, pos, key, entry, held, checked, aborted, loud>>
    BY DEF DropFlushes
  <1>2. Chunks' = Chunks /\ RangesInv'
    BY <1>1, RangesKept DEF IInv
  <1>3. /\ StoreTyped' /\ MarkInv' /\ modified' \subseteq modified
        /\ unwinding' \subseteq Places \cup {Iterator}
        /\ cursor' \in Chunks \cup {1}
        /\ iter' \in {"flushing", "releasing"}
    <2>1. CASE cursor \in Chunks /\ handle[cursor] = "open" /\ Sole(cursor, Iterator)
      <3>1. /\ FlushOrPanic(cursor, Iterator)
            /\ IF Iterator \in unwinding'
                 THEN iter' = "releasing" /\ cursor' = 1
                 ELSE Step("releasing")
        BY <2>1 DEF DropFlushes
      <3>2. /\ StoreTyped' /\ MarkInv' /\ modified' \subseteq modified
            /\ unwinding' \subseteq Places \cup {Iterator}
        BY <3>1, <1>1, DropFlushKeeps
      <3>3. cursor' \in Chunks \cup {1} /\ iter' \in {"flushing", "releasing"}
        <4>1. CASE Iterator \in unwinding'
          BY <3>1, <4>1
        <4>2. CASE Iterator \notin unwinding'
          BY <3>1, <4>2, <1>1, StepTyped
        <4> QED  BY <4>1, <4>2
      <3> QED  BY <3>2, <3>3
    <2>2. CASE ~ (cursor \in Chunks /\ handle[cursor] = "open" /\ Sole(cursor, Iterator))
      <3>1. Step("releasing") /\ UNCHANGED <<store, failures, unwinding>>
        BY <2>2 DEF DropFlushes
      <3>2. cursor' \in Chunks \cup {1} /\ iter' \in {"flushing", "releasing"}
        BY <3>1, <1>1, StepTyped
      <3>3. StoreTyped' /\ MarkInv' /\ modified' = modified
        BY <3>1, <1>1, StoreUnchanged
      <3>4. unwinding' \subseteq Places \cup {Iterator}
        BY <3>1 DEF IInv, TypeOK
      <3> QED  BY <3>2, <3>3, <3>4
    <2> QED  BY <2>1, <2>2
  <1>4. TypeOK'
    BY <1>1, <1>2, <1>3, IteratorIsNoPlace DEF IInv, TypeOK, StoreTyped
  <1>5. WalkInv' /\ HeldInv' /\ LetGoInv'
    BY <1>1, <1>2, <1>3 DEF IInv, WalkInv, HeldInv, LetGoInv, StartOf, EndOf
  <1> QED  BY <1>2, <1>3, <1>4, <1>5 DEF IInv

LEMMA IterDropReleaseKeeps ==
  ASSUME IInv, IterDropRelease
  PROVE  IInv'
PROOF
  <1>1. /\ iter = "releasing" /\ Step("gone")
        /\ UNCHANGED <<ends, pos, key, entry, held, checked>>
    BY DEF IterDropRelease
  <1>2. Chunks' = Chunks /\ RangesInv'
    BY <1>1, RangesKept DEF IInv
  <1>3. cursor' \in Chunks \cup {1} /\ iter' \in {"releasing", "gone"}
    BY <1>1, StepTyped
  <1>4. /\ StoreTyped' /\ MarkInv' /\ LetGoInv'
        /\ handle' \in [Chunks -> {"none", "open", "view", "error", "dropped"}]
        /\ unwinding' \subseteq Places \cup {Iterator}
        /\ loud' \subseteq Chunks /\ aborted' \in BOOLEAN
        /\ \A q \in held \cup checked : handle'[q[1]] = handle[q[1]]
    <2>1. CASE cursor \in Chunks /\ handle[cursor] = "open"
      <3>1. Release(cursor, Iterator)
        BY <2>1 DEF IterDropRelease
      <3>2. /\ StoreTyped' /\ MarkInv' /\ LetGoInv'
            /\ handle' \in [Chunks -> {"none", "open", "view", "error", "dropped"}]
            /\ unwinding' \subseteq Places \cup {Iterator}
            /\ loud' \subseteq Chunks /\ aborted' \in BOOLEAN
            /\ \A d \in Chunks : d # cursor => handle'[d] = handle[d]
            /\ handle' = handle \/ Sole(cursor, Iterator)
        BY <3>1, <2>1, <1>1, ReleaseKeeps
      <3>3. ASSUME NEW q \in held \cup checked, handle'[q[1]] # handle[q[1]] PROVE FALSE
        <4>1. q \in Places /\ q[1] \in Chunks
          BY DEF IInv, TypeOK, HeldInv
        <4>2. q[1] = cursor /\ Sole(cursor, Iterator)
          BY <3>2, <3>3, <4>1
        <4>3. q \in Holders(cursor)
          BY <4>2 DEF Holders
        <4> QED  BY <4>1, <4>2, <4>3, IteratorIsNoPlace DEF Sole
      <3> QED  BY <3>2, <3>3
    <2>2. CASE ~ (cursor \in Chunks /\ handle[cursor] = "open")
      <3>1. UNCHANGED <<store, handle, failures, unwinding, loud, aborted>>
        BY <2>2 DEF IterDropRelease
      <3>2. StoreTyped' /\ MarkInv' /\ modified' = modified
        BY <3>1, <1>1, StoreUnchanged
      <3>3. LetGoInv'
        BY <3>1, <3>2, <1>2 DEF IInv, LetGoInv
      <3> QED  BY <3>1, <3>2, <3>3 DEF IInv, TypeOK
    <2> QED  BY <2>1, <2>2
  <1>5. TypeOK'
    BY <1>1, <1>2, <1>3, <1>4, IteratorIsNoPlace DEF IInv, TypeOK, StoreTyped
  <1>6. WalkInv'
    BY <1>1, <1>2, <1>3 DEF IInv, WalkInv
  <1>7. HeldInv'
    BY <1>1, <1>2, <1>3, <1>4 DEF IInv, HeldInv, StartOf, EndOf
  <1> QED  BY <1>2, <1>4, <1>5, <1>6, <1>7 DEF IInv

-----------------------------------------------------------------------------
(***************************************************************************)
(* Flushes asked for, and the chunk iterators.                             *)
(***************************************************************************)
LEMMA FlushOpenedKeeps ==
  ASSUME IInv, FlushOpened
  PROVE  IInv'
PROOF
  <1> DEFINE opened == {c \in Chunks : handle[c] = "open"}
  <1>1. UNCHANGED <<ends, handle, walk, held, checked, unwinding, aborted, loud>>
    BY DEF FlushOpened
  <1>2. StoreTyped' /\ MarkInv' /\ modified' \subseteq modified
    <2>1. CASE Flush(opened)
      BY <2>1, <1>1, FlushKeeps DEF IInv
    <2>2. ASSUME NEW bad \in opened, FlushFails({c \in opened : c < bad}, bad)
          PROVE  StoreTyped' /\ MarkInv' /\ modified' \subseteq modified
      <3>1. bad \in Nat
        BY Basics
      <3>2. bad \notin {c \in opened : c < bad}
        BY <3>1
      <3> QED  BY <2>2, <3>2, <1>1, FlushFailsKeeps DEF IInv
    <2> QED  BY <2>1, <2>2 DEF FlushOpened
  <1>3. unwinding' \subseteq Places \cup {Iterator}
    BY <1>1 DEF IInv, TypeOK
  <1> QED  BY <1>1, <1>2, <1>3, StoreStep

\* One chunk flushed, whoever asked.
LEMMA OneFlushKeeps ==
  ASSUME IInv, NEW c, Flush({c}) \/ FlushFails({}, c),
         UNCHANGED <<ends, handle, walk, held, checked, unwinding, aborted, loud>>
  PROVE  IInv'
PROOF
  <1>1. StoreTyped' /\ MarkInv' /\ modified' \subseteq modified
    <2>1. CASE Flush({c})
      BY <2>1, FlushKeeps DEF IInv
    <2>2. CASE FlushFails({}, c)
      <3>1. c \notin {}
        OBVIOUS
      <3> QED  BY <2>2, <3>1, FlushFailsKeeps DEF IInv
    <2> QED  BY <2>1, <2>2
  <1>2. unwinding' \subseteq Places \cup {Iterator}
    BY DEF IInv, TypeOK
  <1> QED  BY <1>1, <1>2, StoreStep

LEMMA GiveChunkKeeps ==
  ASSUME IInv, NEW opened \in {"open", "view"}, GiveChunk(opened)
  PROVE  IInv'
PROOF
  <1>1. /\ iter = "chunks" /\ entry < Len(ends) /\ entry' = entry + 1
        /\ UNCHANGED <<ends, store, iter, cursor, pos, key, held, checked, unwinding,
                       aborted, loud, failures>>
    BY DEF GiveChunk
  <1>2. PICK result \in {opened, "error"} : handle' = [handle EXCEPT ![entry'] = result]
    BY DEF GiveChunk
  <1>3. /\ Chunks = 1..Len(ends) /\ Len(ends) \in Nat /\ entry \in 0..Len(ends)
        /\ Len(ends) <= MaxChunks /\ MaxChunks \in Nat
    BY Basics, BoundsAssumption DEF IInv, TypeOK
  <1>4. entry' \in Chunks /\ entry' \in 0..MaxChunks /\ entry' <= Len(ends)
    BY <1>1, <1>3
  <1>5. /\ handle' \in [Chunks -> {"none", "open", "view", "error", "dropped"}]
        /\ \A c \in Chunks : c # entry' => handle'[c] = handle[c]
        /\ handle'[entry'] # "dropped"
    BY <1>2, <1>4 DEF IInv, TypeOK
  <1>6. Chunks' = Chunks /\ RangesInv' /\ held' \cup checked' = {}
    BY <1>1, RangesKept DEF IInv, WalkInv
  <1>7. StoreTyped' /\ MarkInv' /\ modified' = modified
    BY <1>1, StoreUnchanged
  <1>8. TypeOK'
    BY <1>1, <1>4, <1>5, <1>6, <1>7, IteratorIsNoPlace DEF IInv, TypeOK, StoreTyped
  <1>9. WalkInv'
    <2>1. ASSUME NEW c \in Chunks, c > entry' PROVE handle'[c] = "none"
      <3>1. c # entry' /\ c > entry
        BY <2>1, <1>1, <1>3
      <3>2. handle[c] = "none"
        BY <3>1, <1>1 DEF IInv, WalkInv
      <3> QED  BY <3>1, <3>2, <1>5
    <2> QED  BY <2>1, <1>1, <1>4, <1>6 DEF IInv, WalkInv
  <1>10. HeldInv'
    BY <1>6 DEF HeldInv
  <1>11. LetGoInv'
    BY <1>1, <1>5, <1>6, <1>7 DEF IInv, LetGoInv
  <1> QED  BY <1>6, <1>7, <1>8, <1>9, <1>10, <1>11 DEF IInv

LEMMA ChunkDropKeeps ==
  ASSUME IInv, NEW c \in Chunks, ChunkDrop(c)
  PROVE  IInv'
PROOF
  <1>1. /\ iter = "chunks" /\ handle[c] \in {"open", "view"}
        /\ handle' = [handle EXCEPT ![c] = "dropped"]
        /\ UNCHANGED <<ends, walk, held, checked, unwinding, aborted>>
    BY DEF ChunkDrop
  <1>2. Chunks' = Chunks /\ RangesInv' /\ UNCHANGED <<iter, cursor, pos, key, entry>>
    BY <1>1, RangesKept DEF IInv, walk
  <1>3. /\ handle' \in [Chunks -> {"none", "open", "view", "error", "dropped"}]
        /\ \A d \in Chunks : d # c => handle'[d] = handle[d]
    BY <1>1 DEF IInv, TypeOK
  <1>4. /\ StoreTyped' /\ MarkInv' /\ modified' \subseteq modified
        /\ loud \subseteq loud' /\ loud' \subseteq Chunks
        /\ c \notin modified' \/ c \in loud'
    <2>1. CASE Flush({c}) /\ UNCHANGED loud
      BY <2>1, <1>1, FlushKeeps DEF IInv, TypeOK
    <2>2. CASE FlushFails({}, c) /\ loud' = loud \cup {c}
      <3>1. c \notin {}
        OBVIOUS
      <3>2. StoreTyped' /\ MarkInv' /\ modified' \subseteq modified
        BY <2>2, <3>1, <1>1, FlushFailsKeeps DEF IInv
      <3> QED  BY <2>2, <3>2 DEF IInv, TypeOK
    <2> QED  BY <2>1, <2>2 DEF ChunkDrop
  <1>5. held' \cup checked' = {}
    BY <1>1 DEF IInv, WalkInv
  <1>6. TypeOK'
    BY <1>1, <1>2, <1>3, <1>4, IteratorIsNoPlace DEF IInv, TypeOK, StoreTyped
  <1>7. WalkInv'
    <2>1. ASSUME NEW d \in Chunks, d > entry PROVE handle'[d] = "none"
      <3>1. handle[d] = "none"
        BY <2>1, <1>1 DEF IInv, WalkInv
      <3> QED  BY <3>1, <1>1, <1>3
    <2> QED  BY <2>1, <1>1, <1>2, <1>5 DEF IInv, WalkInv
  <1>8. HeldInv'
    BY <1>5 DEF HeldInv
  <1>9. LetGoInv'
    BY <1>2, <1>3, <1>4 DEF IInv, LetGoInv
  <1> QED  BY <1>2, <1>4, <1>6, <1>7, <1>8, <1>9 DEF IInv

LEMMA StutterKeeps ==
  ASSUME IInv, UNCHANGED vars
  PROVE  IInv'
PROOF
  <1>1. UNCHANGED <<ends, store, handle, walk, held, checked, unwinding, aborted, loud,
                    failures>>
    BY DEF vars
  <1>2. StoreTyped' /\ MarkInv' /\ modified' = modified
    BY <1>1, StoreUnchanged
  <1>3. unwinding' \subseteq Places \cup {Iterator}
    BY <1>1 DEF IInv, TypeOK
  <1> QED  BY <1>1, <1>2, <1>3, StoreStep

LEMMA NextKeeps ==
  ASSUME IInv, [Next]_vars
  PROVE  IInv'
PROOF
  <1>1. CASE IterNth \/ GenericIterNth
    <2>1. PICK n \in 0..MaxSkip : Nth(n)
      BY <1>1 DEF IterNth, GenericIterNth
    <2>2. KeyFor(pos + n) \in Nat /\ Len(ends) \in Nat
      <3>1. /\ pos + n \in Nat /\ ends \in Seq(Nat) /\ key \in 1..(Len(ends) + 1)
            /\ Len(ends) \in Nat
        BY Basics, BoundsAssumption
      <3> QED  BY <3>1, KeyForFinds
    <2> QED  BY <2>1, <2>2, NthBeyond, NthInside
  <1>2. CASE IterFlush \/ GenericIterFlush
    BY <1>2, FlushOpenedKeeps DEF IterFlush, GenericIterFlush
  <1>3. ASSUME NEW p \in Places, Mutate(p) \/ HandleFlush(p) \/ CheckHandle(p) \/ ReleaseHandle(p)
        PROVE  IInv'
    <2>1. CASE Mutate(p)
      BY <2>1, MutateKeeps
    <2>2. CASE HandleFlush(p)
      BY <2>2, OneFlushKeeps DEF HandleFlush
    <2>3. CASE CheckHandle(p)
      BY <2>3, CheckHandleKeeps
    <2>4. CASE ReleaseHandle(p)
      BY <2>4, ReleaseHandleKeeps
    <2> QED  BY <1>3, <2>1, <2>2, <2>3, <2>4
  <1>4. CASE IterDrop
    BY <1>4, IterDropKeeps
  <1>5. CASE IterDropFlush \/ GenericIterDropFlush
    BY <1>5, DropFlushesKeeps DEF IterDropFlush, GenericIterDropFlush
  <1>6. CASE IterDropRelease
    BY <1>6, IterDropReleaseKeeps
  <1>7. CASE ChunkMutNext \/ GenericChunkMutNext
    BY <1>7, GiveChunkKeeps DEF ChunkMutNext, GenericChunkMutNext
  <1>8. ASSUME NEW c \in Chunks, ChunkMutate(c) \/ ChunkFlush(c) \/ ChunkDrop(c)
        PROVE  IInv'
    <2>1. CASE ChunkMutate(c)
      BY <2>1, ChunkMutateKeeps
    <2>2. CASE ChunkFlush(c)
      BY <2>2, OneFlushKeeps DEF ChunkFlush
    <2>3. CASE ChunkDrop(c)
      BY <2>3, ChunkDropKeeps
    <2> QED  BY <1>8, <2>1, <2>2, <2>3
  <1>9. CASE UNCHANGED vars
    BY <1>9, StutterKeeps
  <1> QED  BY <1>1, <1>2, <1>3, <1>4, <1>5, <1>6, <1>7, <1>8, <1>9 DEF Next

\* The inductive invariant holds in every state of every walk.
THEOREM Invariance == Spec => []IInv
PROOF
  <1> QED  BY InitInv, NextKeeps, PTL DEF Spec

\* The walk keeps its types: no item is held twice, no chunk is opened behind
\* the last (slice.rs:259-304).
THEOREM TypeCorrect == Spec => []TypeOK
PROOF
  <1>1. IInv => TypeOK
    BY DEF IInv
  <1> QED  BY <1>1, Invariance, PTL

\* A chunk whose handle is gone is on disk, or its own drop panicked, or it was
\* written to after a flush had taken its mark (slice.rs:354-356).
THEOREM NothingIsLostInSilence == Spec => []NoSilentLoss
PROOF
  <1>1. IInv => NoSilentLoss
    BY DEF IInv, MarkInv, LetGoInv, NoSilentLoss
  <1> QED  BY <1>1, Invariance, PTL

\* A handle is given out for the item at its position, over empty chunks and
\* skips (slice.rs:259-304).
THEOREM HandlesStayOnTheirItems == Spec => []HandlesNameTheirItems
PROOF
  <1>1. IInv => HandlesNameTheirItems
    BY DEF IInv, WalkInv, HeldInv, HandlesNameTheirItems
  <1> QED  BY <1>1, Invariance, PTL

-----------------------------------------------------------------------------
(***************************************************************************)
(* Who writes while dropping is alone with the chunk.                      *)
(***************************************************************************)
LEMMA StillDisk ==
  ASSUME disk' = disk \/ UNCHANGED <<walk, held, checked>>
  PROVE  FlushesAlone
PROOF
  BY DEF FlushesAlone

\* A handle that finds itself the last: the iterator is gone, or past the
\* chunk, and no other handle is left.
LEMMA SoleHandle ==
  ASSUME IInv, NEW p \in held \cup checked, Sole(p[1], p)
  PROVE  /\ iter # "live"
         /\ \A q \in held \cup checked : q[1] = p[1] => q = p
PROOF
  <1>1. p \in Places
    BY DEF IInv, TypeOK
  <1>2. iter # "live"
    <2> SUFFICES ASSUME iter = "live" PROVE FALSE
      OBVIOUS
    <2>1. Iterator \in Holders(p[1])
      BY DEF Holders
    <2> QED  BY <2>1, <1>1, IteratorIsNoPlace DEF Sole
  <1>3. ASSUME NEW q \in held \cup checked, q[1] = p[1] PROVE q = p
    <2>1. q \in Holders(p[1])
      BY <1>3 DEF Holders
    <2> QED  BY <2>1 DEF Sole
  <1> QED  BY <1>2, <1>3

\* The iterator that finds itself the last: no handle is left.
LEMMA SoleIterator ==
  ASSUME IInv, NEW c, Sole(c, Iterator)
  PROVE  \A q \in held \cup checked : q[1] # c
PROOF
  <1> SUFFICES ASSUME NEW q \in held \cup checked, q[1] = c PROVE FALSE
    OBVIOUS
  <1>1. q \in Holders(c)
    BY DEF Holders
  <1>2. q \in Places
    BY DEF IInv, TypeOK
  <1> QED  BY <1>1, <1>2, IteratorIsNoPlace DEF Sole

LEMMA CheckHandleAlone ==
  ASSUME IInv, NEW p \in Places, CheckHandle(p)
  PROVE  FlushesAlone
PROOF
  <1>1. /\ p \in held /\ held' = held \ {p} /\ checked' = checked \cup {p}
        /\ UNCHANGED <<ends, walk>>
    BY DEF CheckHandle
  <1>2. CASE ~ Sole(p[1], p)
    BY <1>2, StillDisk DEF CheckHandle, store
  <1>3. CASE Sole(p[1], p)
    <2>1. FlushOrPanic(p[1], p)
      BY <1>3 DEF CheckHandle
    <2>2. \A d \in Chunks : d # p[1] => disk'[d] = disk[d]
      BY <2>1, <1>1, DropFlushKeeps
    <2>3. iter # "live" /\ \A q \in held \cup checked : q[1] = p[1] => q = p
      BY <1>1, <1>3, SoleHandle
    <2>4. p \in Dropped /\ iter' = iter
      BY <1>1 DEF Dropped, walk
    <2>5. held' \cup checked' = held \cup checked
      BY <1>1
    <2> QED  BY <2>2, <2>3, <2>4, <2>5 DEF FlushesAlone
  <1> QED  BY <1>2, <1>3

LEMMA ReleaseHandleAlone ==
  ASSUME IInv, NEW p \in Places, ReleaseHandle(p)
  PROVE  FlushesAlone
PROOF
  <1>1. /\ p \in checked /\ checked' = checked \ {p} /\ Release(p[1], p)
        /\ UNCHANGED <<ends, walk, held>> /\ p[1] \in Chunks
    BY DEF ReleaseHandle, IInv, HeldInv
  <1>2. /\ \A d \in Chunks : d # p[1] => disk'[d] = disk[d]
        /\ disk' = disk \/ Sole(p[1], p)
    BY <1>1, ReleaseKeeps
  <1>3. CASE disk' = disk
    BY <1>3, StillDisk
  <1>4. CASE Sole(p[1], p)
    <2>1. iter # "live" /\ \A q \in held \cup checked : q[1] = p[1] => q = p
      BY <1>1, <1>4, SoleHandle
    <2>2. held' \cup checked' \subseteq held \cup checked /\ p \notin held' \cup checked'
      BY <1>1 DEF IInv, TypeOK
    <2>3. iter' = iter
      BY <1>1 DEF walk
    <2>4. {q \in held' \cup checked' : q[1] = p[1]} = {}
      BY <2>1, <2>2
    <2> QED  BY <1>2, <2>1, <2>3, <2>4 DEF FlushesAlone
  <1> QED  BY <1>2, <1>3, <1>4

LEMMA IteratorAlone ==
  ASSUME IInv, DropFlushes \/ IterDropRelease
  PROVE  FlushesAlone
PROOF
  <1>1. /\ UNCHANGED <<ends, held, checked>> /\ iter' # "live"
        /\ iter \in {"flushing", "releasing"}
    <2>1. CASE DropFlushes
      <3>1. iter = "flushing" /\ UNCHANGED <<ends, held, checked>>
        BY <2>1 DEF DropFlushes
      <3>2. iter' = "releasing" \/ Step("releasing")
        BY <2>1 DEF DropFlushes
      <3>3. iter' # "live"
        BY <3>1, <3>2, StepTyped
      <3> QED  BY <3>1, <3>3
    <2>2. CASE IterDropRelease
      <3>1. iter = "releasing" /\ UNCHANGED <<ends, held, checked>> /\ Step("gone")
        BY <2>2 DEF IterDropRelease
      <3>2. iter' # "live"
        BY <3>1, StepTyped
      <3> QED  BY <3>1, <3>2
    <2> QED  BY <2>1, <2>2
  <1>2. \/ disk' = disk
        \/ /\ Sole(cursor, Iterator)
           /\ \A d \in Chunks : d # cursor => disk'[d] = disk[d]
    <2>1. CASE DropFlushes
      <3>1. CASE cursor \in Chunks /\ handle[cursor] = "open" /\ Sole(cursor, Iterator)
        <4>1. FlushOrPanic(cursor, Iterator)
          BY <2>1, <3>1 DEF DropFlushes
        <4> QED  BY <3>1, <4>1, <1>1, DropFlushKeeps
      <3>2. CASE ~ (cursor \in Chunks /\ handle[cursor] = "open" /\ Sole(cursor, Iterator))
        BY <2>1, <3>2 DEF DropFlushes, store
      <3> QED  BY <3>1, <3>2
    <2>2. CASE IterDropRelease
      <3>1. CASE cursor \in Chunks /\ handle[cursor] = "open"
        <4>1. Release(cursor, Iterator)
          BY <2>2, <3>1 DEF IterDropRelease
        <4> QED  BY <3>1, <4>1, <1>1, ReleaseKeeps
      <3>2. CASE ~ (cursor \in Chunks /\ handle[cursor] = "open")
        BY <2>2, <3>2 DEF IterDropRelease, store
      <3> QED  BY <3>1, <3>2
    <2> QED  BY <2>1, <2>2
  <1>3. CASE disk' = disk
    BY <1>3, StillDisk
  <1>4. CASE Sole(cursor, Iterator) /\ \A d \in Chunks : d # cursor => disk'[d] = disk[d]
    <2>1. \A q \in held \cup checked : q[1] # cursor
      BY <1>4, SoleIterator
    <2>2. {q \in held' \cup checked' : q[1] = cursor} = {}
      BY <2>1, <1>1
    <2> QED  BY <1>1, <1>4, <2>2 DEF FlushesAlone
  <1> QED  BY <1>2, <1>3, <1>4

LEMMA NextFlushesAlone ==
  ASSUME IInv, [Next]_vars
  PROVE  FlushesAlone
PROOF
  <1>1. CASE IterNth \/ GenericIterNth
    BY <1>1, StillDisk DEF IterNth, GenericIterNth, Nth
  <1>2. CASE IterFlush \/ GenericIterFlush
    BY <1>2, StillDisk DEF IterFlush, GenericIterFlush, FlushOpened
  <1>3. ASSUME NEW p \in Places, Mutate(p) \/ HandleFlush(p) \/ CheckHandle(p) \/ ReleaseHandle(p)
        PROVE  FlushesAlone
    <2>1. CASE Mutate(p)
      BY <2>1, StillDisk DEF Mutate
    <2>2. CASE HandleFlush(p)
      BY <2>2, StillDisk DEF HandleFlush
    <2>3. CASE CheckHandle(p)
      BY <2>3, CheckHandleAlone
    <2>4. CASE ReleaseHandle(p)
      BY <2>4, ReleaseHandleAlone
    <2> QED  BY <1>3, <2>1, <2>2, <2>3, <2>4
  <1>4. CASE IterDrop
    BY <1>4, StillDisk DEF IterDrop, store
  <1>5. CASE IterDropFlush \/ GenericIterDropFlush \/ IterDropRelease
    BY <1>5, IteratorAlone DEF IterDropFlush, GenericIterDropFlush
  <1>6. CASE ChunkMutNext \/ GenericChunkMutNext
    BY <1>6, StillDisk DEF ChunkMutNext, GenericChunkMutNext, GiveChunk, store
  <1>7. ASSUME NEW c \in Chunks, ChunkMutate(c) \/ ChunkFlush(c) \/ ChunkDrop(c)
        PROVE  FlushesAlone
    BY <1>7, StillDisk DEF ChunkMutate, ChunkFlush, ChunkDrop
  <1>8. CASE UNCHANGED vars
    BY <1>8, StillDisk DEF vars
  <1> QED  BY <1>1, <1>2, <1>3, <1>4, <1>5, <1>6, <1>7, <1>8 DEF Next

\* A drop writes a chunk only when no other handle to it is left (mod.rs:378,
\* slice.rs:229).
THEOREM DropsStayAlone == Spec => DropsFlushAlone
PROOF
  <1>1. IInv /\ [Next]_vars => [FlushesAlone]_vars
    BY NextFlushesAlone
  <1> QED  BY <1>1, Invariance, PTL DEF Spec, DropsFlushAlone
=============================================================================
