------------------------- MODULE SecretBackedArray -------------------------
(***************************************************************************)
(* `SecretBackedArray` (src/src/array/container/encrypted.rs): a           *)
(* BackedArray whose keys are `SecretVecWrapper`s.  A secret vector cannot *)
(* grow: every resize makes a new one and copies into it, slice onto       *)
(* slice, and slices of different lengths make it panic, with the vector   *)
(* as it was.  The array is built, resized, and serialised; nothing is     *)
(* done with it after a panic.                                             *)
(***************************************************************************)
EXTENDS Naturals, SequencesExt

CONSTANTS
  SizeGuess,    (* the capacity to begin with when no size is known (16)    *)
  MaxEntries,   (* bound: chunks                                            *)
  MaxWidth      (* bound: items of a chunk                                  *)

VARIABLES
  starts, ends, (* the keys                                                 *)
  widths,       (* the lengths of the chunks                                *)
  panicked      (* whether the last operation did                           *)

vars == <<starts, ends, widths, panicked>>

Init == starts = <<>> /\ ends = <<>> /\ widths = <<>> /\ panicked = FALSE

-----------------------------------------------------------------------------
(***************************************************************************)
(* The vectors, counted from 1; what is not filled yet is random.          *)
(***************************************************************************)
Unset == MaxEntries * MaxWidth + 1
Random(n) == [i \in 1..n |-> Unset]
Vec(contents) == [ok |-> TRUE, vec |-> contents]

\* s[first..].copy_from_slice(source)
CopyFromSlice(s, first, source) ==
  IF s.ok /\ Len(s.vec) - first + 1 = Len(source)
    THEN Vec(SubSeq(s.vec, 1, first - 1) \o source) ELSE [s EXCEPT !.ok = FALSE]

\* SecretVec::new with two slices copied in, the first onto the whole vector.
CopyBoth(n, left, at, right) == CopyFromSlice(CopyFromSlice(Vec(Random(n)), 1, left), at, right)

FromIter(items) == CopyFromSlice(Vec(Random(Len(items))), 1, items)

Extend(self, items) == CopyBoth(Len(self) + Len(items), self, Len(self) + 1, FromIter(items).vec)

CPush(self, value) == Vec(Append(FromIter(self).vec, value))

CRemove(self, index) ==
  CopyBoth(Len(self) - 1, SubSeq(self, 1, index - 1), index,
           SubSeq(self, index + 1, Len(self)))

\* visit_seq: the capacity doubles when it is filled.
Grown(vec) == vec \o Random(Len(vec))
Filled(items, capacity) ==
  LET Put(vec, n) == [IF n > Len(vec) THEN Grown(vec) ELSE vec EXCEPT ![n] = items[n]]
      filled[n \in 0..Len(items)] ==
        IF n = 0 THEN Random(capacity) ELSE Put(filled[n - 1], n)
  IN  filled[Len(items)]

\* With what was not filled left there.
VisitSeqWhole(items, hint) == Filled(items, hint)

\* What was not filled is cut off.
VisitSeq(items, hint) == SubSeq(Filled(items, hint), 1, Len(items))

-----------------------------------------------------------------------------
(***************************************************************************)
(* The array.                                                              *)
(***************************************************************************)
KeysEnd == IF ends = <<>> THEN 0 ELSE Last(ends)
Tiles(s, e, w) ==
  /\ Len(s) = Len(w) /\ Len(e) = Len(w)
  /\ \A i \in DOMAIN w :
       s[i] = (IF i = 1 THEN 0 ELSE e[i - 1]) /\ e[i] = s[i] + w[i]

\* A panic leaves the key it happens in, and what follows, as it was.
Keys(s, e) ==
  /\ starts' = IF s.ok THEN s.vec ELSE starts
  /\ ends' = IF s.ok /\ e.ok THEN e.vec ELSE ends
  /\ panicked' = ~(s.ok /\ e.ok)

AppendMemory(width) ==
  /\ ~panicked /\ Len(widths) < MaxEntries
  /\ Keys(CPush(starts, KeysEnd), CPush(ends, KeysEnd + width))
  /\ widths' = Append(widths, width)

\* The entry goes first, then each key, shifted behind it.
RemoveEntry(i) ==
  /\ ~panicked /\ i \in DOMAIN widths
  /\ LET shift(vec) ==
           IF vec.ok THEN Vec([k \in DOMAIN vec.vec |->
                                 IF k < i THEN vec.vec[k] ELSE vec.vec[k] - widths[i]])
                     ELSE vec
     IN  Keys(shift(CRemove(starts, i)), shift(CRemove(ends, i)))
  /\ widths' = RemoveAt(widths, i)

\* rhs of n chunks that are one item wide; entries follow once the keys are in.
Merge(n) ==
  /\ ~panicked /\ Len(widths) + n <= MaxEntries
  /\ Keys(Extend(starts, [i \in 1..n |-> KeysEnd + i - 1]), Extend(ends, [i \in 1..n |-> KeysEnd + i]))
  /\ widths' = IF panicked' THEN widths ELSE widths \o [i \in 1..n |-> 1]

\* Serialised, and deserialised by a format that knows the size, or not.
Reload(sized) ==
  /\ ~panicked
  /\ Keys(Vec(VisitSeq(starts, IF sized THEN Len(starts) ELSE SizeGuess)),
          Vec(VisitSeq(ends, IF sized THEN Len(ends) ELSE SizeGuess)))
  /\ UNCHANGED widths

Next ==
  \/ \E width \in 0..MaxWidth : AppendMemory(width)
  \/ \E i \in 1..MaxEntries : RemoveEntry(i)
  \/ \E n \in 0..MaxEntries : Merge(n)
  \/ \E sized \in BOOLEAN : Reload(sized)

Spec == Init /\ [][Next]_vars

-----------------------------------------------------------------------------
\* The keys of an array give each chunk its place, through every resize that
\* ends and every way back from a file.
KeysTile == ~panicked => Tiles(starts, ends, widths)
=============================================================================
