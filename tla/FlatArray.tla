------------------------------ MODULE FlatArray ------------------------------
(***************************************************************************)
(* What a BackedArray is to its users: one sequence of items that grows at *)
(* its end, from which contiguous runs are cut, and that answers reads.    *)
(* Chunks, ranges, memory and disks do not show.  BackedArray.tla is shown *)
(* to implement this specification.                                        *)
(***************************************************************************)
EXTENDS Naturals, Sequences

CONSTANTS
  Items,        (* what the array may hold                                  *)
  MaxGrowth,    (* bound: items added in one step                           *)
  NoRead

VARIABLES
  items,        (* the array                                                *)
  read          (* the last thing asked of it: a position and its item      *)

vars == <<items, read>>

Init ==
  /\ items \in UNION {[1..n -> Items] : n \in 0..MaxGrowth}
  /\ read = NoRead

Grow ==
  /\ Len(items') \in Len(items)..(Len(items) + MaxGrowth)
  /\ SubSeq(items', 1, Len(items)) = items
  /\ \A i \in (Len(items) + 1)..Len(items') : items'[i] \in Items
  /\ read' = NoRead

Cut ==
  /\ \E i \in 0..Len(items) : \E j \in i..Len(items) :
       items' = SubSeq(items, 1, i) \o SubSeq(items, j + 1, Len(items))
  /\ read' = NoRead

Read ==
  /\ \E i \in 1..Len(items) : read' = [at |-> i - 1, item |-> items[i]]
  /\ UNCHANGED items

\* A read that is refused, fails or is past the end.
Refuse == read' = NoRead /\ UNCHANGED items

Next == Grow \/ Cut \/ Read \/ Refuse

Spec == Init /\ [][Next]_vars
=============================================================================
