---------------------------- MODULE MCBackedEntry ----------------------------
(***************************************************************************)
(* BackedEntry for TLC.  Threads and values are only compared with each    *)
(* other, and every property checked with this symmetry is a safety        *)
(* property, so the states that differ by their names are one.             *)
(***************************************************************************)
EXTENDS BackedEntry, TLC

Symmetry == Permutations(Threads) \cup Permutations(Values)
=============================================================================
