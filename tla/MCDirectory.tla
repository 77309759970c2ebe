----------------------------- MODULE MCDirectory -----------------------------
(***************************************************************************)
(* DirectoryBackedArray for TLC.  Arrays, directories and names are only   *)
(* compared with each other, and every property is a safety property.      *)
(***************************************************************************)
EXTENDS DirectoryBackedArray, TLC

Symmetry == Permutations(Arrays) \cup Permutations(Roots) \cup Permutations(Names)
=============================================================================
