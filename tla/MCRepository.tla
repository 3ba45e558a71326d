---------------------------- MODULE MCRepository ----------------------------
(***************************************************************************)
(* Bounds for checking EntryRepository on its own.                         *)
(***************************************************************************)
EXTENDS EntryRepository, TLC

Symmetry == Permutations(Ids)
=============================================================================
