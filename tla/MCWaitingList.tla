---------------------------- MODULE MCWaitingList ----------------------------
(***************************************************************************)
(* Bounds for checking WaitingList on its own.                             *)
(***************************************************************************)
EXTENDS WaitingList, TLC

Symmetry == Permutations(Ids) \cup Permutations(Messages) \cup Permutations(Calls)
==============================================================================
