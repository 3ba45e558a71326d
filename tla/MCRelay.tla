------------------------------- MODULE MCRelay -------------------------------
(***************************************************************************)
(* Bounds for checking Relay.                                              *)
(***************************************************************************)
EXTENDS Relay, TLC

Symmetry ==
  Permutations(Ids) \cup Permutations(InboxPosts) \cup Permutations(InboxGets)
    \cup Permutations(InboxDeletes) \cup Permutations(InboxAwaits)
    \cup Permutations(LinkPosts) \cup Permutations(LinkGets)
==============================================================================
