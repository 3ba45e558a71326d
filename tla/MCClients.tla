------------------------------ MODULE MCClients ------------------------------
(***************************************************************************)
(* Bounds for checking Clients.                                            *)
(***************************************************************************)
EXTENDS Clients, TLC

Symmetry ==
  Permutations(InboxPosts) \cup Permutations(InboxGets) \cup Permutations(InboxDeletes)
    \cup Permutations(InboxAwaits) \cup Permutations(Producers)

(***************************************************************************)
(* Producers that take turns on the id: none calls produceToRelay before   *)
(* the calls of the others have returned.                                  *)
(***************************************************************************)
UnderWay(x) == (at[x] = "post" /\ x \in Range(author)) \/ at[x] = "await"

TakeTurns == \A x, y \in Producers : UnderWay(x) /\ UnderWay(y) => x = y

TurnsSpec == ClientsInit /\ [][ClientsNext /\ TakeTurns']_all_vars
==============================================================================
