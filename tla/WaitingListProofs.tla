-------------------------- MODULE WaitingListProofs --------------------------
(***************************************************************************)
(* Theorems about the waiting list, for every set of ids, messages and     *)
(* calls, every limit, both backends, with or without storage errors.      *)
(***************************************************************************)
EXTENDS WaitingList, EntryRepositoryProofs

\* Call c has its sender in the list of the given kind at id.
Waits(w, id, kind, c) == id \in DOMAIN w /\ c \in w[id][kind]

\* The senders of v are among those of w.
Fewer(v, w) ==
  \A id \in Ids, kind \in Kinds, c \in Calls : Waits(v, id, kind, c) => Waits(w, id, kind, c)

IsWaiterMap(w) == DOMAIN w \subseteq Ids /\ w \in [DOMAIN w -> Waiters]

ReceiverStates == {"none", "open", "sent", "dropped", "closed"}

\* Every sender is in one list, its receiver has not resolved, and every open
\* receiver has its sender in a list.
Wired(w, rec) ==
  /\ IsWaiterMap(w)
  /\ rec \in [Calls -> ReceiverStates]
  /\ \A id \in Ids, kind \in Kinds, c \in Calls :
       Waits(w, id, kind, c) => rec[c] \in {"open", "closed"}
  /\ \A c \in Calls :
       rec[c] = "open" => \E id \in Ids, kind \in Kinds : Waits(w, id, kind, c)
  /\ \A i, j \in Ids, k, l \in Kinds, c \in Calls :
       Waits(w, i, k, c) /\ Waits(w, j, l, c) => i = j /\ k = l

(***************************************************************************)
(* Which senders the operations on the map keep.                           *)
(***************************************************************************)

\* Membership in Senders, list by list.
LEMMA SendersAre ==
  ASSUME NEW w, IsWaiterMap(w), NEW S \in SUBSET Ids, NEW c \in Calls
  PROVE  c \in Senders(w, S) <=> \E id \in S, kind \in Kinds : Waits(w, id, kind, c)
BY DEF Senders, Waits, Kinds

\* Removing ids from the map.
LEMMA WithoutWaits ==
  ASSUME NEW w, IsWaiterMap(w), NEW S
  PROVE  /\ IsWaiterMap(Without(w, S))
         /\ \A id \in Ids, kind \in Kinds, c \in Calls :
              Waits(Without(w, S), id, kind, c) <=> Waits(w, id, kind, c) /\ id \notin S
BY DEF Without, Restrict, IsWaiterMap, Waits

\* Pruning removes exactly the closed senders.
LEMMA PruneWaits ==
  ASSUME NEW w, IsWaiterMap(w)
  PROVE  /\ IsWaiterMap(remove_closed_waiters(w))
         /\ \A id \in Ids, kind \in Kinds, c \in Calls :
              Waits(remove_closed_waiters(w), id, kind, c) <=>
                Waits(w, id, kind, c) /\ c \notin Closed
<1> DEFINE open == [id \in DOMAIN w |-> [ack |-> w[id].ack \ Closed,
                                         message |-> w[id].message \ Closed]]
           empty == {id \in DOMAIN w : open[id] = NoWaiters}
<1>1. remove_closed_waiters(w) = Without(open, empty)
  BY DEF remove_closed_waiters
<1>2. IsWaiterMap(open)
  BY DEF IsWaiterMap, Waiters
<1>3. \A id \in Ids, kind \in Kinds, c \in Calls :
        Waits(open, id, kind, c) <=> Waits(w, id, kind, c) /\ c \notin Closed
  BY DEF Waits, Kinds
<1>4. \A id \in empty, kind \in Kinds, c \in Calls : ~Waits(open, id, kind, c)
  BY DEF Waits, Kinds, NoWaiters
<1> HIDE DEF open, empty
<1> QED
  BY <1>1, <1>2, <1>3, <1>4, WithoutWaits

\* Ensuring capacity removes closed senders at most.
LEMMA EnsureWaits ==
  ASSUME NEW s, IsWaiterMap(s.waiters), s.prune_due \in BOOLEAN, NEW id
  PROVE  /\ IsWaiterMap(ensure_waiter_capacity(s, id).waiters)
         /\ ensure_waiter_capacity(s, id).prune_due \in BOOLEAN
         /\ \A j \in Ids, kind \in Kinds, c \in Calls :
              /\ Waits(ensure_waiter_capacity(s, id).waiters, j, kind, c) =>
                   Waits(s.waiters, j, kind, c)
              /\ Waits(s.waiters, j, kind, c) /\ c \notin Closed =>
                   Waits(ensure_waiter_capacity(s, id).waiters, j, kind, c)
BY PruneWaits DEF ensure_waiter_capacity

\* a is s with closed senders removed, and with c in a list if it has joined.
Joins(s, a, id, kind, c) ==
  /\ IsWaiterMap(a.waiters)
  /\ a.prune_due \in BOOLEAN
  /\ a.joined \in BOOLEAN
  /\ a.joined => Waits(a.waiters, id, kind, c)
  /\ \A j \in Ids, k \in Kinds, d \in Calls :
       /\ Waits(a.waiters, j, k, d) =>
            Waits(s.waiters, j, k, d) \/ (a.joined /\ j = id /\ k = kind /\ d = c)
       /\ Waits(s.waiters, j, k, d) /\ d \notin Closed => Waits(a.waiters, j, k, d)

\* Adding a waiter removes closed senders at most, and adds the caller if it joined.
LEMMA AddWaits ==
  ASSUME NEW s, IsWaiterMap(s.waiters), s.prune_due \in BOOLEAN,
         NEW id \in Ids, NEW kind \in Kinds, NEW c \in Calls
  PROVE  Joins(s, add_waiter(s, id, kind, c), id, kind, c)
<1> DEFINE e == ensure_waiter_capacity(s, id)
           room == has_room(e.waiters, id)
           live == waiters_at(e.waiters, id)[kind] \ Closed
           joined == room /\ Cardinality(live) < MaxWaitersPerEntry
           list == IF joined THEN live \cup {c} ELSE live
           at == [waiters_at(e.waiters, id) EXCEPT ![kind] = list]
           a == add_waiter(s, id, kind, c)
<1> SUFFICES Joins(s, a, id, kind, c)
  OBVIOUS
<1>1. /\ IsWaiterMap(e.waiters)
      /\ e.prune_due \in BOOLEAN
      /\ \A j \in Ids, k \in Kinds, d \in Calls :
           /\ Waits(e.waiters, j, k, d) => Waits(s.waiters, j, k, d)
           /\ Waits(s.waiters, j, k, d) /\ d \notin Closed => Waits(e.waiters, j, k, d)
  BY EnsureWaits
<1>2. /\ a.joined = joined
      /\ a.prune_due = e.prune_due
      /\ a.waiters = IF room THEN Put(e.waiters, id, at) ELSE e.waiters
  BY DEF add_waiter
<1> HIDE DEF e
<1>3. /\ waiters_at(e.waiters, id) \in Waiters
      /\ \A k \in Kinds, d \in Calls :
           Waits(e.waiters, id, k, d) <=> d \in waiters_at(e.waiters, id)[k]
  BY <1>1 DEF waiters_at, IsWaiterMap, Waiters, NoWaiters, Waits, Kinds
<1>4. /\ at \in Waiters
      /\ \A k \in Kinds : at[k] = IF k = kind THEN list ELSE waiters_at(e.waiters, id)[k]
  BY <1>3 DEF Waiters, Kinds
<1>5. joined \in BOOLEAN
  BY DEF has_room
<1>6. CASE ~room
  <2> HIDE DEF a, room
  <2> QED
    BY <1>1, <1>2, <1>5, <1>6 DEF Joins
<1>7. CASE room
  <2>1. a.waiters = Put(e.waiters, id, at)
    BY <1>2, <1>7
  <2> HIDE DEF a, room, at, live
  <2>2. IsWaiterMap(a.waiters)
    BY <1>1, <1>4, <2>1 DEF IsWaiterMap, Put
  <2>3. \A j \in Ids, k \in Kinds, d \in Calls :
          Waits(a.waiters, j, k, d) <=>
            IF j = id THEN d \in at[k] ELSE Waits(e.waiters, j, k, d)
    BY <2>1 DEF Put, Waits
  <2>4. \A k \in Kinds, d \in Calls :
          /\ d \in at[k] => \/ d \in waiters_at(e.waiters, id)[k]
                            \/ joined /\ k = kind /\ d = c
          /\ d \in waiters_at(e.waiters, id)[k] /\ d \notin Closed => d \in at[k]
          /\ joined => c \in at[kind]
    BY <1>4 DEF live
  <2>5. a.joined => Waits(a.waiters, id, kind, c)
    BY <1>2, <2>3, <2>4
  <2>6. ASSUME NEW j \in Ids, NEW k \in Kinds, NEW d \in Calls
        PROVE  /\ Waits(a.waiters, j, k, d) =>
                    Waits(s.waiters, j, k, d) \/ (a.joined /\ j = id /\ k = kind /\ d = c)
               /\ Waits(s.waiters, j, k, d) /\ d \notin Closed => Waits(a.waiters, j, k, d)
    <3>1. CASE j = id
      BY <1>1, <1>2, <1>3, <2>3, <2>4, <3>1
    <3>2. CASE j # id
      BY <1>1, <2>3, <3>2
    <3> QED
      BY <3>1, <3>2
  <2> QED
    BY <1>1, <1>2, <1>5, <2>2, <2>5, <2>6 DEF Joins
<1> QED
  BY <1>6, <1>7

\* Notifying the message waiters of an id empties both of its lists.
LEMMA NotifyMessageWaits ==
  ASSUME NEW w, IsWaiterMap(w), NEW id \in Ids
  PROVE  LET n == notify_message_waiters(w, id) IN
         /\ IsWaiterMap(n.waiters)
         /\ \A j \in Ids, kind \in Kinds, c \in Calls :
              Waits(n.waiters, j, kind, c) <=> Waits(w, j, kind, c) /\ j # id
         /\ \A c \in Calls : c \in n.sent <=> Waits(w, id, "message", c)
         /\ \A c \in Calls : c \in n.dropped <=> Waits(w, id, "ack", c)
<1>1. /\ IsWaiterMap(Without(w, {id}))
      /\ \A j \in Ids, kind \in Kinds, c \in Calls :
           Waits(Without(w, {id}), j, kind, c) <=> Waits(w, j, kind, c) /\ j # id
  BY WithoutWaits
<1>2. \A c \in Calls :
        /\ c \in waiters_at(w, id).message <=> Waits(w, id, "message", c)
        /\ c \in waiters_at(w, id).ack <=> Waits(w, id, "ack", c)
  BY DEF waiters_at, NoWaiters, Waits
<1> QED
  BY <1>1, <1>2 DEF notify_message_waiters

\* Notifying the ACK waiters of an id empties the list of its ACK waiters.
LEMMA NotifyAckWaits ==
  ASSUME NEW w, IsWaiterMap(w), NEW id \in Ids
  PROVE  LET n == notify_ack_waiters(w, id) IN
         /\ IsWaiterMap(n.waiters)
         /\ \A j \in Ids, kind \in Kinds, c \in Calls :
              Waits(n.waiters, j, kind, c) <=>
                Waits(w, j, kind, c) /\ ~(j = id /\ kind = "ack")
         /\ \A c \in Calls : c \in n.sent <=> Waits(w, id, "ack", c)
<1>1. \A c \in Calls : c \in waiters_at(w, id).ack <=> Waits(w, id, "ack", c)
  BY DEF waiters_at, NoWaiters, Waits
<1>2. CASE waiters_at(w, id).message = {}
  <2>1. \A c \in Calls : ~Waits(w, id, "message", c)
    BY <1>2 DEF waiters_at, NoWaiters, Waits
  <2>2. notify_ack_waiters(w, id).waiters = Without(w, {id})
    BY <1>2 DEF notify_ack_waiters
  <2>3. notify_ack_waiters(w, id).sent = waiters_at(w, id).ack
    BY DEF notify_ack_waiters
  <2> QED
    BY <1>1, <2>1, <2>2, <2>3, WithoutWaits DEF Kinds
<1>3. CASE waiters_at(w, id).message # {}
  <2>1. id \in DOMAIN w /\ w[id] \in Waiters
    BY <1>3 DEF waiters_at, NoWaiters, IsWaiterMap
  <2>2. notify_ack_waiters(w, id).waiters = Put(w, id, [w[id] EXCEPT !.ack = {}])
    BY <1>3 DEF notify_ack_waiters
  <2>3. notify_ack_waiters(w, id).sent = waiters_at(w, id).ack
    BY DEF notify_ack_waiters
  <2>4. /\ [w[id] EXCEPT !.ack = {}] \in Waiters
        /\ [w[id] EXCEPT !.ack = {}]["ack"] = {}
        /\ [w[id] EXCEPT !.ack = {}]["message"] = w[id]["message"]
    BY <2>1 DEF Waiters
  <2>5. IsWaiterMap(notify_ack_waiters(w, id).waiters)
    BY <2>2, <2>4 DEF IsWaiterMap, Put
  <2>6. \A j \in Ids, kind \in Kinds, c \in Calls :
          Waits(notify_ack_waiters(w, id).waiters, j, kind, c) <=>
            Waits(w, j, kind, c) /\ ~(j = id /\ kind = "ack")
    BY <2>1, <2>2, <2>4 DEF Put, Waits, Kinds
  <2> QED
    BY <1>1, <2>3, <2>5, <2>6
<1> QED
  BY <1>2, <1>3

(***************************************************************************)
(* Keeping senders and receivers wired.                                    *)
(***************************************************************************)

\* Taking senders away keeps the wiring, if every receiver that stays open keeps
\* its sender and no sender stays whose receiver resolves.
LEMMA WiredFewer ==
  ASSUME NEW w, NEW rec, Wired(w, rec), NEW v, IsWaiterMap(v),
         NEW rec2 \in [Calls -> ReceiverStates],
         \A id \in Ids, kind \in Kinds, c \in Calls :
           Waits(v, id, kind, c) => Waits(w, id, kind, c) /\ rec2[c] \in {"open", "closed"},
         \A c \in Calls :
           rec2[c] = "open" =>
             /\ rec[c] = "open"
             /\ \A id \in Ids, kind \in Kinds : Waits(w, id, kind, c) => Waits(v, id, kind, c)
  PROVE  Wired(v, rec2)
BY DEF Wired

\* Ensuring capacity keeps the wiring.
LEMMA WiredEnsured ==
  ASSUME Wired(waiters, receiver), prune_due \in BOOLEAN, NEW id
  PROVE  LET s == ensure_waiter_capacity(ListState, id) IN
         /\ Wired(s.waiters, receiver)
         /\ s.prune_due \in BOOLEAN
         /\ Fewer(s.waiters, waiters)
<1> DEFINE s == ensure_waiter_capacity(ListState, id)
<1> SUFFICES Wired(s.waiters, receiver) /\ s.prune_due \in BOOLEAN /\ Fewer(s.waiters, waiters)
  OBVIOUS
<1>1. IsWaiterMap(waiters) /\ receiver \in [Calls -> ReceiverStates]
  BY DEF Wired
<1>2. /\ IsWaiterMap(s.waiters)
      /\ s.prune_due \in BOOLEAN
      /\ \A j \in Ids, kind \in Kinds, c \in Calls :
           /\ Waits(s.waiters, j, kind, c) => Waits(waiters, j, kind, c)
           /\ Waits(waiters, j, kind, c) /\ c \notin Closed => Waits(s.waiters, j, kind, c)
  BY <1>1, EnsureWaits DEF ListState
<1>3. \A id2 \in Ids, kind \in Kinds, c \in Calls :
        Waits(waiters, id2, kind, c) => receiver[c] \in {"open", "closed"}
  BY DEF Wired
<1> HIDE DEF s
<1> QED
  BY <1>1, <1>2, <1>3, WiredFewer DEF Closed, Fewer

\* A call without a channel joins a list.
LEMMA WiredJoined ==
  ASSUME NEW s, NEW rec, Wired(s.waiters, rec), NEW a, NEW id \in Ids, NEW kind \in Kinds,
         NEW c \in Calls, Joins(s, a, id, kind, c), rec[c] = "none",
         \A d \in Calls : rec[d] = "closed" <=> d \in Closed
  PROVE  Wired(a.waiters, IF a.joined THEN [rec EXCEPT ![c] = "open"] ELSE rec)
<1>1. CASE ~a.joined
  BY <1>1 DEF Wired, Joins
<1>2. CASE a.joined
  <2> DEFINE rec2 == [rec EXCEPT ![c] = "open"]
  <2>1. /\ rec2 \in [Calls -> ReceiverStates]
        /\ rec2[c] = "open"
        /\ \A d \in Calls : d # c => rec2[d] = rec[d]
    BY DEF Wired, ReceiverStates
  <2>2. \A j \in Ids, k \in Kinds : ~Waits(s.waiters, j, k, c)
    BY DEF Wired
  <2> HIDE DEF rec2
  <2>3. Wired(a.waiters, rec2)
    BY <1>2, <2>1, <2>2 DEF Wired, Joins
  <2> QED
    BY <1>2, <2>3 DEF rec2
<1> QED
  BY <1>1, <1>2 DEF Joins

\* The receivers that senders in sent and dropped resolve.
LEMMA SignalledReceivers ==
  ASSUME receiver \in [Calls -> ReceiverStates], NEW sent, NEW dropped
  PROVE  /\ Signalled(sent, dropped) \in [Calls -> ReceiverStates]
         /\ \A c \in Calls :
              /\ receiver[c] # "open" => Signalled(sent, dropped)[c] = receiver[c]
              /\ receiver[c] = "open" /\ c \in sent => Signalled(sent, dropped)[c] = "sent"
              /\ receiver[c] = "open" /\ c \notin sent /\ c \in dropped =>
                   Signalled(sent, dropped)[c] = "dropped"
              /\ receiver[c] = "open" /\ c \notin sent /\ c \notin dropped =>
                   Signalled(sent, dropped)[c] = "open"
BY DEF Signalled, ReceiverStates

\* Resolving the receivers of the senders that are taken away keeps the wiring.
LEMMA WiredSignalled ==
  ASSUME NEW w, Wired(w, receiver), NEW v, IsWaiterMap(v), NEW sent, NEW dropped,
         Fewer(v, w),
         \A id \in Ids, kind \in Kinds, c \in Calls :
           /\ Waits(v, id, kind, c) /\ receiver[c] = "open" => c \notin sent /\ c \notin dropped
           /\ Waits(w, id, kind, c) /\ ~Waits(v, id, kind, c) =>
                receiver[c] = "closed" \/ c \in sent \/ c \in dropped
  PROVE  Wired(v, Signalled(sent, dropped))
<1> DEFINE rec2 == Signalled(sent, dropped)
<1>1. receiver \in [Calls -> ReceiverStates]
  BY DEF Wired
<1>2. /\ rec2 \in [Calls -> ReceiverStates]
      /\ \A c \in Calls :
           /\ receiver[c] # "open" => rec2[c] = receiver[c]
           /\ receiver[c] = "open" /\ c \in sent => rec2[c] = "sent"
           /\ receiver[c] = "open" /\ c \notin sent /\ c \in dropped => rec2[c] = "dropped"
           /\ receiver[c] = "open" /\ c \notin sent /\ c \notin dropped => rec2[c] = "open"
  BY <1>1, SignalledReceivers
<1> HIDE DEF rec2
<1>3. \A id \in Ids, kind \in Kinds, c \in Calls :
        Waits(v, id, kind, c) => Waits(w, id, kind, c) /\ rec2[c] \in {"open", "closed"}
  BY <1>2 DEF Wired, Fewer
<1>4. \A c \in Calls :
        rec2[c] = "open" =>
          /\ receiver[c] = "open"
          /\ \A id \in Ids, kind \in Kinds : Waits(w, id, kind, c) => Waits(v, id, kind, c)
  BY <1>2 DEF Wired
<1>5. Wired(v, rec2)
  BY <1>2, <1>3, <1>4, WiredFewer
<1> QED
  BY <1>5 DEF rec2

\* Notifying the message waiters of an id keeps the wiring.
LEMMA WiredNotified ==
  ASSUME NEW w, Wired(w, receiver), NEW id \in Ids
  PROVE  LET n == notify_message_waiters(w, id)
         IN Wired(n.waiters, Signalled(n.sent, n.dropped))
<1> DEFINE n == notify_message_waiters(w, id)
<1> SUFFICES Wired(n.waiters, Signalled(n.sent, n.dropped))
  OBVIOUS
<1>1. IsWaiterMap(w)
  BY DEF Wired
<1>2. /\ IsWaiterMap(n.waiters)
      /\ \A j \in Ids, kind \in Kinds, c \in Calls :
           Waits(n.waiters, j, kind, c) <=> Waits(w, j, kind, c) /\ j # id
      /\ \A c \in Calls : c \in n.sent <=> Waits(w, id, "message", c)
      /\ \A c \in Calls : c \in n.dropped <=> Waits(w, id, "ack", c)
  BY <1>1, NotifyMessageWaits
<1> HIDE DEF n
<1>3. \A j \in Ids, kind \in Kinds, c \in Calls :
        Waits(n.waiters, j, kind, c) => c \notin n.sent /\ c \notin n.dropped
  BY <1>2 DEF Wired, Kinds
<1>4. \A j \in Ids, kind \in Kinds, c \in Calls :
        Waits(w, j, kind, c) /\ ~Waits(n.waiters, j, kind, c) => c \in n.sent \/ c \in n.dropped
  BY <1>2 DEF Kinds
<1>5. Fewer(n.waiters, w)
  BY <1>2 DEF Fewer
<1> QED
  BY <1>2, <1>3, <1>4, <1>5, WiredSignalled

\* Notifying the ACK waiters of an id keeps the wiring.
LEMMA WiredAcked ==
  ASSUME NEW w, Wired(w, receiver), NEW id \in Ids
  PROVE  LET n == notify_ack_waiters(w, id)
         IN Wired(n.waiters, Signalled(n.sent, {}))
<1> DEFINE n == notify_ack_waiters(w, id)
<1> SUFFICES Wired(n.waiters, Signalled(n.sent, {}))
  OBVIOUS
<1>1. IsWaiterMap(w)
  BY DEF Wired
<1>2. /\ IsWaiterMap(n.waiters)
      /\ \A j \in Ids, kind \in Kinds, c \in Calls :
           Waits(n.waiters, j, kind, c) <=>
             Waits(w, j, kind, c) /\ ~(j = id /\ kind = "ack")
      /\ \A c \in Calls : c \in n.sent <=> Waits(w, id, "ack", c)
  BY <1>1, NotifyAckWaits
<1> HIDE DEF n
<1>3. \A j \in Ids, kind \in Kinds, c \in Calls :
        Waits(n.waiters, j, kind, c) => c \notin n.sent
  BY <1>2 DEF Wired, Kinds
<1>4. \A j \in Ids, kind \in Kinds, c \in Calls :
        Waits(w, j, kind, c) /\ ~Waits(n.waiters, j, kind, c) => c \in n.sent
  BY <1>2 DEF Kinds
<1>5. Fewer(n.waiters, w)
  BY <1>2 DEF Fewer
<1> QED
  BY <1>2, <1>3, <1>4, <1>5, WiredSignalled

\* Cleanup's release of the waiters of some ids keeps the wiring.
LEMMA WiredReleased ==
  ASSUME Wired(waiters, receiver), NEW gone \in SUBSET Ids
  PROVE  LET n == release_waiters(gone) IN
         /\ Wired(n.waiters, Signalled({}, n.dropped))
         /\ Fewer(n.waiters, waiters)
         /\ \A c \in Calls :
              c \in n.dropped <=> \E id \in gone, kind \in Kinds : Waits(waiters, id, kind, c)
<1> DEFINE n == release_waiters(gone)
<1> SUFFICES /\ Wired(n.waiters, Signalled({}, n.dropped))
             /\ Fewer(n.waiters, waiters)
             /\ \A c \in Calls :
                  c \in n.dropped <=> \E id \in gone, kind \in Kinds : Waits(waiters, id, kind, c)
  OBVIOUS
<1>1. IsWaiterMap(waiters)
  BY DEF Wired
<1>2. /\ IsWaiterMap(Without(waiters, gone))
      /\ \A id \in Ids, kind \in Kinds, c \in Calls :
           Waits(Without(waiters, gone), id, kind, c) <=>
             Waits(waiters, id, kind, c) /\ id \notin gone
  BY <1>1, WithoutWaits
<1>3. /\ n.waiters = remove_closed_waiters(Without(waiters, gone))
      /\ n.dropped = Senders(waiters, gone)
  BY DEF release_waiters
<1>4. /\ IsWaiterMap(n.waiters)
      /\ \A id \in Ids, kind \in Kinds, c \in Calls :
           Waits(n.waiters, id, kind, c) <=>
             Waits(waiters, id, kind, c) /\ id \notin gone /\ c \notin Closed
  BY <1>2, <1>3, PruneWaits
<1>5. \A c \in Calls :
        c \in n.dropped <=> \E id \in gone, kind \in Kinds : Waits(waiters, id, kind, c)
  BY <1>1, <1>3, SendersAre
<1> HIDE DEF n
<1>6. Fewer(n.waiters, waiters)
  BY <1>4 DEF Fewer
<1>7. \A id \in Ids, kind \in Kinds, c \in Calls :
        /\ Waits(n.waiters, id, kind, c) => c \notin n.dropped
        /\ Waits(waiters, id, kind, c) /\ ~Waits(n.waiters, id, kind, c) =>
             receiver[c] = "closed" \/ c \in n.dropped
  BY <1>4, <1>5 DEF Wired, Closed
<1>8. Wired(n.waiters, Signalled({}, n.dropped))
  BY <1>4, <1>6, <1>7, WiredSignalled
<1> QED
  BY <1>5, <1>6, <1>8

(***************************************************************************)
(* What the senders in the map wait for.                                   *)
(***************************************************************************)

\* Call c, waiting at id for an ACK, waits for a message that was posted to id, is
\* not acknowledged, and is the one in the row, if the row is still there.
AwaitsRow(es, hm, aw, am, id, c) ==
  /\ aw[c] \in Messages
  /\ aw[c] \notin am
  /\ hm[aw[c]] = id
  /\ id \in DOMAIN es => es[id].body = aw[c]

\* Whoever is registered for an ACK waits for the message of its id; who is
\* registered for a message, or has no channel, waits for no ACK; the messages in
\* the table are where they were posted to and not acknowledged.
Meant(w, rec, es, hm, aw, am) ==
  /\ hm \in [Messages -> Ids \cup {None}]
  /\ aw \in [Calls -> Messages \cup {None}]
  /\ am \in SUBSET Messages
  /\ WellFormed(es)
  /\ \A id \in DOMAIN es :
       es[id].body # None => hm[es[id].body] = id /\ es[id].body \notin am
  /\ \A m \in am : hm[m] # None
  /\ \A id \in Ids, c \in Calls :
       /\ Waits(w, id, "ack", c) => AwaitsRow(es, hm, aw, am, id, c)
       /\ Waits(w, id, "message", c) => aw[c] = None
  /\ \A c \in Calls :
       /\ rec[c] = "sent" /\ aw[c] # None => aw[c] \in am
       /\ rec[c] = "none" => aw[c] = None

\* Taking away senders and rows keeps the meaning, if the only receivers that are
\* sent something wait for no ACK or for one that has happened.
LEMMA MeantFewer ==
  ASSUME NEW w, NEW rec, NEW es, NEW hm, NEW aw, NEW am, Meant(w, rec, es, hm, aw, am),
         NEW v, Fewer(v, w), NEW rec2, NEW G,
         \A c \in Calls :
           /\ rec2[c] = "sent" => rec[c] = "sent" \/ aw[c] = None \/ aw[c] \in am
           /\ rec2[c] = "none" => rec[c] = "none"
  PROVE  Meant(v, rec2, Without(es, G), hm, aw, am)
<1>1. WellFormed(Without(es, G))
  BY WithoutWellFormed DEF Meant
<1>2. /\ DOMAIN Without(es, G) \subseteq DOMAIN es
      /\ \A id \in DOMAIN Without(es, G) : Without(es, G)[id] = es[id]
  BY DEF Without, Restrict
<1>3. "ack" \in Kinds /\ "message" \in Kinds
  BY DEF Kinds
<1> DEFINE es2 == Without(es, G)
<1> SUFFICES Meant(v, rec2, es2, hm, aw, am)
  OBVIOUS
<1> HIDE DEF es2
<1>4. \A id \in Ids, c \in Calls :
        /\ Waits(v, id, "ack", c) => AwaitsRow(es2, hm, aw, am, id, c)
        /\ Waits(v, id, "message", c) => aw[c] = None
  BY <1>2, <1>3 DEF Meant, Fewer, AwaitsRow, es2
<1>5. \A id \in DOMAIN es2 :
        es2[id].body # None => hm[es2[id].body] = id /\ es2[id].body \notin am
  BY <1>2 DEF Meant, es2
<1>6. WellFormed(es2)
  BY <1>1 DEF es2
<1> QED
  BY <1>4, <1>5, <1>6 DEF Meant

\* The same with the table unchanged.
LEMMA MeantSameTable ==
  ASSUME NEW w, NEW rec, NEW es, NEW hm, NEW aw, NEW am, Meant(w, rec, es, hm, aw, am),
         NEW v, Fewer(v, w), NEW rec2,
         \A c \in Calls :
           /\ rec2[c] = "sent" => rec[c] = "sent" \/ aw[c] = None \/ aw[c] \in am
           /\ rec2[c] = "none" => rec[c] = "none"
  PROVE  Meant(v, rec2, es, hm, aw, am)
<1>1. Without(es, {}) = es
  BY WithoutNothing DEF Meant, WellFormed
<1>2. Meant(v, rec2, Without(es, {}), hm, aw, am)
  BY MeantFewer
<1> QED
  BY <1>1, <1>2

\* Recording where a new message goes keeps the meaning.
LEMMA MeantPosted ==
  ASSUME NEW w, NEW rec, NEW es, NEW hm, NEW aw, NEW am, Meant(w, rec, es, hm, aw, am),
         NEW id \in Ids, NEW m \in Messages, hm[m] = None
  PROVE  /\ Meant(w, rec, es, [hm EXCEPT ![m] = id], aw, am)
         /\ m \notin am
<1> DEFINE hm2 == [hm EXCEPT ![m] = id]
<1>1. /\ hm2 \in [Messages -> Ids \cup {None}]
      /\ \A other \in Messages : other # m => hm2[other] = hm[other]
      /\ hm2[m] = id /\ hm2[m] # None
  BY RepositoryAssumption DEF Meant
<1>2. \A i \in DOMAIN es : es[i].body # None => es[i].body \in Messages /\ es[i].body # m
  BY RepositoryAssumption DEF Meant, WellFormed, IsTable, Entry
<1>3. m \notin am
  BY DEF Meant
<1> SUFFICES Meant(w, rec, es, hm2, aw, am)
  BY <1>3
<1> HIDE DEF hm2
<1>4. \A i \in Ids, c \in Calls : Waits(w, i, "ack", c) => AwaitsRow(es, hm2, aw, am, i, c)
  BY <1>1, RepositoryAssumption DEF Meant, AwaitsRow
<1>5. \A n \in am : hm2[n] # None
  BY <1>1 DEF Meant
<1>6. \A i \in DOMAIN es : es[i].body # None => hm2[es[i].body] = i
  BY <1>1, <1>2 DEF Meant
<1> QED
  BY <1>1, <1>4, <1>5, <1>6 DEF Meant

\* Putting a new message in the row of an id nobody waits at keeps the meaning.
LEMMA MeantPut ==
  ASSUME NEW w, NEW rec, NEW es, NEW hm, NEW aw, NEW am, Meant(w, rec, es, hm, aw, am),
         NEW id \in Ids, NEW m \in Messages, hm[m] = id, m \notin am,
         now \in Int, NEW t \in Int,
         \A kind \in Kinds, c \in Calls : ~Waits(w, id, kind, c)
  PROVE  Meant(w, rec, Put(es, id, NewEntry(m, t)), hm, aw, am)
<1> DEFINE es2 == Put(es, id, NewEntry(m, t))
<1>1. WellFormed(es2)
  BY PutWellFormed DEF Meant
<1>2. /\ DOMAIN es2 = DOMAIN es \cup {id}
      /\ es2[id].body = m
      /\ \A other \in DOMAIN es : other # id => es2[other] = es[other]
  BY DEF Put, NewEntry
<1> SUFFICES Meant(w, rec, es2, hm, aw, am)
  OBVIOUS
<1> HIDE DEF es2
<1>3. \A i \in DOMAIN es2 :
        es2[i].body # None => hm[es2[i].body] = i /\ es2[i].body \notin am
  BY <1>2 DEF Meant
<1>4. \A i \in Ids, c \in Calls : Waits(w, i, "ack", c) => i # id
  BY DEF Kinds
<1>5. \A i \in Ids, c \in Calls : Waits(w, i, "ack", c) => AwaitsRow(es2, hm, aw, am, i, c)
  BY <1>2, <1>4 DEF Meant, AwaitsRow
<1> QED
  BY <1>1, <1>3, <1>5 DEF Meant

\* Acknowledging a row and waking its ACK waiters keeps the meaning.
LEMMA MeantAcked ==
  ASSUME NEW w, NEW rec, NEW es, NEW hm, NEW aw, NEW am, Meant(w, rec, es, hm, aw, am),
         NEW id \in Ids, id \in DOMAIN es, es[id].body # None,
         NEW v, NEW rec2,
         \A j \in Ids, kind \in Kinds, c \in Calls :
           Waits(v, j, kind, c) => Waits(w, j, kind, c) /\ ~(j = id /\ kind = "ack"),
         \A c \in Calls :
           /\ rec2[c] = "sent" => rec[c] = "sent" \/ Waits(w, id, "ack", c)
           /\ rec2[c] = "none" => rec[c] = "none"
  PROVE  Meant(v, rec2, acknowledged(es, id), hm, aw, am \cup {es[id].body})
<1> DEFINE es2 == acknowledged(es, id)
           b == es[id].body
           am2 == am \cup {b}
<1>1. WellFormed(es2)
  BY AcknowledgedWellFormed DEF Meant
<1>2. /\ DOMAIN es2 = DOMAIN es
      /\ es2[id].body = None
      /\ \A other \in DOMAIN es : other # id => es2[other] = es[other]
  <2> DEFINE row == [es[id] EXCEPT !.acked = TRUE, !.body = None]
  <2>1. es \in [DOMAIN es -> Entry]
    BY DEF Meant, WellFormed, IsTable
  <2>2. row.body = None
    BY <2>1 DEF Entry
  <2>3. es2 = [es EXCEPT ![id] = row]
    BY DEF acknowledged
  <2> HIDE DEF row, es2
  <2> QED
    BY <2>1, <2>2, <2>3
<1>3. b \in Messages /\ hm[b] = id
  BY DEF Meant, WellFormed, IsTable, Entry
<1>4. "ack" \in Kinds /\ "message" \in Kinds
  BY DEF Kinds
<1>5. am2 \in SUBSET Messages /\ am2 = am \cup {b}
  BY <1>3 DEF Meant
<1> SUFFICES Meant(v, rec2, es2, hm, aw, am2)
  OBVIOUS
<1> HIDE DEF es2, am2
<1>6. \A i \in DOMAIN es2 :
        es2[i].body # None => hm[es2[i].body] = i /\ es2[i].body \notin am2
  BY <1>2, <1>3, <1>5 DEF Meant
<1>7. \A m \in am2 : hm[m] # None
  BY <1>3, <1>5, RepositoryAssumption DEF Meant
<1>8. ASSUME NEW i \in Ids, NEW c \in Calls, Waits(v, i, "ack", c)
      PROVE  AwaitsRow(es2, hm, aw, am2, i, c)
  <2>1. Waits(w, i, "ack", c) /\ i # id
    BY <1>4, <1>8
  <2> QED
    BY <1>2, <1>3, <1>5, <2>1 DEF Meant, AwaitsRow
<1>9. \A i \in Ids, c \in Calls : Waits(v, i, "message", c) => aw[c] = None
  BY <1>4 DEF Meant
<1>10. \A c \in Calls : rec2[c] = "sent" /\ aw[c] # None => aw[c] \in am2
  BY <1>5 DEF Meant, AwaitsRow
<1> QED
  BY <1>1, <1>5, <1>6, <1>7, <1>8, <1>9, <1>10 DEF Meant

\* A call that joins the ACK waiters of a row waits for its message.
LEMMA MeantAckJoined ==
  ASSUME NEW s, NEW rec, NEW es, NEW hm, NEW aw, NEW am,
         Wired(s.waiters, rec), Meant(s.waiters, rec, es, hm, aw, am),
         NEW id \in Ids, id \in DOMAIN es, es[id].body # None,
         NEW c \in Calls, rec[c] = "none",
         NEW a, Joins(s, a, id, "ack", c)
  PROVE  Meant(a.waiters, [rec EXCEPT ![c] = "open"], es, hm,
               [aw EXCEPT ![c] = es[id].body], am)
<1> DEFINE rec2 == [rec EXCEPT ![c] = "open"]
           aw2 == [aw EXCEPT ![c] = es[id].body]
<1>1. es[id].body \in Messages
  BY DEF Meant, WellFormed, IsTable, Entry
<1>2. /\ aw2 \in [Calls -> Messages \cup {None}]
      /\ aw2[c] = es[id].body
      /\ \A d \in Calls : d # c => aw2[d] = aw[d]
  BY <1>1 DEF Meant
<1>3. rec2[c] = "open" /\ \A d \in Calls : d # c => rec2[d] = rec[d]
  BY DEF Wired
<1>4. "ack" \in Kinds /\ "message" \in Kinds
  BY DEF Kinds
<1>5. \A j \in Ids, k \in Kinds : ~Waits(s.waiters, j, k, c)
  BY DEF Wired
<1> SUFFICES Meant(a.waiters, rec2, es, hm, aw2, am)
  OBVIOUS
<1> HIDE DEF rec2, aw2
<1>6. ASSUME NEW i \in Ids, NEW d \in Calls, Waits(a.waiters, i, "ack", d)
      PROVE  AwaitsRow(es, hm, aw2, am, i, d)
  <2>1. CASE Waits(s.waiters, i, "ack", d)
    <3>1. d # c
      BY <1>4, <1>5, <2>1
    <3> QED
      BY <1>2, <2>1, <3>1 DEF Meant, AwaitsRow
  <2>2. CASE i = id /\ d = c
    BY <1>1, <1>2, <2>2 DEF Meant, AwaitsRow
  <2> QED
    BY <1>4, <1>6, <2>1, <2>2 DEF Joins
<1>7. ASSUME NEW i \in Ids, NEW d \in Calls, Waits(a.waiters, i, "message", d)
      PROVE  aw2[d] = None
  <2>1. Waits(s.waiters, i, "message", d)
    BY <1>4, <1>7 DEF Joins
  <2>2. d # c
    BY <1>4, <1>5, <2>1
  <2> QED
    BY <1>2, <2>1, <2>2 DEF Meant
<1>8. \A d \in Calls :
        /\ rec2[d] = "sent" /\ aw2[d] # None => aw2[d] \in am
        /\ rec2[d] = "none" => aw2[d] = None
  BY <1>2, <1>3 DEF Meant
<1> QED
  BY <1>2, <1>6, <1>7, <1>8 DEF Meant

\* A call that joins the message waiters of an id waits for no ACK.
LEMMA MeantMessageJoined ==
  ASSUME NEW s, NEW rec, NEW es, NEW hm, NEW aw, NEW am,
         Wired(s.waiters, rec), Meant(s.waiters, rec, es, hm, aw, am),
         NEW id \in Ids, NEW c \in Calls, rec[c] = "none",
         NEW a, Joins(s, a, id, "message", c)
  PROVE  Meant(a.waiters, [rec EXCEPT ![c] = "open"], es, hm, aw, am)
<1> DEFINE rec2 == [rec EXCEPT ![c] = "open"]
<1>1. rec2[c] = "open" /\ \A d \in Calls : d # c => rec2[d] = rec[d]
  BY DEF Wired
<1>2. "ack" \in Kinds /\ "message" \in Kinds
  BY DEF Kinds
<1> SUFFICES Meant(a.waiters, rec2, es, hm, aw, am)
  OBVIOUS
<1> HIDE DEF rec2
<1>3. \A i \in Ids, d \in Calls :
        /\ Waits(a.waiters, i, "ack", d) => Waits(s.waiters, i, "ack", d)
        /\ Waits(a.waiters, i, "message", d) => Waits(s.waiters, i, "message", d) \/ d = c
  BY <1>2 DEF Joins
<1>4. aw[c] = None
  BY DEF Meant
<1>5. \A d \in Calls :
        /\ rec2[d] = "sent" /\ aw[d] # None => aw[d] \in am
        /\ rec2[d] = "none" => aw[d] = None
  BY <1>1 DEF Meant
<1> QED
  BY <1>3, <1>4, <1>5 DEF Meant

(***************************************************************************)
(* The inductive invariant and the steps that keep it.                     *)
(***************************************************************************)

\* Stronger than ListTypeOK, AckNotMissed and AckSignalTruthful, and inductive:
\* it also says where a registered call's message is, which is what makes an ACK
\* of the row at an id an ACK of the message the calls registered there wait for.
ListInv ==
  /\ RepoTypeOK
  /\ Wired(waiters, receiver)
  /\ Meant(waiters, receiver, entries, home, awaits, acked_messages)
  /\ prune_due \in BOOLEAN
  /\ value \in [Calls -> Messages \cup {None}]

\* The invariant after a step, from its parts.
LEMMA InvAfter ==
  ASSUME Wired(waiters', receiver'),
         Meant(waiters', receiver', entries', home', awaits', acked_messages'),
         now' \in 0..MaxTime, max_entries' \in Limits, prune_due' \in BOOLEAN,
         value' \in [Calls -> Messages \cup {None}]
  PROVE  ListInv'
<1>1. Wired(waiters, receiver)'
  BY DEF Wired, IsWaiterMap, Waits
<1>2. Meant(waiters, receiver, entries, home, awaits, acked_messages)'
  BY DEF Meant, Waits, AwaitsRow, WellFormed, IsTable
<1>3. RepoTypeOK'
  BY DEF Meant, WellFormed, IsTable, RepoTypeOK
<1> QED
  BY <1>1, <1>2, <1>3 DEF ListInv

\* What the invariant gives for the parameters of a post.
LEMMA InvContext ==
  ASSUME ListInv
  PROVE  /\ now \in Int
         /\ \A ttl \in Ttls : now + ttl \in Int
         /\ WellFormed(entries)
         /\ receiver \in [Calls -> ReceiverStates]
         /\ \A c \in Calls : receiver[c] = "closed" <=> c \in Closed
BY InsertContext, RepositoryAssumption DEF ListInv, Wired, Closed, RepoTypeOK, Meant

\* Typing of the messages handed over.
LEMMA GivenType ==
  ASSUME value \in [Calls -> Messages \cup {None}], NEW sent, NEW m \in Messages
  PROVE  Given(sent, m) \in [Calls -> Messages \cup {None}]
BY DEF Given

\* A post that is rejected leaves the waiters, one that is not notifies them; the
\* meaning is kept either way.
LEMMA MeantStored ==
  ASSUME NEW w, Wired(w, receiver), Meant(w, receiver, entries, home, awaits, acked_messages),
         NEW id \in Ids, NEW m \in Messages, home[m] = None, now \in Int, NEW t \in Int,
         NEW r \in insert(entries, id, m, t)
  PROVE  LET n == notify_message_waiters(w, id) IN
         /\ r.outcome # "Stored" =>
              Meant(w, receiver, r.table, [home EXCEPT ![m] = id], awaits, acked_messages)
         /\ Meant(n.waiters, Signalled(n.sent, n.dropped), r.table, [home EXCEPT ![m] = id],
                  awaits, acked_messages)
<1> DEFINE n == notify_message_waiters(w, id)
           rec2 == Signalled(n.sent, n.dropped)
           hm == [home EXCEPT ![m] = id]
<1> SUFFICES /\ r.outcome # "Stored" =>
                  Meant(w, receiver, r.table, hm, awaits, acked_messages)
             /\ Meant(n.waiters, rec2, r.table, hm, awaits, acked_messages)
  OBVIOUS
<1>1. Meant(w, receiver, entries, hm, awaits, acked_messages) /\ m \notin acked_messages
  BY MeantPosted
<1>2. IsWaiterMap(w) /\ receiver \in [Calls -> ReceiverStates]
  BY DEF Wired
<1>3. /\ \A j \in Ids, kind \in Kinds, c \in Calls :
           Waits(n.waiters, j, kind, c) <=> Waits(w, j, kind, c) /\ j # id
      /\ \A c \in Calls : c \in n.sent <=> Waits(w, id, "message", c)
  BY <1>2, NotifyMessageWaits
<1>4. \A c \in Calls :
        /\ rec2[c] = "sent" => receiver[c] = "sent" \/ c \in n.sent
        /\ rec2[c] = "none" => receiver[c] = "none"
  <2> HIDE DEF n
  <2> QED
    BY <1>2, SignalledReceivers
<1>5. PICK G : \/ r.outcome # "Stored" /\ r.table = Without(entries, G)
               \/ r.outcome = "Stored" /\ r.table = Put(Without(entries, G), id, NewEntry(m, t))
  <2>1. WellFormed(entries)
    BY DEF Meant
  <2> QED
    BY <2>1, InsertShape
<1>6. hm[m] = id
  BY DEF Meant
<1> HIDE DEF n, rec2, hm
<1>7. Fewer(n.waiters, w) /\ Fewer(w, w)
  BY <1>3 DEF Fewer
<1>8. \A c \in Calls : c \in n.sent => awaits[c] = None
  BY <1>3 DEF Meant
<1>9. Meant(n.waiters, rec2, Without(entries, G), hm, awaits, acked_messages)
  BY <1>1, <1>4, <1>7, <1>8, MeantFewer
<1>10. Meant(w, receiver, Without(entries, G), hm, awaits, acked_messages)
  BY <1>1, <1>7, MeantFewer
<1>11. Meant(n.waiters, rec2, Put(Without(entries, G), id, NewEntry(m, t)), hm, awaits,
             acked_messages)
  BY <1>1, <1>3, <1>6, <1>9, MeantPut
<1> QED
  BY <1>5, <1>9, <1>10, <1>11

\* Storing a new message keeps the invariant.
LEMMA StoreStepInv ==
  ASSUME ListInv, NEW id \in Ids, NEW m \in Messages, home[m] = None, NEW ttl \in Ttls,
         NEW res, store(id, m, ttl, res)
  PROVE  ListInv'
<1> DEFINE n == notify_message_waiters(waiters, id)
<1>1. PICK r \in insert(entries, id, m, now + ttl) :
        /\ entries' = r.table
        /\ \/ r.outcome = "StoreFull" /\ UNCHANGED <<waiters, receiver, value>>
           \/ /\ waiters' = n.waiters
              /\ receiver' = Signalled(n.sent, n.dropped)
              /\ value' = Given(n.sent, m)
  BY DEF store
<1>2. /\ home' = [home EXCEPT ![m] = id]
      /\ UNCHANGED <<now, max_entries, prune_due, awaits, acked_messages>>
  BY DEF store
<1>3. Meant(waiters', receiver', entries', home', awaits', acked_messages')
  <2>1. /\ r.outcome # "Stored" =>
             Meant(waiters, receiver, r.table, home', awaits, acked_messages)
        /\ Meant(n.waiters, Signalled(n.sent, n.dropped), r.table, home', awaits, acked_messages)
    BY <1>2, InvContext, MeantStored DEF ListInv
  <2> HIDE DEF n
  <2> QED
    BY <1>1, <1>2, <2>1
<1>4. Wired(waiters', receiver')
  BY <1>1, WiredNotified DEF ListInv
<1>5. value' \in [Calls -> Messages \cup {None}]
  BY <1>1, GivenType DEF ListInv
<1> QED
  BY <1>2, <1>3, <1>4, <1>5, InvAfter DEF ListInv, RepoTypeOK

\* A call that changes nothing keeps the invariant.
LEMMA StutterInv ==
  ASSUME ListInv, UNCHANGED list_vars
  PROVE  ListInv'
BY InvAfter DEF list_vars, ListInv, RepoTypeOK

\* Acknowledging a message keeps the invariant.
LEMMA AckStepInv ==
  ASSUME ListInv, NEW id \in Ids, NEW res, ack(id, res)
  PROVE  ListInv'
<1>1. CASE UNCHANGED list_vars
  BY <1>1, StutterInv
<1>2. CASE /\ Readable(entries, id, now) /\ ~entries[id].acked
           /\ entries' = acknowledged(entries, id)
           /\ acked_messages' = acked_messages \cup {entries[id].body}
           /\ LET n == notify_ack_waiters(waiters, id)
              IN waiters' = n.waiters /\ receiver' = Signalled(n.sent, {})
           /\ UNCHANGED <<now, max_entries, prune_due, value, home, awaits>>
  <2> DEFINE n == notify_ack_waiters(waiters, id)
  <2>1. id \in DOMAIN entries /\ entries[id].body # None
    BY <1>2 DEF Readable, ListInv, RepoTypeOK
  <2>2. waiters' = n.waiters /\ receiver' = Signalled(n.sent, {})
    BY <1>2
  <2>3. Wired(waiters', receiver')
    BY <2>2, WiredAcked DEF ListInv
  <2>4. IsWaiterMap(waiters) /\ receiver \in [Calls -> ReceiverStates]
    BY DEF ListInv, Wired
  <2>5. /\ \A j \in Ids, kind \in Kinds, c \in Calls :
             Waits(n.waiters, j, kind, c) <=>
               Waits(waiters, j, kind, c) /\ ~(j = id /\ kind = "ack")
        /\ \A c \in Calls : c \in n.sent <=> Waits(waiters, id, "ack", c)
    BY <2>4, NotifyAckWaits
  <2> HIDE DEF n
  <2>6. \A c \in Calls :
          /\ receiver'[c] = "sent" => receiver[c] = "sent" \/ Waits(waiters, id, "ack", c)
          /\ receiver'[c] = "none" => receiver[c] = "none"
    BY <2>2, <2>4, <2>5, SignalledReceivers
  <2>7. \A j \in Ids, kind \in Kinds, c \in Calls :
          Waits(waiters', j, kind, c) => Waits(waiters, j, kind, c) /\ ~(j = id /\ kind = "ack")
    BY <2>2, <2>5
  <2>8. Meant(waiters', receiver', acknowledged(entries, id), home, awaits,
              acked_messages \cup {entries[id].body})
    BY <2>1, <2>6, <2>7, MeantAcked DEF ListInv
  <2>9. Meant(waiters', receiver', entries', home', awaits', acked_messages')
    BY <1>2, <2>8
  <2> QED
    BY <1>2, <2>3, <2>9, InvAfter DEF ListInv, RepoTypeOK
<1> QED
  BY <1>1, <1>2 DEF ack

\* A call that is answered without waiting: its channel is filled at once.
LEMMA AnsweredInv ==
  ASSUME ListInv, NEW c \in Calls, receiver[c] = "none",
         receiver' = [receiver EXCEPT ![c] = "sent"],
         UNCHANGED <<entries, now, max_entries, waiters, prune_due, home, awaits,
                     acked_messages>>,
         value' \in [Calls -> Messages \cup {None}]
  PROVE  ListInv'
<1>1. /\ receiver' \in [Calls -> ReceiverStates]
      /\ receiver'[c] = "sent"
      /\ \A d \in Calls : d # c => receiver'[d] = receiver[d]
  BY DEF ListInv, Wired, ReceiverStates
<1>2. IsWaiterMap(waiters) /\ Fewer(waiters, waiters)
  BY DEF ListInv, Wired, Fewer
<1>3. \A id \in Ids, kind \in Kinds, d \in Calls :
        Waits(waiters, id, kind, d) => d # c /\ receiver[d] \in {"open", "closed"}
  BY DEF ListInv, Wired
<1>4. Wired(waiters, receiver')
  BY <1>1, <1>2, <1>3 DEF ListInv, Wired
<1>5. awaits[c] = None
  BY DEF ListInv, Meant
<1>6. Meant(waiters, receiver', entries, home, awaits, acked_messages)
  BY <1>1, <1>2, <1>5, MeantSameTable DEF ListInv
<1>7. /\ Wired(waiters', receiver')
      /\ Meant(waiters', receiver', entries', home', awaits', acked_messages')
  BY <1>4, <1>6
<1> QED
  BY <1>7, InvAfter DEF ListInv, RepoTypeOK

\* The waiters after add_waiter, whether the call joined or not.
LEMMA MeantJoined ==
  ASSUME NEW s, NEW rec, NEW es, NEW hm, NEW aw, NEW am,
         Wired(s.waiters, rec), Meant(s.waiters, rec, es, hm, aw, am),
         NEW id \in Ids, NEW kind \in Kinds, NEW c \in Calls, rec[c] = "none",
         NEW a, Joins(s, a, id, kind, c),
         kind = "ack" => id \in DOMAIN es /\ es[id].body # None
  PROVE  Meant(a.waiters, IF a.joined THEN [rec EXCEPT ![c] = "open"] ELSE rec, es, hm,
               IF a.joined /\ kind = "ack" THEN [aw EXCEPT ![c] = es[id].body] ELSE aw, am)
<1>1. CASE a.joined /\ kind = "ack"
  <2>1. Joins(s, a, id, "ack", c)
    BY <1>1
  <2> QED
    BY <1>1, <2>1, MeantAckJoined
<1>2. CASE a.joined /\ kind # "ack"
  <2>1. Joins(s, a, id, "message", c)
    BY <1>2 DEF Kinds
  <2> QED
    BY <1>2, <2>1, MeantMessageJoined
<1>3. CASE ~a.joined
  <2>1. Fewer(a.waiters, s.waiters)
    BY <1>3 DEF Joins, Fewer
  <2> QED
    BY <1>3, <2>1, MeantSameTable
<1> QED
  BY <1>1, <1>2, <1>3

\* The waiters and receivers after add_waiter on the waiters s, whose receivers are
\* rec: the channel of the caller is the only new one.
LEMMA JoinedParts ==
  ASSUME NEW s, NEW rec, NEW es, NEW hm, NEW aw, NEW am,
         Wired(s.waiters, rec), Meant(s.waiters, rec, es, hm, aw, am),
         s.prune_due \in BOOLEAN,
         NEW id \in Ids, NEW kind \in Kinds, NEW c \in Calls, rec[c] = "none",
         \A d \in Calls : rec[d] = "closed" <=> d \in Closed,
         kind = "ack" => id \in DOMAIN es /\ es[id].body # None
  PROVE  LET a == add_waiter(s, id, kind, c)
             rec2 == IF a.joined THEN [rec EXCEPT ![c] = "open"] ELSE rec
         IN /\ Wired(a.waiters, rec2)
            /\ Meant(a.waiters, rec2, es, hm,
                     IF a.joined /\ kind = "ack" THEN [aw EXCEPT ![c] = es[id].body] ELSE aw, am)
            /\ a.prune_due \in BOOLEAN
<1> DEFINE a == add_waiter(s, id, kind, c)
<1>1. IsWaiterMap(s.waiters)
  BY DEF Wired
<1>2. Joins(s, a, id, kind, c)
  BY <1>1, AddWaits
<1> HIDE DEF a
<1>3. a.prune_due \in BOOLEAN
  BY <1>2 DEF Joins
<1>4. Wired(a.waiters, IF a.joined THEN [rec EXCEPT ![c] = "open"] ELSE rec)
  BY <1>2, WiredJoined
<1>5. Meant(a.waiters, IF a.joined THEN [rec EXCEPT ![c] = "open"] ELSE rec, es, hm,
            IF a.joined /\ kind = "ack" THEN [aw EXCEPT ![c] = es[id].body] ELSE aw, am)
  BY <1>2, MeantJoined
<1> QED
  BY <1>3, <1>4, <1>5 DEF a

\* A call that joins the waiters of an id, or is turned away, keeps the invariant.
LEMMA JoinedInv ==
  ASSUME ListInv, NEW id \in Ids, NEW kind \in Kinds, NEW c \in Calls, receiver[c] = "none",
         kind = "ack" => id \in DOMAIN entries /\ entries[id].body # None,
         NEW a, a = add_waiter(ListState, id, kind, c),
         waiters' = a.waiters, prune_due' = a.prune_due,
         receiver' = IF a.joined THEN [receiver EXCEPT ![c] = "open"] ELSE receiver,
         awaits' = IF a.joined /\ kind = "ack" THEN [awaits EXCEPT ![c] = entries[id].body]
                   ELSE awaits,
         UNCHANGED <<entries, now, max_entries, value, home, acked_messages>>
  PROVE  ListInv'
<1>1. ListState.waiters = waiters /\ ListState.prune_due = prune_due
  BY DEF ListState
<1>2. /\ Wired(ListState.waiters, receiver)
      /\ Meant(ListState.waiters, receiver, entries, home, awaits, acked_messages)
      /\ ListState.prune_due \in BOOLEAN
  BY <1>1 DEF ListInv
<1>3. \A d \in Calls : receiver[d] = "closed" <=> d \in Closed
  BY InvContext
<1>4. Joins(ListState, a, id, kind, c)
  <2>1. IsWaiterMap(ListState.waiters)
    BY <1>2 DEF Wired
  <2> QED
    BY <1>2, <2>1, AddWaits
<1>5. Wired(waiters', receiver')
  BY <1>2, <1>3, <1>4, WiredJoined
<1>6. Meant(waiters', receiver', entries', home', awaits', acked_messages')
  BY <1>2, <1>4, MeantJoined
<1>7. prune_due' \in BOOLEAN
  BY <1>4 DEF Joins
<1> QED
  BY <1>5, <1>6, <1>7, InvAfter DEF ListInv, RepoTypeOK

\* Subscribing to the ACK of an id keeps the invariant.
LEMMA SubscribeAckStepInv ==
  ASSUME ListInv, NEW c \in Calls, receiver[c] = "none", NEW id \in Ids, NEW res,
         subscribe_ack(c, id, res)
  PROVE  ListInv'
<1> DEFINE a == add_waiter(ListState, id, "ack", c)
<1>1. UNCHANGED <<entries, now, max_entries, value, home, acked_messages>>
  BY DEF subscribe_ack
<1>2. \/ UNCHANGED <<waiters, prune_due, receiver, awaits>>
      \/ /\ receiver' = [receiver EXCEPT ![c] = "sent"]
         /\ UNCHANGED <<waiters, prune_due, awaits>>
      \/ /\ Readable(entries, id, now) /\ ~entries[id].acked
         /\ waiters' = a.waiters
         /\ prune_due' = a.prune_due
         /\ receiver' = IF a.joined THEN [receiver EXCEPT ![c] = "open"] ELSE receiver
         /\ awaits' = IF a.joined THEN [awaits EXCEPT ![c] = entries[id].body] ELSE awaits
  BY DEF subscribe_ack
<1> HIDE DEF a
<1>3. CASE UNCHANGED <<waiters, prune_due, receiver, awaits>>
  BY <1>1, <1>3, StutterInv DEF list_vars
<1>4. CASE /\ receiver' = [receiver EXCEPT ![c] = "sent"]
           /\ UNCHANGED <<waiters, prune_due, awaits>>
  BY <1>1, <1>4, AnsweredInv DEF ListInv
<1>5. CASE /\ Readable(entries, id, now) /\ ~entries[id].acked
           /\ waiters' = a.waiters
           /\ prune_due' = a.prune_due
           /\ receiver' = IF a.joined THEN [receiver EXCEPT ![c] = "open"] ELSE receiver
           /\ awaits' = IF a.joined THEN [awaits EXCEPT ![c] = entries[id].body] ELSE awaits
  <2>1. id \in DOMAIN entries /\ entries[id].body # None
    BY <1>5 DEF Readable, ListInv, RepoTypeOK
  <2>2. "ack" \in Kinds /\ a = add_waiter(ListState, id, "ack", c)
    BY DEF Kinds, a
  <2>3. awaits' = IF a.joined /\ "ack" = "ack" THEN [awaits EXCEPT ![c] = entries[id].body]
                  ELSE awaits
    BY <1>5
  <2> QED
    BY <1>1, <1>5, <2>1, <2>2, <2>3, JoinedInv
<1> QED
  BY <1>2, <1>3, <1>4, <1>5

\* Taking a message, or waiting for one, keeps the invariant.
LEMMA GetOrSubscribeStepInv ==
  ASSUME ListInv, NEW c \in Calls, receiver[c] = "none", NEW id \in Ids, NEW res,
         get_or_subscribe(c, id, res)
  PROVE  ListInv'
<1> DEFINE a == add_waiter(ListState, id, "message", c)
<1>1. UNCHANGED <<entries, now, max_entries, home, awaits, acked_messages>>
  BY DEF get_or_subscribe, wait_for_message
<1>2. \/ /\ Available(id)
         /\ receiver' = [receiver EXCEPT ![c] = "sent"]
         /\ value' = [value EXCEPT ![c] = entries[id].body]
         /\ UNCHANGED <<waiters, prune_due>>
      \/ /\ waiters' = a.waiters
         /\ prune_due' = a.prune_due
         /\ receiver' = IF a.joined THEN [receiver EXCEPT ![c] = "open"] ELSE receiver
         /\ UNCHANGED value
  BY DEF get_or_subscribe, give_message, wait_for_message
<1> HIDE DEF a
<1>3. CASE /\ Available(id)
           /\ receiver' = [receiver EXCEPT ![c] = "sent"]
           /\ value' = [value EXCEPT ![c] = entries[id].body]
           /\ UNCHANGED <<waiters, prune_due>>
  <2>1. entries[id].body \in Messages \cup {None}
    BY <1>3 DEF Available, Readable, ListInv, RepoTypeOK, IsTable, Entry
  <2>2. value' \in [Calls -> Messages \cup {None}]
    BY <1>3, <2>1 DEF ListInv
  <2> QED
    BY <1>1, <1>3, <2>2, AnsweredInv
<1>4. CASE /\ waiters' = a.waiters
           /\ prune_due' = a.prune_due
           /\ receiver' = IF a.joined THEN [receiver EXCEPT ![c] = "open"] ELSE receiver
           /\ UNCHANGED value
  <2>1. "message" \in Kinds /\ "message" # "ack" /\ a = add_waiter(ListState, id, "message", c)
    BY DEF Kinds, a
  <2>2. awaits' = IF a.joined /\ "message" = "ack"
                  THEN [awaits EXCEPT ![c] = entries[id].body] ELSE awaits
    BY <1>1, <2>1
  <2> QED
    BY <1>1, <1>4, <2>1, <2>2, JoinedInv
<1> QED
  BY <1>2, <1>3, <1>4

\* The parts of the invariant once capacity is ensured, before anything is stored.
LEMMA EnsuredParts ==
  ASSUME ListInv, NEW id \in Ids
  PROVE  LET s == ensure_waiter_capacity(ListState, id) IN
         /\ Wired(s.waiters, receiver)
         /\ Meant(s.waiters, receiver, entries, home, awaits, acked_messages)
         /\ s.prune_due \in BOOLEAN
<1> DEFINE s == ensure_waiter_capacity(ListState, id)
<1>1. Wired(s.waiters, receiver) /\ s.prune_due \in BOOLEAN /\ Fewer(s.waiters, waiters)
  BY WiredEnsured DEF ListInv
<1> HIDE DEF s
<1>2. Meant(s.waiters, receiver, entries, home, awaits, acked_messages)
  BY <1>1, MeantSameTable DEF ListInv
<1> QED
  BY <1>1, <1>2 DEF s

\* The parts of the invariant after a post and its notification, on the waiters w.
LEMMA NotifiedParts ==
  ASSUME ListInv, NEW w, Wired(w, receiver),
         Meant(w, receiver, entries, home, awaits, acked_messages),
         NEW id \in Ids, NEW m \in Messages, home[m] = None, NEW ttl \in Ttls,
         NEW r \in insert(entries, id, m, now + ttl)
  PROVE  LET n == notify_message_waiters(w, id)
             rec == Signalled(n.sent, n.dropped)
         IN /\ Wired(n.waiters, rec)
            /\ Meant(n.waiters, rec, r.table, [home EXCEPT ![m] = id], awaits, acked_messages)
            /\ \A c \in Calls :
                 /\ receiver[c] = "none" => rec[c] = "none"
                 /\ rec[c] = "closed" <=> c \in Closed
<1> DEFINE n == notify_message_waiters(w, id)
           rec == Signalled(n.sent, n.dropped)
<1>1. Wired(n.waiters, rec)
  BY WiredNotified
<1>2. Meant(n.waiters, rec, r.table, [home EXCEPT ![m] = id], awaits, acked_messages)
  BY InvContext, MeantStored
<1> HIDE DEF n
<1>3. \A c \in Calls :
        /\ receiver[c] = "none" => rec[c] = "none"
        /\ rec[c] = "closed" <=> c \in Closed
  BY InvContext, SignalledReceivers DEF Closed
<1> QED
  BY <1>1, <1>2, <1>3 DEF n

\* A message that was stored is in the row of its id.
LEMMA StoredRow ==
  ASSUME WellFormed(entries), NEW id \in Ids, NEW m \in Messages, NEW t \in Int,
         NEW r \in insert(entries, id, m, t), r.outcome = "Stored"
  PROVE  id \in DOMAIN r.table /\ r.table[id].body = m
<1>1. PICK G : r.table = Put(Without(entries, G), id, NewEntry(m, t))
  BY InsertShape
<1> QED
  BY <1>1 DEF Put, NewEntry

\* Storing a message and waiting for its ACK in one call keeps the invariant.
LEMMA StoreAndSubscribeStepInv ==
  ASSUME ListInv, NEW c \in Calls, receiver[c] = "none", NEW id \in Ids,
         NEW m \in Messages, home[m] = None, NEW ttl \in Ttls, NEW res,
         store_and_subscribe_ack(c, id, m, ttl, res)
  PROVE  ListInv'
<1> DEFINE s == ensure_waiter_capacity(ListState, id)
           n == notify_message_waiters(s.waiters, id)
           rec == Signalled(n.sent, n.dropped)
           after == [waiters |-> n.waiters, prune_due |-> s.prune_due]
           hm == [home EXCEPT ![m] = id]
           a == add_waiter(after, id, "ack", c)
<1>1. /\ Wired(s.waiters, receiver)
      /\ Meant(s.waiters, receiver, entries, home, awaits, acked_messages)
      /\ s.prune_due \in BOOLEAN
  BY EnsuredParts
<1>2. /\ now \in 0..MaxTime /\ LaterReadings \subseteq 0..MaxTime
      /\ max_entries' \in Limits
      /\ acked_messages' = acked_messages
  BY DEF store_and_subscribe_ack, ListInv, RepoTypeOK, LaterReadings
<1>3. \/ /\ waiters' = s.waiters /\ prune_due' = s.prune_due
         /\ UNCHANGED <<entries, now, receiver, value, home, awaits>>
      \/ \E r \in insert(entries, id, m, now + ttl) :
           /\ entries' = r.table
           /\ home' = hm
           /\ \/ /\ r.outcome = "StoreFull"
                 /\ waiters' = s.waiters /\ prune_due' = s.prune_due
                 /\ UNCHANGED <<now, receiver, value, awaits>>
              \/ /\ waiters' = n.waiters /\ prune_due' = s.prune_due
                 /\ receiver' = rec /\ value' = Given(n.sent, m)
                 /\ now' \in {now} \cup LaterReadings
                 /\ UNCHANGED awaits
              \/ /\ r.outcome = "Stored"
                 /\ waiters' = a.waiters /\ prune_due' = a.prune_due
                 /\ receiver' = IF a.joined THEN [rec EXCEPT ![c] = "open"] ELSE rec
                 /\ awaits' = IF a.joined THEN [awaits EXCEPT ![c] = entries'[id].body]
                              ELSE awaits
                 /\ value' = Given(n.sent, m)
                 /\ now' \in {now} \cup LaterReadings
  BY DEF store_and_subscribe_ack, subscribe_stored
<1>4. CASE /\ waiters' = s.waiters /\ prune_due' = s.prune_due
           /\ UNCHANGED <<entries, now, receiver, value, home, awaits>>
  <2> HIDE DEF s
  <2>1. /\ Wired(waiters', receiver')
        /\ Meant(waiters', receiver', entries', home', awaits', acked_messages')
    BY <1>1, <1>2, <1>4
  <2> QED
    BY <1>1, <1>2, <1>4, <2>1, InvAfter DEF ListInv
<1>5. ASSUME NEW r \in insert(entries, id, m, now + ttl),
             entries' = r.table, home' = hm, r.outcome = "StoreFull",
             waiters' = s.waiters, prune_due' = s.prune_due,
             UNCHANGED <<now, receiver, value, awaits>>
      PROVE  ListInv'
  <2> HIDE DEF s
  <2>1. Meant(s.waiters, receiver, r.table, hm, awaits, acked_messages)
    BY <1>1, <1>5, InvContext, MeantStored
  <2> HIDE DEF hm
  <2>2. /\ Wired(waiters', receiver')
        /\ Meant(waiters', receiver', entries', home', awaits', acked_messages')
    BY <1>1, <1>2, <1>5, <2>1
  <2> QED
    BY <1>1, <1>2, <1>5, <2>2, InvAfter DEF ListInv
<1>6. ASSUME NEW r \in insert(entries, id, m, now + ttl),
             entries' = r.table, home' = hm, value' = Given(n.sent, m),
             now' \in {now} \cup LaterReadings,
             \/ /\ waiters' = n.waiters /\ prune_due' = s.prune_due
                /\ receiver' = rec
                /\ UNCHANGED awaits
             \/ /\ r.outcome = "Stored"
                /\ waiters' = a.waiters /\ prune_due' = a.prune_due
                /\ receiver' = IF a.joined THEN [rec EXCEPT ![c] = "open"] ELSE rec
                /\ awaits' = IF a.joined THEN [awaits EXCEPT ![c] = entries'[id].body]
                             ELSE awaits
      PROVE  ListInv'
  <2>1. /\ Wired(n.waiters, rec)
        /\ Meant(n.waiters, rec, r.table, hm, awaits, acked_messages)
        /\ rec[c] = "none"
        /\ \A d \in Calls : rec[d] = "closed" <=> d \in Closed
    <3> HIDE DEF s
    <3> QED
      BY <1>1, NotifiedParts
  <2>2. value' \in [Calls -> Messages \cup {None}]
    BY <1>6, GivenType DEF ListInv
  <2>3. CASE /\ waiters' = n.waiters /\ prune_due' = s.prune_due
             /\ receiver' = rec
             /\ UNCHANGED awaits
    <3> HIDE DEF s, n, rec, hm
    <3>1. /\ Wired(waiters', receiver')
          /\ Meant(waiters', receiver', entries', home', awaits', acked_messages')
      BY <1>2, <1>6, <2>1, <2>3
    <3> QED
      BY <1>1, <1>2, <1>6, <2>2, <2>3, <3>1, InvAfter
  <2>4. CASE /\ r.outcome = "Stored"
             /\ waiters' = a.waiters /\ prune_due' = a.prune_due
             /\ receiver' = IF a.joined THEN [rec EXCEPT ![c] = "open"] ELSE rec
             /\ awaits' = IF a.joined THEN [awaits EXCEPT ![c] = entries'[id].body]
                          ELSE awaits
    <3>1. after.waiters = n.waiters /\ after.prune_due = s.prune_due
      OBVIOUS
    <3>2. id \in DOMAIN r.table /\ r.table[id].body # None
      BY <2>4, InvContext, StoredRow, RepositoryAssumption
    <3>3. "ack" \in Kinds
      BY DEF Kinds
    <3> HIDE DEF s, n, rec, after, hm
    <3>4. /\ Wired(a.waiters, IF a.joined THEN [rec EXCEPT ![c] = "open"] ELSE rec)
          /\ Meant(a.waiters, IF a.joined THEN [rec EXCEPT ![c] = "open"] ELSE rec, r.table, hm,
                   IF a.joined /\ "ack" = "ack" THEN [awaits EXCEPT ![c] = r.table[id].body]
                   ELSE awaits, acked_messages)
          /\ a.prune_due \in BOOLEAN
      BY <1>1, <2>1, <3>1, <3>2, <3>3, JoinedParts
    <3> HIDE DEF a
    <3>5. /\ Wired(waiters', receiver')
          /\ Meant(waiters', receiver', entries', home', awaits', acked_messages')
      BY <1>2, <1>6, <2>4, <3>4
    <3> QED
      BY <1>2, <1>6, <2>2, <2>4, <3>4, <3>5, InvAfter
  <2> QED
    BY <1>6, <2>3, <2>4
<1> QED
  <2> HIDE DEF s, n, rec, after, hm, a
  <2> QED
    BY <1>3, <1>4, <1>5, <1>6

\* A cleanup keeps the invariant.
LEMMA CleanupStepInv ==
  ASSUME ListInv, cleanup_expired
  PROVE  ListInv'
<1> DEFINE G == ExpiredIds(entries)
<1>1. UNCHANGED <<now, max_entries, prune_due, value, home, awaits, acked_messages>>
  BY DEF cleanup_expired
<1>2. ASSUME NEW gone \in SUBSET Ids, NEW dead,
             waiters' = release_waiters(gone).waiters,
             receiver' = Signalled({}, release_waiters(gone).dropped),
             entries' = Without(entries, dead)
      PROVE  ListInv'
  <2>1. Wired(waiters', receiver') /\ Fewer(waiters', waiters)
    BY <1>2, WiredReleased DEF ListInv
  <2>2. receiver \in [Calls -> ReceiverStates]
    BY InvContext
  <2>3. \A c \in Calls :
          /\ receiver'[c] = "sent" => receiver[c] = "sent"
          /\ receiver'[c] = "none" => receiver[c] = "none"
    BY <1>2, <2>2, SignalledReceivers
  <2>4. Meant(waiters', receiver', Without(entries, dead), home, awaits, acked_messages)
    BY <2>1, <2>3, MeantFewer DEF ListInv
  <2>5. Meant(waiters', receiver', entries', home', awaits', acked_messages')
    BY <1>1, <1>2, <2>4
  <2> QED
    BY <1>1, <2>1, <2>5, InvAfter DEF ListInv, RepoTypeOK
<1>3. CASE /\ entries' = delete_expired(entries)
           /\ LET n == release_waiters(ExpiredIds(entries))
              IN waiters' = n.waiters /\ receiver' = Signalled({}, n.dropped)
  <2>1. G \in SUBSET Ids
    BY DEF ExpiredIds, ListInv, RepoTypeOK, IsTable
  <2> QED
    BY <1>2, <1>3, <2>1 DEF delete_expired
<1>4. CASE /\ waiters' = release_waiters({}).waiters
           /\ UNCHANGED <<entries, receiver>>
  <2>1. entries = Without(entries, {})
    BY WithoutNothing DEF ListInv, RepoTypeOK
  <2>2. Wired(waiters, receiver) /\ receiver \in [Calls -> ReceiverStates]
    BY DEF ListInv, Wired
  <2>3. \A c \in Calls : c \notin release_waiters({}).dropped
    BY <2>2, WiredReleased
  <2>4. Signalled({}, release_waiters({}).dropped) = receiver
    BY <2>2, <2>3 DEF Signalled
  <2> QED
    BY <1>2, <1>4, <2>1, <2>4
<1> QED
  BY <1>3, <1>4 DEF cleanup_expired

\* A receiver that goes away while it waits keeps the invariant.
LEMMA CloseStepInv ==
  ASSUME ListInv, NEW c \in Calls, CloseReceiver(c)
  PROVE  ListInv'
<1>1. /\ receiver' \in [Calls -> ReceiverStates]
      /\ receiver[c] = "open" /\ receiver'[c] = "closed"
      /\ \A d \in Calls : d # c => receiver'[d] = receiver[d]
  BY DEF ListInv, Wired, CloseReceiver, ReceiverStates
<1>2. UNCHANGED <<entries, now, max_entries, waiters, prune_due, value, home, awaits,
                  acked_messages>>
  BY DEF CloseReceiver
<1>3. Wired(waiters, receiver')
  BY <1>1 DEF ListInv, Wired
<1>4. Fewer(waiters, waiters)
  BY DEF Fewer
<1>5. Meant(waiters, receiver', entries, home, awaits, acked_messages)
  BY <1>1, <1>4, MeantSameTable DEF ListInv
<1>6. /\ Wired(waiters', receiver')
      /\ Meant(waiters', receiver', entries', home', awaits', acked_messages')
  BY <1>2, <1>3, <1>5
<1> QED
  BY <1>2, <1>6, InvAfter DEF ListInv, RepoTypeOK

\* A restart keeps the invariant: no sender survives it and no receiver stays open.
LEMMA RestartInv ==
  ASSUME ListInv, Restart
  PROVE  ListInv'
<1> DEFINE nobody == [id \in {} |-> NoWaiters]
<1>1. /\ waiters' = nobody
      /\ UNCHANGED <<now, value, home, awaits, acked_messages>>
      /\ prune_due' \in BOOLEAN
      /\ max_entries' \in Limits
  BY DEF Restart, Reopen
<1>2. \A id \in Ids, kind \in Kinds, c \in Calls : ~Waits(nobody, id, kind, c)
  BY DEF Waits
<1>3. IsWaiterMap(nobody)
  BY DEF IsWaiterMap
<1>4. /\ receiver' \in [Calls -> ReceiverStates]
      /\ \A c \in Calls :
           /\ receiver'[c] # "open"
           /\ receiver'[c] = "sent" => receiver[c] = "sent"
           /\ receiver'[c] = "none" => receiver[c] = "none"
  BY DEF Restart, ListInv, Wired, ReceiverStates
<1> HIDE DEF nobody
<1>5. Wired(nobody, receiver')
  BY <1>2, <1>3, <1>4 DEF Wired
<1>6. PICK dead : entries' = Without(entries, dead)
  <2>1. entries = Without(entries, {})
    BY WithoutNothing DEF ListInv, RepoTypeOK
  <2>2. [id \in {} |-> None] = Without(entries, DOMAIN entries)
    BY DEF Without, Restrict
  <2> QED
    BY <2>1, <2>2 DEF Restart, Reopen
<1>7. Fewer(nobody, waiters)
  BY <1>2 DEF Fewer
<1>8. Meant(nobody, receiver', Without(entries, dead), home, awaits, acked_messages)
  BY <1>4, <1>7, MeantFewer DEF ListInv
<1>9. /\ Wired(waiters', receiver')
      /\ Meant(waiters', receiver', entries', home', awaits', acked_messages')
  BY <1>1, <1>5, <1>6, <1>8
<1> QED
  BY <1>1, <1>9, InvAfter DEF ListInv, RepoTypeOK

\* Neither the clock nor the prune interval touches the waiters or the table.
LEMMA TimeStepInv ==
  ASSUME ListInv, PruneIntervalPasses \/ ClockTick
  PROVE  ListInv'
<1>1. /\ UNCHANGED <<entries, max_entries, waiters, receiver, value, home, awaits,
                     acked_messages>>
      /\ now' \in 0..MaxTime
      /\ prune_due' \in BOOLEAN
  BY DEF PruneIntervalPasses, ClockTick, Tick, LaterReadings, ListInv, RepoTypeOK
<1>2. /\ Wired(waiters', receiver')
      /\ Meant(waiters', receiver', entries', home', awaits', acked_messages')
  BY <1>1 DEF ListInv
<1> QED
  BY <1>1, <1>2, InvAfter DEF ListInv, RepoTypeOK

(***************************************************************************)
(* Theorems of the specification.                                          *)
(***************************************************************************)

\* Every step of the waiting list keeps the invariant.
LEMMA ListInvStep ==
  ASSUME ListInv, [ListNext]_list_vars
  PROVE  ListInv'
<1>1. CASE StoreStep
  BY <1>1, StoreStepInv DEF StoreStep, Unposted
<1>2. CASE StoreAndSubscribeStep
  BY <1>2, StoreAndSubscribeStepInv DEF StoreAndSubscribeStep, Unposted, Unused
<1>3. CASE AckStep
  BY <1>3, AckStepInv DEF AckStep
<1>4. CASE SubscribeAckStep
  BY <1>4, SubscribeAckStepInv DEF SubscribeAckStep, Unused
<1>5. CASE GetOrSubscribeStep
  BY <1>5, GetOrSubscribeStepInv DEF GetOrSubscribeStep, Unused
<1>6. CASE cleanup_expired
  BY <1>6, CleanupStepInv
<1>7. ASSUME NEW c \in Calls, CloseReceiver(c)
      PROVE  ListInv'
  BY <1>7, CloseStepInv
<1>8. CASE PruneIntervalPasses \/ ClockTick
  BY <1>8, TimeStepInv
<1>9. CASE Restart
  BY <1>9, RestartInv
<1>10. CASE UNCHANGED list_vars
  BY <1>10, StutterInv
<1> QED
  BY <1>1, <1>2, <1>3, <1>4, <1>5, <1>6, <1>7, <1>8, <1>9, <1>10 DEF ListNext

\* The invariant holds at the start.
LEMMA ListInitInv ==
  ASSUME ListInit
  PROVE  ListInv
<1>1. RepoTypeOK /\ WellFormed(entries) /\ DOMAIN entries = {}
  BY RepositoryAssumption DEF ListInit, RepoInit, RepoTypeOK, WellFormed, IsTable
<1>2. /\ IsWaiterMap(waiters)
      /\ \A id \in Ids, kind \in Kinds, c \in Calls : ~Waits(waiters, id, kind, c)
  BY DEF ListInit, IsWaiterMap, Waits
<1>3. /\ receiver \in [Calls -> ReceiverStates]
      /\ \A c \in Calls : receiver[c] = "none"
  BY DEF ListInit, ReceiverStates
<1>4. Wired(waiters, receiver)
  BY <1>2, <1>3 DEF Wired
<1>5. Meant(waiters, receiver, entries, home, awaits, acked_messages)
  <2>1. "ack" \in Kinds /\ "message" \in Kinds
    BY DEF Kinds
  <2> QED
    BY <1>1, <1>2, <1>3, <2>1 DEF ListInit, Meant
<1> QED
  BY <1>1, <1>4, <1>5 DEF ListInit, ListInv

\* The invariant holds in every state of the waiting list.
THEOREM ListInvariant == ListSpec => []ListInv
<1>1. ListInit => ListInv
  BY ListInitInv
<1>2. ListInv /\ [ListNext]_list_vars => ListInv'
  BY ListInvStep
<1> QED
  BY <1>1, <1>2, PTL DEF ListSpec

\* The variables keep their types; a sender in the map belongs to a channel that has
\* not resolved, and an open receiver has its sender there.
THEOREM ListTypeCorrect == ListSpec => []ListTypeOK
<1>1. ListInv => ListTypeOK
  <2> SUFFICES ASSUME ListInv PROVE ListTypeOK
    OBVIOUS
  <2>1. IsWaiterMap(waiters) /\ receiver \in [Calls -> ReceiverStates]
    BY DEF ListInv, Wired
  <2>2. \A c \in Calls :
          c \in Senders(waiters, Ids) <=> \E id \in Ids, kind \in Kinds : Waits(waiters, id, kind, c)
    BY <2>1, SendersAre
  <2>3. \A c \in Calls :
          /\ c \in Senders(waiters, Ids) => receiver[c] \in {"open", "closed"}
          /\ receiver[c] = "open" => c \in Senders(waiters, Ids)
    BY <2>2 DEF ListInv, Wired
  <2>4. /\ home \in [Messages -> Ids \cup {None}]
        /\ awaits \in [Calls -> Messages \cup {None}]
        /\ acked_messages \subseteq Messages
    BY DEF ListInv, Meant
  <2> QED
    BY <2>1, <2>3, <2>4 DEF ListInv, ListTypeOK, IsWaiterMap, ReceiverStates
<1> QED
  BY <1>1, ListInvariant, PTL

\* No request that waits for an ACK misses it: when a message is acknowledged, no
\* sender that waits for that message is left in the map.
THEOREM AckIsNotMissed == ListSpec => []AckNotMissed
<1>1. ListInv => AckNotMissed
  <2> SUFFICES ASSUME ListInv, NEW id \in DOMAIN waiters, NEW c \in waiters[id].ack
               PROVE  awaits[c] \notin acked_messages
    BY DEF AckNotMissed
  <2>1. id \in Ids /\ c \in Calls
    BY DEF ListInv, Wired, IsWaiterMap, Waiters
  <2>2. Waits(waiters, id, "ack", c)
    BY DEF Waits
  <2> QED
    BY <2>1, <2>2 DEF ListInv, Meant, AwaitsRow
<1> QED
  BY <1>1, ListInvariant, PTL

\* A request that is told "acknowledged" was waiting for a message that has been.
THEOREM AckSignalIsTruthful == ListSpec => []AckSignalTruthful
<1>1. ListInv => AckSignalTruthful
  BY DEF ListInv, Meant, AckSignalTruthful
<1> QED
  BY <1>1, ListInvariant, PTL

\* A message that was acknowledged is never handed to a consumer afterwards, by the
\* notification of waiting consumers or from the table.
THEOREM AckedIsNeverRedelivered == ListSpec => AckedNeverRedelivered
<1>1. ASSUME ListInv, [ListNext]_list_vars
      PROVE  [\A c \in Calls : value'[c] # value[c] => value'[c] \notin acked_messages]_list_vars
  <2> SUFFICES ASSUME NEW c \in Calls, value'[c] # value[c]
               PROVE  value'[c] \notin acked_messages
    OBVIOUS
  <2>1. ASSUME NEW m \in Unposted, NEW sent, value' = Given(sent, m)
        PROVE  value'[c] \notin acked_messages
    <3>1. value'[c] = m /\ m \in Messages /\ home[m] = None
      BY <2>1 DEF Given, Unposted
    <3> QED
      BY <1>1, <3>1 DEF ListInv, Meant
  <2>2. CASE StoreStep
    <3>1. PICK id \in Ids, m \in Unposted, ttl \in Ttls, res \in Results : store(id, m, ttl, res)
      BY <2>2 DEF StoreStep
    <3>2. value' = value \/ value' = Given(notify_message_waiters(waiters, id).sent, m)
      BY <3>1 DEF store
    <3> QED
      BY <2>1, <3>2
  <2>3. CASE StoreAndSubscribeStep
    <3>1. PICK d \in Unused, id \in Ids, m \in Unposted, ttl \in Ttls, res \in Results :
            store_and_subscribe_ack(d, id, m, ttl, res)
      BY <2>3 DEF StoreAndSubscribeStep
    <3>2. value' = value \/ \E sent : value' = Given(sent, m)
      BY <3>1 DEF store_and_subscribe_ack
    <3> QED
      BY <2>1, <3>2
  <2>4. CASE GetOrSubscribeStep
    <3>1. PICK d \in Unused, id \in Ids, res \in Results : get_or_subscribe(d, id, res)
      BY <2>4 DEF GetOrSubscribeStep
    <3>2. Available(id) /\ value' = [value EXCEPT ![d] = entries[id].body]
      BY <3>1 DEF get_or_subscribe, wait_for_message, give_message
    <3>3. value'[c] = entries[id].body
      BY <3>2 DEF Unused
    <3> QED
      BY <1>1, <3>2, <3>3 DEF ListInv, Meant, Available, Readable
  <2>5. CASE \/ AckStep \/ SubscribeAckStep \/ cleanup_expired
             \/ \E d \in Calls : CloseReceiver(d)
             \/ PruneIntervalPasses \/ Restart \/ ClockTick \/ UNCHANGED list_vars
    BY <2>5 DEF AckStep, ack, SubscribeAckStep, subscribe_ack, cleanup_expired, CloseReceiver,
                PruneIntervalPasses, Restart, ClockTick, list_vars
  <2> QED
    BY <1>1, <2>2, <2>3, <2>4, <2>5 DEF ListNext
<1> QED
  BY <1>1, ListInvariant, PTL DEF ListSpec, AckedNeverRedelivered

\* A receiver becomes "dropped" only if its sender was among those dropped.
LEMMA DroppedReceivers ==
  ASSUME receiver \in [Calls -> ReceiverStates], NEW sent, NEW dropped, NEW c \in Calls,
         receiver[c] = "open", Signalled(sent, dropped)[c] = "dropped"
  PROVE  c \in dropped
BY SignalledReceivers

\* A post to an id drops only the calls that wait there for another message's ACK.
LEMMA DroppedByPost ==
  ASSUME ListInv, NEW w, IsWaiterMap(w), Fewer(w, waiters), NEW id \in Ids, NEW c \in Calls,
         receiver[c] = "open",
         LET n == notify_message_waiters(w, id) IN Signalled(n.sent, n.dropped)[c] = "dropped"
  PROVE  home[awaits[c]] = id
<1> DEFINE n == notify_message_waiters(w, id)
<1>1. \A d \in Calls : d \in n.dropped <=> Waits(w, id, "ack", d)
  BY NotifyMessageWaits
<1>2. receiver \in [Calls -> ReceiverStates]
  BY InvContext
<1> HIDE DEF n
<1>3. c \in n.dropped
  BY <1>2, DroppedReceivers DEF n
<1>4. Waits(waiters, id, "ack", c)
  BY <1>1, <1>3 DEF Fewer, Kinds
<1> QED
  BY <1>4 DEF ListInv, Meant, AwaitsRow

\* A request that waits for an ACK loses its sender only to another message posted
\* to its id or to a cleanup that finds its message expired.
THEOREM AckWaiterIsDroppedForCause == ListSpec => AckWaiterDroppedForCause
<1>1. ASSUME ListInv, [ListNext]_list_vars
      PROVE  [\A c \in Calls :
                receiver[c] = "open" /\ receiver'[c] = "dropped" /\ awaits[c] # None =>
                  \/ \E m \in Messages : home[m] = None /\ home'[m] = home[awaits[c]]
                  \/ home[awaits[c]] \in ExpiredIds(entries) \ DOMAIN entries']_list_vars
  <2> SUFFICES ASSUME NEW c \in Calls, receiver[c] = "open", receiver'[c] = "dropped",
                      awaits[c] # None
               PROVE  \/ \E m \in Messages : home[m] = None /\ home'[m] = home[awaits[c]]
                      \/ home[awaits[c]] \in ExpiredIds(entries) \ DOMAIN entries'
    OBVIOUS
  <2>1. receiver \in [Calls -> ReceiverStates] /\ IsWaiterMap(waiters)
    BY <1>1 DEF ListInv, Wired
  <2>2. ASSUME NEW id \in Ids, NEW m \in Unposted, home' = [home EXCEPT ![m] = id],
               home[awaits[c]] = id
        PROVE  \E n \in Messages : home[n] = None /\ home'[n] = home[awaits[c]]
    BY <1>1, <2>2 DEF Unposted, ListInv, Meant
  <2>3. CASE StoreStep
    <3>1. PICK id \in Ids, m \in Unposted, ttl \in Ttls, res \in Results : store(id, m, ttl, res)
      BY <2>3 DEF StoreStep
    <3>2. /\ LET n == notify_message_waiters(waiters, id)
             IN receiver' = receiver \/ receiver' = Signalled(n.sent, n.dropped)
          /\ home' = [home EXCEPT ![m] = id]
      BY <3>1 DEF store
    <3>3. Fewer(waiters, waiters)
      BY DEF Fewer
    <3>4. home[awaits[c]] = id
      BY <1>1, <2>1, <3>2, <3>3, DroppedByPost
    <3> QED
      BY <2>2, <3>2, <3>4
  <2>4. CASE StoreAndSubscribeStep
    <3>1. PICK d \in Unused, id \in Ids, m \in Unposted, ttl \in Ttls, res \in Results :
            store_and_subscribe_ack(d, id, m, ttl, res)
      BY <2>4 DEF StoreAndSubscribeStep
    <3> DEFINE s == ensure_waiter_capacity(ListState, id)
               n == notify_message_waiters(s.waiters, id)
               rec == Signalled(n.sent, n.dropped)
    <3>2. \/ receiver' = receiver
          \/ /\ receiver' = rec \/ receiver' = [rec EXCEPT ![d] = "open"]
             /\ home' = [home EXCEPT ![m] = id]
      BY <3>1 DEF store_and_subscribe_ack, subscribe_stored
    <3>3. IsWaiterMap(s.waiters) /\ Fewer(s.waiters, waiters)
      BY <1>1, WiredEnsured DEF ListInv, Wired
    <3> HIDE DEF s
    <3>4. c # d /\ rec \in [Calls -> ReceiverStates]
      BY <2>1, SignalledReceivers DEF Unused
    <3> HIDE DEF rec
    <3>5. rec[c] = "dropped" /\ home' = [home EXCEPT ![m] = id]
      BY <3>2, <3>4
    <3>6. home[awaits[c]] = id
      BY <1>1, <3>3, <3>5, DroppedByPost DEF rec
    <3> QED
      BY <2>2, <3>5, <3>6
  <2>5. CASE cleanup_expired
    <3> DEFINE n == release_waiters(ExpiredIds(entries))
    <3>1. receiver' = Signalled({}, n.dropped) /\ entries' = delete_expired(entries)
      BY <2>5 DEF cleanup_expired
    <3>2. ExpiredIds(entries) \in SUBSET Ids
      BY <1>1 DEF ExpiredIds, ListInv, RepoTypeOK, IsTable
    <3>3. c \in n.dropped <=>
            \E id \in ExpiredIds(entries), kind \in Kinds : Waits(waiters, id, kind, c)
      BY <1>1, <3>2, WiredReleased DEF ListInv
    <3> HIDE DEF n
    <3>4. c \in n.dropped
      BY <2>1, <3>1, DroppedReceivers
    <3>5. PICK id \in ExpiredIds(entries), kind \in Kinds : Waits(waiters, id, kind, c)
      BY <3>3, <3>4
    <3>6. home[awaits[c]] = id
      BY <1>1, <3>2, <3>5 DEF Kinds, ListInv, Meant, AwaitsRow
    <3>7. id \notin DOMAIN entries'
      BY <3>1, <3>5 DEF delete_expired, Without, Restrict
    <3> QED
      BY <3>5, <3>6, <3>7
  <2>6. CASE AckStep
    <3>1. PICK id \in Ids, res \in Results : ack(id, res)
      BY <2>6 DEF AckStep
    <3>2. receiver' = Signalled(notify_ack_waiters(waiters, id).sent, {})
      BY <3>1 DEF ack, list_vars
    <3> QED
      BY <2>1, <3>2, DroppedReceivers
  <2>7. CASE \/ SubscribeAckStep \/ GetOrSubscribeStep
             \/ \E d \in Calls : CloseReceiver(d)
             \/ PruneIntervalPasses \/ Restart \/ ClockTick \/ UNCHANGED list_vars
    <3>1. \/ receiver' = receiver
          \/ \E d \in Calls : receiver' = [receiver EXCEPT ![d] = "sent"]
          \/ \E d \in Calls : receiver' = [receiver EXCEPT ![d] = "open"]
          \/ \E d \in Calls : receiver' = [receiver EXCEPT ![d] = "closed"]
          \/ receiver' = [d \in Calls |-> IF receiver[d] = "open" THEN "closed" ELSE receiver[d]]
      BY <2>7 DEF SubscribeAckStep, subscribe_ack, GetOrSubscribeStep, get_or_subscribe,
                  wait_for_message, give_message, Unused, CloseReceiver, PruneIntervalPasses,
                  Restart, ClockTick, list_vars
    <3> QED
      BY <2>1, <3>1
  <2> QED
    BY <1>1, <2>3, <2>4, <2>5, <2>6, <2>7 DEF ListNext
<1> QED
  BY <1>1, ListInvariant, PTL DEF ListSpec, AckWaiterDroppedForCause

(***************************************************************************)
(* The store under the list.                                               *)
(***************************************************************************)

\* Whatever the list does, it uses the store through its operations, at most one in a
\* step: POST /link, which reads back what it has stored, writes it once.
LEMMA ListCallsStore ==
  ASSUME [ListNext]_list_vars
  PROVE  StoreCalled
<1>1. CASE StoreStep
  <2>1. PICK id \in Ids, m \in Unposted, ttl \in Ttls, res \in Results : store(id, m, ttl, res)
    BY <1>1 DEF StoreStep
  <2>2. Inserted(id, m, ttl)
    BY <2>1 DEF store, Inserted
  <2> QED
    BY <2>2 DEF StoreCalled, Unposted
<1>2. CASE StoreAndSubscribeStep
  <2>1. PICK c \in Unused, id \in Ids, m \in Unposted, ttl \in Ttls, res \in Results :
          store_and_subscribe_ack(c, id, m, ttl, res)
    BY <1>2 DEF StoreAndSubscribeStep
  <2>2. \/ UNCHANGED <<entries, now, max_entries>>
        \/ Inserted(id, m, ttl)
    BY <2>1 DEF store_and_subscribe_ack, Inserted
  <2> QED
    BY <2>2 DEF StoreCalled, Unposted, repo_vars
<1>3. CASE AckStep
  <2>1. PICK id \in Ids, res \in Results : ack(id, res)
    BY <1>3 DEF AckStep
  <2>2. UNCHANGED repo_vars \/ Ack(id)
    BY <2>1 DEF ack, Ack, list_vars, repo_vars
  <2> QED
    BY <2>2 DEF StoreCalled, RepoNext
<1>4. CASE SubscribeAckStep \/ GetOrSubscribeStep
  <2>1. UNCHANGED repo_vars
    BY <1>4 DEF SubscribeAckStep, subscribe_ack, GetOrSubscribeStep, get_or_subscribe,
                wait_for_message, repo_vars
  <2> QED
    BY <2>1 DEF StoreCalled
<1>5. CASE cleanup_expired
  <2>1. CleanupExpired \/ UNCHANGED repo_vars
    BY <1>5 DEF cleanup_expired, CleanupExpired, repo_vars
  <2> QED
    BY <2>1 DEF StoreCalled, RepoNext
<1>6. CASE (\E c \in Calls : CloseReceiver(c)) \/ PruneIntervalPasses \/ UNCHANGED list_vars
  BY <1>6 DEF CloseReceiver, PruneIntervalPasses, list_vars, StoreCalled, repo_vars
<1>7. CASE Restart \/ ClockTick
  BY <1>7 DEF Restart, ClockTick, StoreCalled, RepoNext
<1> QED
  BY <1>1, <1>2, <1>3, <1>4, <1>5, <1>6, <1>7 DEF ListNext

\* What the store promises its callers, the list keeps: no operation of it, failing or
\* not, costs an undelivered message of another id its row.
THEOREM ListKeepsUndelivered == ListSpec => UndeliveredKept
<1>1. ListInv /\ [ListNext]_list_vars => [KeepsUndelivered]_repo_vars
  BY ListCallsStore, KeepsUndeliveredStep DEF ListInv
<1> QED
  BY <1>1, ListInvariant, PTL DEF ListSpec, UndeliveredKept

\* Under the list, too, an acknowledged entry is evicted only if no older one stays.
THEOREM ListEvictsOldestFirst == ListSpec => OldestEvictedFirst
<1>1. ListInv /\ [ListNext]_list_vars => [EvictsOldestFirst]_repo_vars
  BY ListCallsStore, EvictsOldestStep DEF ListInv
<1> QED
  BY <1>1, ListInvariant, PTL DEF ListSpec, OldestEvictedFirst

\* Under the list, too, the store grows only up to its limit.
THEOREM ListGrowsWithinLimit == ListSpec => GrowthWithinLimit
<1>1. ListInv /\ ListInv' /\ [ListNext]_list_vars => [GrowsWithinLimit]_repo_vars
  BY ListCallsStore, GrowthStep DEF ListInv
<1> QED
  BY <1>1, ListInvariant, PTL DEF ListSpec, GrowthWithinLimit

\* A POST is turned away for want of room only when every row holds a message that is
\* still to be delivered.
THEOREM ListRejectionIsJustified == ListSpec => []RejectedOnlyWhenFull
<1>1. ListInit => MemoryWithinLimit
  BY RepositoryAssumption, FS_EmptySet DEF ListInit, RepoInit, MemoryWithinLimit, Size
<1>2. ListInv /\ ListInv' /\ MemoryWithinLimit /\ [ListNext]_list_vars => MemoryWithinLimit'
  BY ListCallsStore, MemoryWithinLimitStep DEF ListInv
<1>3. ListInv /\ MemoryWithinLimit => RejectedOnlyWhenFull
  BY RejectionJustified DEF ListInv
<1> QED
  BY <1>1, <1>2, <1>3, ListInvariant, PTL DEF ListSpec
==============================================================================
