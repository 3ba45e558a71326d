--------------------------- MODULE WaiterMapProofs ---------------------------
(***************************************************************************)
(* Theorems about the map of waiters: how many channels it may hold, which *)
(* ids it may hold, and that nobody waits in it for a message that is      *)
(* already stored.                                                         *)
(***************************************************************************)
EXTENDS WaitingListProofs

\* The map w is within the limits, of which limit is the one for ids, and holds only
\* ids that somebody is registered for.
Slim(w, limit) ==
  /\ IsWaiterMap(w)
  /\ Size(w) <= limit
  /\ \A id \in DOMAIN w :
       /\ w[id] # NoWaiters
       /\ \A kind \in Kinds : Cardinality(w[id][kind]) <= MaxWaitersPerEntry

(***************************************************************************)
(* The operations on the map keep it slim.                                 *)
(***************************************************************************)

\* A map has finitely many ids, with finite lists.
LEMMA MapFinite ==
  ASSUME NEW w, IsWaiterMap(w)
  PROVE  /\ IsFiniteSet(DOMAIN w)
         /\ Size(w) \in Nat
         /\ \A id \in DOMAIN w, kind \in Kinds :
              IsFiniteSet(w[id][kind]) /\ Cardinality(w[id][kind]) \in Nat
<1>1. IsFiniteSet(Ids) /\ IsFiniteSet(Calls)
  BY RepositoryAssumption, WaitingListAssumption
<1>2. \A id \in DOMAIN w, kind \in Kinds : w[id][kind] \in SUBSET Calls
  BY DEF IsWaiterMap, Waiters, Kinds
<1>3. DOMAIN w \in SUBSET Ids
  BY DEF IsWaiterMap
<1> QED
  BY <1>1, <1>2, <1>3, FS_Subset, FS_CardinalityType DEF Size

\* A map with fewer ids and shorter lists, none of them left without waiters, is slim
\* if the larger one was.
LEMMA SlimShrunk ==
  ASSUME NEW w, NEW limit \in Nat, Slim(w, limit), NEW v, IsWaiterMap(v),
         DOMAIN v \subseteq DOMAIN w,
         \A id \in DOMAIN v :
           /\ v[id] # NoWaiters
           /\ \A kind \in Kinds : v[id][kind] \subseteq w[id][kind]
  PROVE  Slim(v, limit)
<1>1. /\ IsFiniteSet(DOMAIN w) /\ Size(w) \in Nat /\ Size(v) \in Nat
      /\ \A id \in DOMAIN w, kind \in Kinds :
           IsFiniteSet(w[id][kind]) /\ Cardinality(w[id][kind]) \in Nat
      /\ \A id \in DOMAIN v, kind \in Kinds : Cardinality(v[id][kind]) \in Nat
  BY MapFinite DEF Slim
<1>2. Size(v) <= Size(w)
  BY <1>1, FS_Subset DEF Size
<1>3. \A id \in DOMAIN v, kind \in Kinds : Cardinality(v[id][kind]) <= Cardinality(w[id][kind])
  BY <1>1, FS_Subset
<1>4. \A id \in DOMAIN v, kind \in Kinds : Cardinality(v[id][kind]) <= MaxWaitersPerEntry
  BY <1>1, <1>3, WaitingListAssumption DEF Slim
<1> QED
  BY <1>1, <1>2, <1>4 DEF Slim

\* Removing ids keeps the map slim.
LEMMA SlimWithout ==
  ASSUME NEW w, NEW limit \in Nat, Slim(w, limit), NEW S
  PROVE  Slim(Without(w, S), limit)
<1>1. IsWaiterMap(Without(w, S))
  BY WithoutWaits DEF Slim
<1>2. /\ DOMAIN Without(w, S) \subseteq DOMAIN w
      /\ \A id \in DOMAIN Without(w, S) : Without(w, S)[id] = w[id]
  BY DEF Without, Restrict
<1> QED
  BY <1>1, <1>2, SlimShrunk DEF Slim

\* Pruning keeps the map slim: ids left without waiters are removed.
LEMMA SlimPruned ==
  ASSUME NEW w, NEW limit \in Nat, Slim(w, limit)
  PROVE  Slim(remove_closed_waiters(w), limit)
<1> DEFINE open == [id \in DOMAIN w |-> [ack |-> w[id].ack \ Closed,
                                         message |-> w[id].message \ Closed]]
           empty == {id \in DOMAIN w : open[id] = NoWaiters}
           v == remove_closed_waiters(w)
<1> SUFFICES Slim(v, limit)
  OBVIOUS
<1>1. v = Without(open, empty)
  BY DEF remove_closed_waiters
<1>2. IsWaiterMap(v)
  BY PruneWaits DEF Slim
<1>3. DOMAIN v = DOMAIN w \ empty /\ \A id \in DOMAIN v : v[id] = open[id]
  BY <1>1 DEF Without, Restrict
<1>4. \A id \in DOMAIN w, kind \in Kinds : open[id][kind] \subseteq w[id][kind]
  BY DEF Kinds
<1> HIDE DEF v, open
<1>5. \A id \in DOMAIN v : v[id] # NoWaiters
  BY <1>3
<1> QED
  BY <1>2, <1>3, <1>4, <1>5, SlimShrunk

\* Ensuring capacity keeps the map slim.
LEMMA SlimEnsured ==
  ASSUME NEW s, NEW limit \in Nat, Slim(s.waiters, limit), NEW id
  PROVE  Slim(ensure_waiter_capacity(s, id).waiters, limit)
BY SlimPruned DEF ensure_waiter_capacity

\* Adding a waiter keeps the map slim: a new id is only added below the limit, a sender
\* only to a list below its limit.
LEMMA SlimAdded ==
  ASSUME NEW s, max_entries \in Nat, Slim(s.waiters, max_entries),
         NEW id \in Ids, NEW kind \in Kinds, NEW c \in Calls
  PROVE  Slim(add_waiter(s, id, kind, c).waiters, max_entries)
<1> DEFINE e == ensure_waiter_capacity(s, id).waiters
           room == has_room(e, id)
           old == waiters_at(e, id)
           live == old[kind] \ Closed
           joined == room /\ Cardinality(live) < MaxWaitersPerEntry
           list == IF joined THEN live \cup {c} ELSE live
           at == [old EXCEPT ![kind] = list]
           a == add_waiter(s, id, kind, c).waiters
<1> SUFFICES Slim(a, max_entries)
  OBVIOUS
<1>1. Slim(e, max_entries)
  BY SlimEnsured
<1>2. a = IF room THEN Put(e, id, at) ELSE e
  BY DEF add_waiter
<1> HIDE DEF e, a
<1>3. /\ old \in Waiters
      /\ \A k \in Kinds : IsFiniteSet(old[k]) /\ Cardinality(old[k]) <= MaxWaitersPerEntry
  <2>1. CASE id \in DOMAIN e
    BY <1>1, <2>1, MapFinite DEF Slim, IsWaiterMap, waiters_at
  <2>2. CASE id \notin DOMAIN e
    <3>1. old = NoWaiters /\ \A k \in Kinds : old[k] = {}
      BY <2>2 DEF waiters_at, NoWaiters, Kinds
    <3> QED
      BY <3>1, FS_EmptySet, WaitingListAssumption DEF NoWaiters, Waiters
  <2> QED
    BY <2>1, <2>2
<1>4. /\ at \in Waiters
      /\ \A k \in Kinds : at[k] = IF k = kind THEN list ELSE old[k]
  BY <1>3 DEF Waiters, Kinds
<1>5. IsFiniteSet(live) /\ Cardinality(live) \in Nat /\ Cardinality(live) <= Cardinality(old[kind])
  BY <1>3, FS_Subset, FS_CardinalityType
<1>6. Cardinality(old[kind]) \in Nat
  BY <1>3, FS_CardinalityType
<1>7. Cardinality(list) <= MaxWaitersPerEntry
  <2>1. CASE joined
    <3> HIDE DEF live
    <3>1. Cardinality(live \cup {c}) =
            IF c \in live THEN Cardinality(live) ELSE Cardinality(live) + 1
      BY <1>5, FS_AddElement
    <3>2. Cardinality(live \cup {c}) \in Nat
      BY <1>5, FS_AddElement, FS_CardinalityType
    <3> QED
      BY <1>5, <2>1, <3>1, <3>2, WaitingListAssumption
  <2>2. CASE ~joined
    BY <1>3, <1>5, <1>6, <2>2, WaitingListAssumption
  <2> QED
    BY <2>1, <2>2
<1>8. CASE ~room
  BY <1>1, <1>2, <1>8
<1>9. CASE room
  <2>1. a = Put(e, id, at)
    BY <1>2, <1>9
  <2>2. at # NoWaiters
    <3>1. list # {}
      BY <1>5, <1>9, FS_EmptySet, WaitingListAssumption
    <3> QED
      BY <1>4, <3>1 DEF NoWaiters, Kinds
  <2> HIDE DEF at, list, joined, live, old
  <2>3. IsWaiterMap(a)
    BY <1>1, <1>4, <2>1 DEF Slim, IsWaiterMap, Put
  <2>4. Size(a) <= max_entries
    <3>1. DOMAIN a = DOMAIN e \cup {id}
      BY <2>1, PutRows
    <3>2. IsFiniteSet(DOMAIN e) /\ Size(e) \in Nat /\ Size(e) <= max_entries
      BY <1>1, MapFinite DEF Slim
    <3>3. id \in DOMAIN e \/ Size(e) < max_entries
      BY <1>9 DEF has_room, max_waiting_ids
    <3>4. Size(a) = IF id \in DOMAIN e THEN Size(e) ELSE Size(e) + 1
      BY <3>1, <3>2, FS_AddElement DEF Size
    <3> QED
      BY <3>2, <3>3, <3>4
  <2>5. \A j \in DOMAIN a : a[j] = IF j = id THEN at ELSE e[j]
    BY <2>1 DEF Put
  <2>6. \A j \in DOMAIN a : j # id => j \in DOMAIN e
    BY <2>1 DEF Put
  <2>7. \A k \in Kinds : Cardinality(at[k]) <= MaxWaitersPerEntry
    BY <1>3, <1>4, <1>7
  <2> QED
    BY <1>1, <2>2, <2>3, <2>4, <2>5, <2>6, <2>7 DEF Slim
<1> QED
  BY <1>8, <1>9

\* Notifying ACK waiters keeps the map slim: an id they leave empty is removed.
LEMMA SlimAckNotified ==
  ASSUME NEW w, NEW limit \in Nat, Slim(w, limit), NEW id \in Ids
  PROVE  Slim(notify_ack_waiters(w, id).waiters, limit)
<1> DEFINE v == notify_ack_waiters(w, id).waiters
<1> SUFFICES Slim(v, limit)
  OBVIOUS
<1>1. IsWaiterMap(v)
  BY NotifyAckWaits DEF Slim
<1>2. CASE waiters_at(w, id).message = {}
  BY <1>2, SlimWithout DEF notify_ack_waiters
<1>3. CASE waiters_at(w, id).message # {}
  <2>1. id \in DOMAIN w
    BY <1>3 DEF waiters_at, NoWaiters
  <2> DEFINE at == [w[id] EXCEPT !.ack = {}]
  <2>2. v = Put(w, id, at)
    BY <1>3 DEF notify_ack_waiters
  <2>3. /\ w[id].message # {}
        /\ w[id] \in Waiters
    BY <1>3, <2>1 DEF waiters_at, Slim, IsWaiterMap
  <2>4. /\ at # NoWaiters
        /\ \A kind \in Kinds : at[kind] \subseteq w[id][kind]
    BY <2>3 DEF NoWaiters, Waiters, Kinds
  <2> HIDE DEF v, at
  <2>5. DOMAIN v = DOMAIN w /\ \A j \in DOMAIN w : v[j] = IF j = id THEN at ELSE w[j]
    BY <2>1, <2>2 DEF Put
  <2>6. \A j \in DOMAIN v :
          /\ v[j] # NoWaiters
          /\ \A kind \in Kinds : v[j][kind] \subseteq w[j][kind]
    BY <2>4, <2>5 DEF Slim
  <2> QED
    BY <1>1, <2>5, <2>6, SlimShrunk
<1> QED
  BY <1>2, <1>3

(***************************************************************************)
(* The limits on waiters.                                                  *)
(***************************************************************************)

\* Every step keeps the map slim; a restart, which may lower the limit, empties it.
LEMMA SlimStep ==
  ASSUME ListInv, Slim(waiters, max_entries), [ListNext]_list_vars
  PROVE  Slim(waiters', max_entries')
<1>1. max_entries \in Nat /\ max_entries' \in Nat
  <2>1. max_entries' = max_entries \/ max_entries' \in Limits
    <3>1. CASE StoreStep
      BY <3>1 DEF StoreStep, store
    <3>2. CASE StoreAndSubscribeStep
      BY <3>2 DEF StoreAndSubscribeStep, store_and_subscribe_ack
    <3>3. CASE AckStep
      BY <3>3 DEF AckStep, ack, list_vars
    <3>4. CASE SubscribeAckStep \/ GetOrSubscribeStep
      BY <3>4 DEF SubscribeAckStep, subscribe_ack, GetOrSubscribeStep, get_or_subscribe
    <3>5. CASE cleanup_expired \/ (\E c \in Calls : CloseReceiver(c)) \/ PruneIntervalPasses
      BY <3>5 DEF cleanup_expired, CloseReceiver, PruneIntervalPasses
    <3>6. CASE Restart \/ ClockTick \/ UNCHANGED list_vars
      BY <3>6 DEF Restart, Reopen, ClockTick, Tick, list_vars
    <3> QED
      BY <3>1, <3>2, <3>3, <3>4, <3>5, <3>6 DEF ListNext
  <2> QED
    BY <2>1, RepositoryAssumption DEF ListInv, RepoTypeOK
<1>2. Slim(ListState.waiters, max_entries)
  BY DEF ListState
<1>3. CASE StoreStep
  <2>1. /\ max_entries' = max_entries
        /\ \/ waiters' = waiters
           \/ \E id \in Ids : waiters' = Without(waiters, {id})
    BY <1>3 DEF StoreStep, store, notify_message_waiters
  <2> QED
    BY <1>1, <2>1, SlimWithout
<1>4. CASE StoreAndSubscribeStep
  <2>1. PICK c \in Calls, id \in Ids, m \in Messages, ttl \in Ttls, res \in Results :
          store_and_subscribe_ack(c, id, m, ttl, res)
    BY <1>4 DEF StoreAndSubscribeStep, Unused, Unposted
  <2> DEFINE s == ensure_waiter_capacity(ListState, id)
             after == [waiters |-> Without(s.waiters, {id}), prune_due |-> s.prune_due]
  <2>2. /\ max_entries' = max_entries
        /\ \/ waiters' = s.waiters
           \/ waiters' = after.waiters
           \/ waiters' = add_waiter(after, id, "ack", c).waiters
    BY <2>1 DEF store_and_subscribe_ack, subscribe_stored, notify_message_waiters
  <2>3. Slim(s.waiters, max_entries)
    BY <1>1, <1>2, SlimEnsured
  <2> HIDE DEF s
  <2>4. Slim(after.waiters, max_entries)
    BY <1>1, <2>3, SlimWithout
  <2> HIDE DEF after
  <2>5. Slim(add_waiter(after, id, "ack", c).waiters, max_entries)
    BY <1>1, <2>4, SlimAdded DEF Kinds
  <2> QED
    BY <2>2, <2>3, <2>4, <2>5
<1>5. CASE AckStep
  <2>1. /\ max_entries' = max_entries
        /\ \/ waiters' = waiters
           \/ \E id \in Ids : waiters' = notify_ack_waiters(waiters, id).waiters
    BY <1>5 DEF AckStep, ack, list_vars
  <2> QED
    BY <1>1, <2>1, SlimAckNotified
<1>6. CASE SubscribeAckStep \/ GetOrSubscribeStep
  <2>1. /\ max_entries' = max_entries
        /\ \/ waiters' = waiters
           \/ \E id \in Ids, kind \in Kinds, c \in Calls :
                waiters' = add_waiter(ListState, id, kind, c).waiters
    BY <1>6 DEF SubscribeAckStep, subscribe_ack, GetOrSubscribeStep, get_or_subscribe,
                wait_for_message, give_message, Unused, Kinds
  <2> QED
    BY <1>1, <1>2, <2>1, SlimAdded
<1>7. CASE cleanup_expired
  <2>1. /\ max_entries' = max_entries
        /\ \E gone : waiters' = remove_closed_waiters(Without(waiters, gone))
    BY <1>7 DEF cleanup_expired, release_waiters
  <2> QED
    BY <1>1, <2>1, SlimWithout, SlimPruned
<1>8. CASE Restart
  <2>1. IsWaiterMap(waiters') /\ DOMAIN waiters' = {}
    BY <1>8 DEF Restart, IsWaiterMap
  <2> QED
    BY <1>1, <2>1, FS_EmptySet DEF Slim, Size
<1>9. CASE \/ \E c \in Calls : CloseReceiver(c)
           \/ PruneIntervalPasses \/ ClockTick \/ UNCHANGED list_vars
  BY <1>9 DEF CloseReceiver, PruneIntervalPasses, ClockTick, Tick, list_vars
<1> QED
  BY <1>3, <1>4, <1>5, <1>6, <1>7, <1>8, <1>9 DEF ListNext

\* The map is slim at the start.
LEMMA SlimInit ==
  ASSUME ListInit
  PROVE  Slim(waiters, max_entries)
<1>1. IsWaiterMap(waiters) /\ DOMAIN waiters = {} /\ max_entries \in Nat
  BY RepositoryAssumption DEF ListInit, RepoInit, IsWaiterMap
<1> QED
  BY <1>1, FS_EmptySet DEF Slim, Size

\* The map stays slim in every behaviour.
THEOREM MapStaysSlim == ListSpec => []Slim(waiters, max_entries)
<1>1. ListInit => Slim(waiters, max_entries)
  BY SlimInit
<1>2. ListInv /\ Slim(waiters, max_entries) /\ [ListNext]_list_vars => Slim(waiters, max_entries)'
  <2> SUFFICES ASSUME ListInv, Slim(waiters, max_entries), [ListNext]_list_vars
               PROVE  Slim(waiters, max_entries)'
    OBVIOUS
  <2>1. Slim(waiters', max_entries')
    BY SlimStep
  <2> QED
    BY <2>1 DEF Slim, IsWaiterMap
<1> QED
  BY <1>1, <1>2, ListInvariant, PTL DEF ListSpec

\* The channels held in memory are bounded, whatever is pruned, notified, timed out or
\* disconnected and however restarts change the limit.
THEOREM WaitersAreWithinLimits == ListSpec => []WaitersWithinLimits
<1>1. Slim(waiters, max_entries) => WaitersWithinLimits
  BY DEF Slim, WaitersWithinLimits, max_waiting_ids
<1> QED
  BY <1>1, MapStaysSlim, PTL

\* No operation leaves an id in the map that nobody is registered for.
THEOREM EmptyIdsAreReleased == ListSpec => []EmptyIdsReleased
<1>1. Slim(waiters, max_entries) => EmptyIdsReleased
  BY DEF Slim, EmptyIdsReleased
<1> QED
  BY <1>1, MapStaysSlim, PTL

\* After a full prune, a new id is kept out only by ids with a live waiter each.
THEOREM NewIdsAreKeptOutByOpenOnly == ListSpec => []NewIdsKeptOutByOpenOnly
<1>1. ASSUME ListInv
      PROVE  NewIdsKeptOutByOpenOnly
  <2> DEFINE v == remove_closed_waiters(waiters)
  <2> SUFFICES ASSUME NEW id \in Ids, prune_due,
                      ~has_room(ensure_waiter_capacity(ListState, id).waiters, id),
                      NEW other \in DOMAIN ensure_waiter_capacity(ListState, id).waiters
               PROVE  \E c \in Senders(ensure_waiter_capacity(ListState, id).waiters, {other}) :
                        receiver[c] = "open"
    BY DEF NewIdsKeptOutByOpenOnly
  <2>1. ensure_waiter_capacity(ListState, id).waiters = v
    BY DEF ensure_waiter_capacity, ListState
  <2>2. /\ IsWaiterMap(v)
        /\ \A j \in Ids, kind \in Kinds, c \in Calls :
             Waits(v, j, kind, c) => Waits(waiters, j, kind, c) /\ c \notin Closed
    BY <1>1, PruneWaits DEF ListInv, Wired
  <2>3. other \in DOMAIN v /\ v[other] # NoWaiters /\ other \in Ids
    BY <2>1, <2>2 DEF remove_closed_waiters, Without, Restrict, IsWaiterMap
  <2> HIDE DEF v
  <2>4. PICK kind \in Kinds, c \in Calls : Waits(v, other, kind, c)
    BY <2>2, <2>3 DEF IsWaiterMap, Waiters, NoWaiters, Kinds, Waits
  <2>5. receiver[c] = "open"
    BY <1>1, <2>2, <2>3, <2>4 DEF ListInv, Wired, Closed
  <2>6. c \in Senders(v, {other})
    BY <2>2, <2>3, <2>4, SendersAre
  <2> QED
    BY <2>1, <2>5, <2>6
<1> QED
  BY <1>1, ListInvariant, PTL

(***************************************************************************)
(* Nobody waits for a message that is there.                               *)
(***************************************************************************)

\* The table es has a message to give at id, at time t.
Gives(es, id, t) == Readable(es, id, t) /\ es[id].body # None

\* No sender in w waits for a message at an id where there is one.
NoneMissed(w, es, t) ==
  \A id \in Ids, c \in Calls : Waits(w, id, "message", c) => ~Gives(es, id, t)

\* Fewer senders, fewer or acknowledged rows and a later time: nobody is missed.
LEMMA MissedLater ==
  ASSUME NEW w, NEW es, NEW t \in Int, NoneMissed(w, es, t), IsTable(es),
         NEW v, NEW es2, NEW t2 \in Int, t2 >= t,
         \A id \in Ids, c \in Calls : Waits(v, id, "message", c) => Waits(w, id, "message", c),
         \A id \in DOMAIN es2 :
           es2[id].body # None =>
             \/ id \in DOMAIN es /\ es2[id] = es[id]
             \/ \A c \in Calls : ~Waits(v, id, "message", c)
  PROVE  NoneMissed(v, es2, t2)
<1> SUFFICES ASSUME NEW id \in Ids, NEW c \in Calls, Waits(v, id, "message", c),
                    Gives(es2, id, t2)
             PROVE  FALSE
  BY DEF NoneMissed
<1>1. id \in DOMAIN es /\ es2[id] = es[id] /\ es2[id].body # None
  BY DEF Gives, Readable
<1>2. es[id].expires_at \in Int
  BY <1>1 DEF IsTable, Entry
<1>3. Gives(es, id, t)
  BY <1>1, <1>2 DEF Gives, Readable, is_expired
<1> QED
  BY <1>3 DEF NoneMissed

\* Whoever joins for an ACK is no message waiter; whoever joins for a message where
\* there is none is not missed.
LEMMA MissedJoined ==
  ASSUME NEW s, NEW es, NEW t, NoneMissed(s.waiters, es, t),
         NEW id \in Ids, NEW kind \in Kinds, NEW c \in Calls, NEW a, Joins(s, a, id, kind, c),
         kind = "message" => ~Gives(es, id, t)
  PROVE  NoneMissed(a.waiters, es, t)
BY DEF NoneMissed, Joins, Kinds

\* A post, however it ends, leaves nobody waiting for the message it stored.
LEMMA MissedPosted ==
  ASSUME ListInv, NEW w, IsWaiterMap(w), NoneMissed(w, entries, now), NEW id \in Ids,
         NEW m \in Messages, NEW ttl \in Ttls, NEW r \in insert(entries, id, m, now + ttl),
         NEW t \in Int, t >= now
  PROVE  /\ r.outcome # "Stored" => NoneMissed(w, r.table, t)
         /\ NoneMissed(notify_message_waiters(w, id).waiters, r.table, t)
<1> DEFINE v == notify_message_waiters(w, id).waiters
           row == NewEntry(m, now + ttl)
<1>1. WellFormed(entries) /\ IsTable(entries) /\ now \in Int /\ now + ttl \in Int
  BY InvContext DEF WellFormed
<1>2. PICK G : \/ r.outcome # "Stored" /\ r.table = Without(entries, G)
               \/ r.outcome = "Stored" /\ r.table = Put(Without(entries, G), id, row)
  BY <1>1, InsertShape
<1>3. \A j \in Ids, c \in Calls :
        Waits(v, j, "message", c) <=> Waits(w, j, "message", c) /\ j # id
  BY NotifyMessageWaits DEF Kinds
<1> HIDE DEF v, row
<1>4. \A j \in DOMAIN r.table :
        \/ j \in DOMAIN entries /\ r.table[j] = entries[j]
        \/ r.outcome = "Stored" /\ j = id
  BY <1>2 DEF Without, Restrict, Put
<1>5. DOMAIN r.table \subseteq Ids
  BY <1>1, <1>4 DEF IsTable
<1>6. r.outcome # "Stored" => NoneMissed(w, r.table, t)
  BY <1>1, <1>4, MissedLater
<1>7. NoneMissed(v, r.table, t)
  BY <1>1, <1>3, <1>4, <1>5, MissedLater
<1> QED
  BY <1>6, <1>7 DEF v

\* Without storage errors and with a clock that is not set back, no step leaves a
\* consumer waiting where a message is stored.
LEMMA MissedStep ==
  ASSUME ~StorageErrors, ~ClockJumps, ListInv, NoneMissed(waiters, entries, now),
         [ListNext]_list_vars
  PROVE  NoneMissed(waiters', entries', now')
<1>1. /\ IsWaiterMap(waiters) /\ IsTable(entries) /\ now \in Int /\ WellFormed(entries)
      /\ ListState.waiters = waiters /\ ListState.prune_due = prune_due
      /\ prune_due \in BOOLEAN
  BY InvContext DEF ListInv, Wired, ListState, WellFormed
<1>2. ASSUME NEW v, Fewer(v, waiters), waiters' = v, NEW G, entries' = Without(entries, G),
             now' = now
      PROVE  NoneMissed(waiters', entries', now')
  <2>1. \A id \in DOMAIN Without(entries, G) :
          id \in DOMAIN entries /\ Without(entries, G)[id] = entries[id]
    BY DEF Without, Restrict
  <2> QED
    BY <1>1, <1>2, <2>1, MissedLater DEF Fewer, Kinds
<1>3. Without(entries, {}) = entries /\ Fewer(waiters, waiters)
  BY <1>1, WithoutNothing DEF Fewer
<1>4. CASE StoreStep
  <2>1. PICK id \in Ids, m \in Messages, ttl \in Ttls, res \in Results : store(id, m, ttl, res)
    BY <1>4 DEF StoreStep, Unposted
  <2>2. PICK r \in insert(entries, id, m, now + ttl) :
          /\ entries' = r.table
          /\ \/ r.outcome = "StoreFull" /\ waiters' = waiters
             \/ waiters' = notify_message_waiters(waiters, id).waiters
    BY <2>1 DEF store
  <2>3. now' = now
    BY <2>1 DEF store
  <2> QED
    BY <1>1, <2>2, <2>3, MissedPosted
<1>5. CASE StoreAndSubscribeStep
  <2>1. PICK c \in Calls, id \in Ids, m \in Messages, ttl \in Ttls, res \in Results :
          store_and_subscribe_ack(c, id, m, ttl, res)
    BY <1>5 DEF StoreAndSubscribeStep, Unused, Unposted
  <2> DEFINE s == ensure_waiter_capacity(ListState, id)
             n == notify_message_waiters(s.waiters, id)
             after == [waiters |-> n.waiters, prune_due |-> s.prune_due]
             a == add_waiter(after, id, "ack", c)
  <2>2. /\ IsWaiterMap(s.waiters) /\ Fewer(s.waiters, waiters) /\ s.prune_due \in BOOLEAN
        /\ NoneMissed(s.waiters, entries, now)
    <3>1. IsWaiterMap(s.waiters) /\ Fewer(s.waiters, waiters) /\ s.prune_due \in BOOLEAN
      BY WiredEnsured DEF ListInv, Wired
    <3> HIDE DEF s
    <3> QED
      BY <3>1 DEF NoneMissed, Fewer, Kinds
  <2>3. \/ waiters' = s.waiters /\ entries' = entries /\ now' = now
        \/ \E r \in insert(entries, id, m, now + ttl) :
             /\ entries' = r.table
             /\ \/ r.outcome = "StoreFull" /\ waiters' = s.waiters /\ now' = now
                \/ waiters' = n.waiters /\ now' = now
                \/ /\ now' \in {now} \cup LaterReadings
                   /\ waiters' = n.waiters \/ waiters' = a.waiters
    BY <2>1 DEF store_and_subscribe_ack, subscribe_stored
  <2>4. IsWaiterMap(n.waiters)
    BY <2>2, NotifyMessageWaits
  <2> HIDE DEF s, n
  <2>5. Joins(after, a, id, "ack", c)
    BY <2>2, <2>4, AddWaits DEF Kinds
  <2>6. CASE waiters' = s.waiters /\ entries' = entries /\ now' = now
    BY <1>2, <1>3, <2>2, <2>6
  <2>7. ASSUME NEW r \in insert(entries, id, m, now + ttl),
               entries' = r.table,
               \/ r.outcome = "StoreFull" /\ waiters' = s.waiters /\ now' = now
               \/ waiters' = n.waiters /\ now' = now
               \/ /\ now' \in {now} \cup LaterReadings
                  /\ waiters' = n.waiters \/ waiters' = a.waiters
        PROVE  NoneMissed(waiters', entries', now')
    <3>1. now' \in Int /\ now' >= now
      BY <1>1, <2>7 DEF LaterReadings
    <3>2. /\ r.outcome # "Stored" => NoneMissed(s.waiters, r.table, now')
          /\ NoneMissed(n.waiters, r.table, now')
      BY <1>1, <2>2, <3>1, MissedPosted DEF n
    <3>3. NoneMissed(a.waiters, r.table, now')
      <4> HIDE DEF a
      <4> QED
        BY <2>5, <3>2, MissedJoined DEF Kinds
    <3> QED
      BY <2>7, <3>2, <3>3
  <2> QED
    BY <2>3, <2>6, <2>7
<1>6. CASE AckStep
  <2>1. PICK id \in Ids, res \in Results : ack(id, res)
    BY <1>6 DEF AckStep
  <2>2. CASE UNCHANGED list_vars
    BY <1>2, <1>3, <2>2 DEF list_vars
  <2>3. CASE /\ waiters' = notify_ack_waiters(waiters, id).waiters
             /\ entries' = acknowledged(entries, id)
             /\ now' = now
    <3>1. \A j \in Ids, c \in Calls :
            Waits(waiters', j, "message", c) => Waits(waiters, j, "message", c)
      BY <1>1, <2>3, NotifyAckWaits DEF Kinds
    <3>2. \A j \in DOMAIN entries' :
            entries'[j].body # None => j \in DOMAIN entries /\ entries'[j] = entries[j]
      BY <1>1, <2>3 DEF acknowledged, IsTable, Entry
    <3> QED
      BY <1>1, <2>3, <3>1, <3>2, MissedLater
  <2> QED
    BY <2>1, <2>2, <2>3 DEF ack
<1>7. CASE SubscribeAckStep \/ GetOrSubscribeStep
  <2>1. /\ entries' = entries /\ now' = now
        /\ \/ waiters' = waiters
           \/ \E id \in Ids, kind \in Kinds, c \in Calls :
                /\ waiters' = add_waiter(ListState, id, kind, c).waiters
                /\ kind = "message" => ~Gives(entries, id, now)
    <3>1. ASSUME NEW c \in Unused, NEW id \in Ids, NEW res, subscribe_ack(c, id, res)
          PROVE  /\ entries' = entries /\ now' = now
                 /\ waiters' \in {waiters, add_waiter(ListState, id, "ack", c).waiters}
      BY <3>1 DEF subscribe_ack
    <3>2. ASSUME NEW c \in Unused, NEW id \in Ids, NEW res, get_or_subscribe(c, id, res)
          PROVE  /\ entries' = entries /\ now' = now
                 /\ \/ waiters' = waiters
                    \/ /\ waiters' = add_waiter(ListState, id, "message", c).waiters
                       /\ ~Gives(entries, id, now)
      BY <1>2, <3>2
      DEF get_or_subscribe, wait_for_message, give_message, ReadFaults, Available, Gives
    <3> QED
      BY <1>7, <3>1, <3>2 DEF SubscribeAckStep, GetOrSubscribeStep, Unused, Kinds
  <2>2. CASE waiters' = waiters
    BY <1>2, <1>3, <2>1, <2>2
  <2>3. ASSUME NEW id \in Ids, NEW kind \in Kinds, NEW c \in Calls,
               waiters' = add_waiter(ListState, id, kind, c).waiters,
               kind = "message" => ~Gives(entries, id, now)
        PROVE  NoneMissed(waiters', entries', now')
    <3> DEFINE a == add_waiter(ListState, id, kind, c)
    <3>1. Joins(ListState, a, id, kind, c)
      BY <1>1, AddWaits
    <3> HIDE DEF a
    <3> QED
      BY <1>1, <2>1, <2>3, <3>1, MissedJoined DEF a
  <2> QED
    BY <2>1, <2>2, <2>3
<1>8. CASE cleanup_expired
  <2>1. PICK gone \in SUBSET Ids : waiters' = release_waiters(gone).waiters
    <3>1. ExpiredIds(entries) \in SUBSET Ids /\ {} \in SUBSET Ids
      BY <1>1 DEF ExpiredIds, IsTable
    <3> QED
      BY <1>8, <3>1 DEF cleanup_expired
  <2>2. now' = now /\ \E G : entries' = Without(entries, G)
    BY <1>3, <1>8 DEF cleanup_expired, delete_expired
  <2>3. Fewer(waiters', waiters)
    BY <2>1, WiredReleased DEF ListInv
  <2> QED
    BY <1>2, <2>2, <2>3
<1>9. CASE Restart
  <2>1. \A id \in Ids, c \in Calls : ~Waits(waiters', id, "message", c)
    BY <1>9 DEF Restart, Waits
  <2> QED
    BY <2>1 DEF NoneMissed
<1>10. CASE \/ \E c \in Calls : CloseReceiver(c)
            \/ PruneIntervalPasses \/ ClockTick \/ UNCHANGED list_vars
  <2>1. /\ waiters' = waiters /\ entries' = entries
        /\ now' = now \/ now' \in LaterReadings
    BY <1>10 DEF CloseReceiver, PruneIntervalPasses, ClockTick, Tick, list_vars
  <2>2. now' \in Int /\ now' >= now
    BY <1>1, <2>1 DEF LaterReadings
  <2> QED
    BY <1>1, <2>1, <2>2, MissedLater
<1> QED
  BY <1>4, <1>5, <1>6, <1>7, <1>8, <1>9, <1>10 DEF ListNext

\* No consumer waits for a message that is already stored, unless a read of the store
\* failed or the clock was set back.
THEOREM MessageIsNotMissed ==
  ASSUME ~StorageErrors, ~ClockJumps
  PROVE  ListSpec => []MessageNotMissed
<1>1. ListInit => NoneMissed(waiters, entries, now)
  BY DEF ListInit, NoneMissed, Waits
<1>2. ListInv /\ NoneMissed(waiters, entries, now) /\ [ListNext]_list_vars
        => NoneMissed(waiters, entries, now)'
  <2> SUFFICES ASSUME ListInv, NoneMissed(waiters, entries, now), [ListNext]_list_vars
               PROVE  NoneMissed(waiters, entries, now)'
    OBVIOUS
  <2>1. NoneMissed(waiters', entries', now')
    BY MissedStep
  <2> QED
    BY <2>1 DEF NoneMissed, Waits, Gives
<1>3. ListInv /\ NoneMissed(waiters, entries, now) => MessageNotMissed
  <2> SUFFICES ASSUME ListInv, NoneMissed(waiters, entries, now),
                      NEW id \in DOMAIN waiters, Available(id), NEW c \in waiters[id].message
               PROVE  FALSE
    BY DEF MessageNotMissed
  <2> QED
    BY DEF ListInv, Wired, IsWaiterMap, Waiters, NoneMissed, Waits, Gives, Available
<1> QED
  BY <1>1, <1>2, <1>3, ListInvariant, PTL DEF ListSpec
==============================================================================
