----------------------------- MODULE WaitingList -----------------------------
(***************************************************************************)
(* The waiting list (waiting_list.rs): the repository together with the    *)
(* one-shot channels of the requests that wait on an id, for a message or  *)
(* for an acknowledgment.  All calls run under one lock (AppState's        *)
(* pending_list), so each one is a single action; its parameter res is     *)
(* what it returns.                                                        *)
(*                                                                         *)
(* A channel is named by the call that creates it: a call c in the lists   *)
(* of waiters is the sending half, receiver[c] the state of the other:     *)
(*   "none"    no channel yet                                              *)
(*   "open"    nothing sent yet; the sender is in waiters                  *)
(*   "sent"    a message (value[c]) or an acknowledgment is in it          *)
(*   "dropped" the sender is gone and nothing was sent                     *)
(*   "closed"  the receiver is gone: timed out or disconnected             *)
(* Order among the waiters of one id makes no difference (each drain sends *)
(* to all or to none), so a Vec of senders is a set.                       *)
(***************************************************************************)
EXTENDS EntryRepository

CONSTANTS
  Calls,               \* calls that may create a channel
  MaxWaitersPerEntry   \* MAX_WAITERS_PER_ENTRY, per id and kind

ASSUME WaitingListAssumption ==
  /\ IsFiniteSet(Calls)
  /\ MaxWaitersPerEntry \in Nat \ {0}

VARIABLES
  waiters,         \* a function from the ids waited on to their Waiters
  prune_due,       \* FULL_MAP_PRUNE_INTERVAL has passed since last_full_map_prune
  receiver,        \* per call, the receiving half of its channel
  value,           \* per call, the message it was given, or None
  home,            \* history: the id each message was stored under, or None
  awaits,          \* history: the message whose ACK a call waits for, or None
  acked_messages   \* history: the messages marked as acknowledged

channel_vars == <<receiver, value>>
history_vars == <<home, awaits, acked_messages>>
list_vars == <<entries, now, max_entries, waiters, prune_due, receiver, value,
               home, awaits, acked_messages>>

Kinds == {"ack", "message"}

Waiters == [ack : SUBSET Calls, message : SUBSET Calls]

NoWaiters == [ack |-> {}, message |-> {}]

\* WaitingList::new takes the repository's limit.
max_waiting_ids == max_entries

waiters_at(w, id) == IF id \in DOMAIN w THEN w[id] ELSE NoWaiters

Senders(w, S) == UNION {w[id].ack \cup w[id].message : id \in S \cap DOMAIN w}

Closed == {c \in Calls : receiver[c] = "closed"}

(***************************************************************************)
(* Reads of the repository.  A read that fails looks like a missing entry. *)
(***************************************************************************)
ReadFaults == IF StorageErrors THEN BOOLEAN ELSE {FALSE}

Bug_is_expired_OffByOne(entry, t) == t > entry.expires_at

is_expired(entry, t) == t >= entry.expires_at

Readable(es, id, t) == id \in DOMAIN es /\ ~is_expired(es[id], t)

\* A message a consumer can be given at once.
Available(id) == Readable(entries, id, now) /\ entries[id].body # None

(***************************************************************************)
(* The waiter map.  s stands for the fields <<waiters, prune_due>>.        *)
(***************************************************************************)
ListState == [waiters |-> waiters, prune_due |-> prune_due]

Bug_remove_closed_waiters_WholeId(w) ==
  Without(w, {id \in DOMAIN w : Senders(w, {id}) \cap Closed # {}})

remove_closed_waiters(w) ==
  LET open == [id \in DOMAIN w |-> [ack |-> w[id].ack \ Closed,
                                    message |-> w[id].message \ Closed]]
  IN Without(open, {id \in DOMAIN w : open[id] = NoWaiters})

Bug_has_room_OffByOne(w, id) == id \in DOMAIN w \/ Size(w) <= max_waiting_ids

has_room(w, id) == id \in DOMAIN w \/ Size(w) < max_waiting_ids

Bug_ensure_waiter_capacity_NoPrune(s, id) == s

\* has_room of the result says whether the call succeeded.
ensure_waiter_capacity(s, id) ==
  IF has_room(s.waiters, id) \/ ~s.prune_due THEN s
  ELSE [waiters |-> remove_closed_waiters(s.waiters), prune_due |-> FALSE]

\* waiters_for followed by add_ack_waiter or add_message_waiter.
add_waiter(s, id, kind, c) ==
  LET e == ensure_waiter_capacity(s, id)
      room == has_room(e.waiters, id)
      live == waiters_at(e.waiters, id)[kind] \ Closed
      joined == room /\ Cardinality(live) < MaxWaitersPerEntry
      list == IF joined THEN live \cup {c} ELSE live
  IN [waiters |-> IF room
                  THEN Put(e.waiters, id, [waiters_at(e.waiters, id) EXCEPT ![kind] = list])
                  ELSE e.waiters,
      prune_due |-> e.prune_due,
      joined |-> joined]

(***************************************************************************)
(* Channels.  Sending to a closed receiver has no effect.                  *)
(***************************************************************************)
Signalled(sent, dropped) ==
  [c \in Calls |-> IF receiver[c] # "open" THEN receiver[c]
                   ELSE IF c \in sent THEN "sent"
                   ELSE IF c \in dropped THEN "dropped" ELSE "open"]

Given(sent, m) ==
  [c \in Calls |-> IF c \in sent /\ receiver[c] = "open" THEN m ELSE value[c]]

Bug_notify_message_waiters_KeepsAckWaiters(w, id) ==
  LET at == waiters_at(w, id)
  IN [waiters |-> IF at.ack = {} THEN Without(w, {id})
                  ELSE Put(w, id, [at EXCEPT !.message = {}]),
      sent |-> at.message, dropped |-> {}]

\* Waiters::notify_message_waiters and the removal of the emptied id: message
\* waiters are sent the message, ACK waiters of the overwritten one are dropped.
notify_message_waiters(w, id) ==
  [waiters |-> Without(w, {id}),
   sent |-> waiters_at(w, id).message,
   dropped |-> waiters_at(w, id).ack]

Bug_notify_ack_waiters_Nobody(w, id) == [waiters |-> w, sent |-> {}]

Bug_notify_ack_waiters_EmptyIdLeft(w, id) ==
  [waiters |-> IF id \in DOMAIN w THEN Put(w, id, [w[id] EXCEPT !.ack = {}]) ELSE w,
   sent |-> waiters_at(w, id).ack]

\* Waiters::notify_ack_waiters and the removal of the id if nothing is left.
notify_ack_waiters(w, id) ==
  [waiters |-> IF waiters_at(w, id).message = {} THEN Without(w, {id})
               ELSE Put(w, id, [w[id] EXCEPT !.ack = {}]),
   sent |-> waiters_at(w, id).ack]

(***************************************************************************)
(* The operations.                                                         *)
(***************************************************************************)
ListInit ==
  /\ RepoInit
  /\ waiters = [id \in {} |-> NoWaiters]
  /\ prune_due = TRUE
  /\ receiver = [c \in Calls |-> "none"]
  /\ value = [c \in Calls |-> None]
  /\ home = [m \in Messages |-> None]
  /\ awaits = [c \in Calls |-> None]
  /\ acked_messages = {}

Bug_store_NotifiesWhenFull(id, m, ttl, res) ==
  /\ \E r \in insert(entries, id, m, now + ttl) :
       /\ res = r.outcome
       /\ entries' = r.table
       /\ LET n == notify_message_waiters(waiters, id)
          IN /\ waiters' = n.waiters
             /\ receiver' = Signalled(n.sent, n.dropped)
             /\ value' = Given(n.sent, m)
  /\ home' = [home EXCEPT ![m] = id]
  /\ UNCHANGED <<now, max_entries, prune_due, awaits, acked_messages>>

store(id, m, ttl, res) ==
  /\ \E r \in insert(entries, id, m, now + ttl) :
       /\ res = r.outcome
       /\ entries' = r.table
       /\ IF r.outcome = "StoreFull"
          THEN UNCHANGED <<waiters, receiver, value>>
          ELSE LET n == notify_message_waiters(waiters, id)
               IN /\ waiters' = n.waiters
                  /\ receiver' = Signalled(n.sent, n.dropped)
                  /\ value' = Given(n.sent, m)
  /\ home' = [home EXCEPT ![m] = id]
  /\ UNCHANGED <<now, max_entries, prune_due, awaits, acked_messages>>

ack(id, res) ==
  /\ \E fault \in ReadFaults :
       \/ /\ fault \/ ~Readable(entries, id, now)
          /\ res = "NotFound"
          /\ UNCHANGED list_vars
       \/ /\ ~fault /\ Readable(entries, id, now) /\ entries[id].acked
          /\ res = "Acked"
          /\ UNCHANGED list_vars
       \/ /\ ~fault /\ Readable(entries, id, now) /\ ~entries[id].acked
          /\ StorageErrors
          /\ res = "NotFound"
          /\ UNCHANGED list_vars
       \/ /\ ~fault /\ Readable(entries, id, now) /\ ~entries[id].acked
          /\ res = "Acked"
          /\ entries' = acknowledged(entries, id)
          /\ acked_messages' = acked_messages \cup {entries[id].body}
          /\ LET n == notify_ack_waiters(waiters, id)
             IN waiters' = n.waiters /\ receiver' = Signalled(n.sent, {})
          /\ UNCHANGED <<now, max_entries, prune_due, value, home, awaits>>

\* The answers is_acked may give; it changes nothing.
is_acked(id) ==
  {IF fault \/ ~Readable(entries, id, now) THEN "NotFound"
   ELSE IF entries[id].acked THEN "true" ELSE "false" : fault \in ReadFaults}

\* The call c gets a receiver that will fire on the ACK of the stored message,
\* or has fired already.
subscribe_ack(c, id, res) ==
  /\ \E fault \in ReadFaults :
       \/ /\ fault \/ ~Readable(entries, id, now)
          /\ res = "NotFound"
          /\ UNCHANGED <<waiters, prune_due, receiver, awaits>>
       \/ /\ ~fault /\ Readable(entries, id, now) /\ entries[id].acked
          /\ res = "Waiting"
          /\ receiver' = [receiver EXCEPT ![c] = "sent"]
          /\ UNCHANGED <<waiters, prune_due, awaits>>
       \/ /\ ~fault /\ Readable(entries, id, now) /\ ~entries[id].acked
          /\ LET s == add_waiter(ListState, id, "ack", c)
             IN /\ waiters' = s.waiters
                /\ prune_due' = s.prune_due
                /\ IF s.joined
                   THEN /\ res = "Waiting"
                        /\ receiver' = [receiver EXCEPT ![c] = "open"]
                        /\ awaits' = [awaits EXCEPT ![c] = entries[id].body]
                   ELSE /\ res = "WaiterLimitReached"
                        /\ UNCHANGED <<receiver, awaits>>
  /\ UNCHANGED <<entries, now, max_entries, value, home, acked_messages>>

wait_for_message(c, id, res) ==
  LET s == add_waiter(ListState, id, "message", c)
  IN /\ waiters' = s.waiters
     /\ prune_due' = s.prune_due
     /\ res = IF s.joined THEN "Waiting" ELSE "WaiterLimitReached"
     /\ receiver' = IF s.joined THEN [receiver EXCEPT ![c] = "open"] ELSE receiver
     /\ UNCHANGED <<entries, value, acked_messages>>

give_message(c, id) ==
  /\ receiver' = [receiver EXCEPT ![c] = "sent"]
  /\ value' = [value EXCEPT ![c] = entries[id].body]
  /\ UNCHANGED <<waiters, prune_due>>

Bug_get_or_subscribe_Unchecked(c, id, res) ==
  /\ wait_for_message(c, id, res)
  /\ UNCHANGED <<now, max_entries, home, awaits>>

Bug_get_or_subscribe_TakesMessage(c, id, res) ==
  /\ \/ /\ Available(id)
        /\ res = "Message"
        /\ give_message(c, id)
        /\ entries' = acknowledged(entries, id)
        /\ acked_messages' = acked_messages \cup {entries[id].body}
     \/ ~Available(id) /\ wait_for_message(c, id, res)
  /\ UNCHANGED <<now, max_entries, home, awaits>>

get_or_subscribe(c, id, res) ==
  /\ \E fault \in ReadFaults :
       \/ /\ ~fault /\ Available(id)
          /\ res = "Message"
          /\ give_message(c, id)
          /\ UNCHANGED <<entries, acked_messages>>
       \/ (fault \/ ~Available(id)) /\ wait_for_message(c, id, res)
  /\ UNCHANGED <<now, max_entries, home, awaits>>

Bug_room_for_producer_Unchecked(s, id) == TRUE

\* The check store_and_subscribe_ack makes before it stores.
room_for_producer(s, id) == has_room(s.waiters, id)

\* The subscription that ends store_and_subscribe_ack, on the table just written
\* and the waiters s left by the notification n; the clock may have moved to t.
subscribe_stored(c, id, table, s, n, t, res) ==
  \E fault \in ReadFaults :
    \/ /\ fault \/ ~Readable(table, id, t)
       /\ res = "NotFound"
       /\ waiters' = s.waiters
       /\ prune_due' = s.prune_due
       /\ receiver' = Signalled(n.sent, n.dropped)
       /\ UNCHANGED awaits
    \/ /\ ~fault /\ Readable(table, id, t)
       /\ LET a == add_waiter(s, id, "ack", c)
          IN /\ waiters' = a.waiters
             /\ prune_due' = a.prune_due
             /\ IF a.joined
                THEN /\ res = "Waiting"
                     /\ receiver' = [Signalled(n.sent, n.dropped) EXCEPT ![c] = "open"]
                     /\ awaits' = [awaits EXCEPT ![c] = table[id].body]
                ELSE /\ res = "WaiterLimitReached"
                     /\ receiver' = Signalled(n.sent, n.dropped)
                     /\ UNCHANGED awaits

store_and_subscribe_ack(c, id, m, ttl, res) ==
  LET s == ensure_waiter_capacity(ListState, id)
      n == notify_message_waiters(s.waiters, id)
      after == [waiters |-> n.waiters, prune_due |-> s.prune_due]
  IN /\ \/ /\ ~room_for_producer(s, id)
           /\ res = "WaiterLimitReached"
           /\ waiters' = s.waiters
           /\ prune_due' = s.prune_due
           /\ UNCHANGED <<entries, now, receiver, value, home, awaits>>
        \/ /\ room_for_producer(s, id)
           /\ home' = [home EXCEPT ![m] = id]
           /\ \E r \in insert(entries, id, m, now + ttl) :
                /\ entries' = r.table
                /\ \/ /\ r.outcome = "StoreFull"
                      /\ res = "StoreFull"
                      /\ waiters' = s.waiters
                      /\ prune_due' = s.prune_due
                      /\ UNCHANGED <<now, receiver, value, awaits>>
                   \/ /\ r.outcome = "Error"
                      /\ res = "Error"
                      /\ waiters' = n.waiters
                      /\ prune_due' = s.prune_due
                      /\ receiver' = Signalled(n.sent, n.dropped)
                      /\ value' = Given(n.sent, m)
                      /\ UNCHANGED <<now, awaits>>
                   \/ /\ r.outcome = "Stored"
                      /\ value' = Given(n.sent, m)
                      /\ \E t \in {now} \cup LaterReadings :
                           now' = t /\ subscribe_stored(c, id, r.table, after, n, t, res)
     /\ UNCHANGED <<max_entries, acked_messages>>

\* Cleanup's effect on the waiters of the ids in gone and on closed senders.
Bug_release_waiters_IdsWithoutEntry(gone) ==
  LET out == gone \cup (DOMAIN waiters \ DOMAIN entries)
  IN [waiters |-> remove_closed_waiters(Without(waiters, out)),
      dropped |-> Senders(waiters, out)]

Bug_release_waiters_Everyone(gone) ==
  [waiters |-> Without(waiters, DOMAIN waiters), dropped |-> Senders(waiters, DOMAIN waiters)]

Bug_release_waiters_KeepsClosed(gone) ==
  [waiters |-> Without(waiters, gone), dropped |-> Senders(waiters, gone)]

release_waiters(gone) ==
  [waiters |-> remove_closed_waiters(Without(waiters, gone)),
   dropped |-> Senders(waiters, gone)]

cleanup_expired ==
  /\ \/ /\ entries' = delete_expired(entries)
        /\ LET n == release_waiters(ExpiredIds(entries))
           IN waiters' = n.waiters /\ receiver' = Signalled({}, n.dropped)
     \/ /\ StorageErrors
        /\ waiters' = release_waiters({}).waiters
        /\ UNCHANGED <<entries, receiver>>
  /\ UNCHANGED <<now, max_entries, prune_due, value, home, awaits, acked_messages>>

\* The waiting request times out or its client disconnects.
CloseReceiver(c) ==
  /\ receiver[c] = "open"
  /\ receiver' = [receiver EXCEPT ![c] = "closed"]
  /\ UNCHANGED <<entries, now, max_entries, waiters, prune_due, value, home, awaits,
                 acked_messages>>

\* FULL_MAP_PRUNE_INTERVAL has elapsed.
PruneIntervalPasses ==
  /\ ~prune_due
  /\ prune_due' = TRUE
  /\ UNCHANGED <<entries, now, max_entries, waiters, receiver, value, home, awaits,
                 acked_messages>>

\* The process stops, or crashes, and starts again with a new WaitingList.
Restart ==
  /\ Reopen
  /\ waiters' = [id \in {} |-> NoWaiters]
  /\ prune_due' = TRUE
  /\ receiver' = [c \in Calls |-> IF receiver[c] = "open" THEN "closed" ELSE receiver[c]]
  /\ UNCHANGED <<value, home, awaits, acked_messages>>

ClockTick == Tick /\ UNCHANGED <<waiters, prune_due, receiver, value, home, awaits, acked_messages>>

(***************************************************************************)
(* The component on its own.  Each call makes at most one channel and each *)
(* message is posted once, so that both can be told apart.                 *)
(***************************************************************************)
Results == {"Stored", "StoreFull", "Error", "NotFound", "WaiterLimitReached",
            "Waiting", "Message", "Acked"}

Unused == {c \in Calls : receiver[c] = "none"}

Unposted == {m \in Messages : home[m] = None}

StoreStep == \E id \in Ids, m \in Unposted, ttl \in Ttls, res \in Results :
               store(id, m, ttl, res)

StoreAndSubscribeStep ==
  \E c \in Unused, id \in Ids, m \in Unposted, ttl \in Ttls, res \in Results :
    store_and_subscribe_ack(c, id, m, ttl, res)

AckStep == \E id \in Ids, res \in Results : ack(id, res)

SubscribeAckStep == \E c \in Unused, id \in Ids, res \in Results : subscribe_ack(c, id, res)

GetOrSubscribeStep == \E c \in Unused, id \in Ids, res \in Results : get_or_subscribe(c, id, res)

ListNext ==
  \/ StoreStep
  \/ StoreAndSubscribeStep
  \/ AckStep
  \/ SubscribeAckStep
  \/ GetOrSubscribeStep
  \/ cleanup_expired
  \/ \E c \in Calls : CloseReceiver(c)
  \/ PruneIntervalPasses
  \/ Restart
  \/ ClockTick

ListSpec == ListInit /\ [][ListNext]_list_vars

(***************************************************************************)
(* Properties.                                                             *)
(***************************************************************************)

\* Type invariant; every sender in the map is the half of one channel, and an
\* open receiver always has its sender in the map.
ListTypeOK ==
  /\ RepoTypeOK
  /\ DOMAIN waiters \subseteq Ids
  /\ waiters \in [DOMAIN waiters -> Waiters]
  /\ prune_due \in BOOLEAN
  /\ receiver \in [Calls -> {"none", "open", "sent", "dropped", "closed"}]
  /\ value \in [Calls -> Messages \cup {None}]
  /\ home \in [Messages -> Ids \cup {None}]
  /\ awaits \in [Calls -> Messages \cup {None}]
  /\ acked_messages \subseteq Messages
  /\ \A c \in Calls :
       /\ c \in Senders(waiters, Ids) => receiver[c] \in {"open", "closed"}
       /\ receiver[c] = "open" => c \in Senders(waiters, Ids)

\* A request that waits for an ACK never misses it: once the message it waits
\* for is acknowledged, by whichever request, its sender is out of the map.
AckNotMissed ==
  \A id \in DOMAIN waiters : \A c \in waiters[id].ack : awaits[c] \notin acked_messages

\* A request is told "acknowledged" only if the very message it waited for was:
\* an ACK of a message that overwrote it does not count.
AckSignalTruthful ==
  \A c \in Calls :
    receiver[c] = "sent" /\ awaits[c] # None => awaits[c] \in acked_messages

\* No consumer is left waiting on an id while a message it could be given is
\* stored there (get_or_subscribe's check and subscription are one step, and
\* store notifies every message waiter).
MessageNotMissed ==
  \A id \in DOMAIN waiters : Available(id) => waiters[id].message = {}

\* A message is never handed to a consumer after it was acknowledged.
AckedNeverRedelivered ==
  [][\A c \in Calls : value'[c] # value[c] => value'[c] \notin acked_messages]_list_vars

\* A request waiting for an ACK loses its sender only because another message
\* was posted to the id or because cleanup found the message expired, never by
\* something that happens to another id or to the message waiters of its own.
AckWaiterDroppedForCause ==
  [][\A c \in Calls :
       receiver[c] = "open" /\ receiver'[c] = "dropped" /\ awaits[c] # None =>
         \/ \E m \in Messages : home[m] = None /\ home'[m] = home[awaits[c]]
         \/ home[awaits[c]] \in ExpiredIds(entries) \ DOMAIN entries']_list_vars

\* An id stays in the map only while somebody is registered for it: no operation
\* leaves an id with two empty lists, which would use up one of max_waiting_ids.
EmptyIdsReleased == \A id \in DOMAIN waiters : waiters[id] # NoWaiters

\* The channels held in memory are bounded: by max_waiting_ids ids, each with at
\* most MaxWaitersPerEntry senders of each kind.
WaitersWithinLimits ==
  /\ Size(waiters) <= max_waiting_ids
  /\ \A id \in DOMAIN waiters, kind \in Kinds :
       Cardinality(waiters[id][kind]) <= MaxWaitersPerEntry

\* When a prune is due, only open connections can keep a new id out: if there is
\* no room for it even then, every id in the map has a live waiter.
NewIdsKeptOutByOpenOnly ==
  \A id \in Ids :
    LET s == ensure_waiter_capacity(ListState, id)
    IN prune_due /\ ~has_room(s.waiters, id) =>
         \A other \in DOMAIN s.waiters :
           \E c \in Senders(s.waiters, {other}) : receiver[c] = "open"

(***************************************************************************)
(* The waiting list implements a mailbox per id: what a mailbox holds is   *)
(* the stored entry, as long as reads do not find it expired.              *)
(***************************************************************************)
held(id) ==
  IF Readable(entries, id, now)
  THEN [state |-> IF entries[id].acked THEN "acked" ELSE "pending",
        message |-> entries[id].body, until |-> entries[id].expires_at]
  ELSE [state |-> "absent", message |-> None, until |-> 0]

deliveries == {<<c, value[c]>> : c \in {d \in Calls : value[d] # None}}

MB == INSTANCE Mailbox WITH
        Consumers <- Calls,
        box <- [id \in Ids |-> held(id)],
        clock <- now,
        posted <- {m \in Messages : home[m] # None},
        received <- deliveries

\* Whatever the waiters, the capacity and the storage errors do, clients see the
\* mailboxes of module Mailbox, provided the clock is not set back.
IsMailbox == MB!MailboxSpec
==============================================================================
