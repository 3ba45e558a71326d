-------------------------------- MODULE Relay --------------------------------
(***************************************************************************)
(* The HTTP relay: the request handlers of /inbox and /link over the shared*)
(* waiting list, the cleanup task, clients that disconnect, and restarts   *)
(* of the process.                                                         *)
(*                                                                         *)
(* Each request runs once.  A POST carries a message of its own, named by  *)
(* the request; a request that waits uses a channel of its own, also named *)
(* by the request.  What a handler does while it holds the lock is one     *)
(* action; between two such sections anything may happen.                  *)
(*   "arrived"  the handler has not taken the lock yet                     *)
(*   "waiting"  it awaits its receiver, with a timeout                     *)
(*   "acking"   GET /link holds a message and has not ACKed it yet         *)
(*   "done"     it has answered reply[r]                                   *)
(*   "gone"     the client disconnected or the process stopped             *)
(* A timer is unrelated to the wall clock: it may fire at any time.        *)
(***************************************************************************)
EXTENDS WaitingList

CONSTANTS InboxPosts, InboxGets, InboxDeletes, InboxAcks, InboxAwaits,
          LinkPosts, LinkGets,
          InboxTtl,      \* inbox_cache_ttl
          LinkTimeout    \* link_timeout, also the time to live of link messages

Requests == InboxPosts \cup InboxGets \cup InboxDeletes \cup InboxAcks \cup InboxAwaits
              \cup LinkPosts \cup LinkGets

RequestKinds == <<InboxPosts, InboxGets, InboxDeletes, InboxAcks, InboxAwaits, LinkPosts, LinkGets>>

ASSUME RelayAssumption ==
  /\ Messages = InboxPosts \cup LinkPosts
  /\ Calls = Requests
  /\ Ttls = {InboxTtl, LinkTimeout}
  /\ None \notin Requests
  /\ \A i, j \in 1..7 : i # j => RequestKinds[i] \cap RequestKinds[j] = {}

VARIABLES
  pc,       \* per request, where its handler is
  target,   \* per request, the id in its path, or None before it is handled
  reply     \* per request, what it was answered

relay_vars == <<entries, now, max_entries, waiters, prune_due, receiver, value,
                home, awaits, acked_messages, pc, target, reply>>

Replies == {"OK", "false", "Refused", "NotFound", "TimedOut", "TooMany", "AtCapacity", "StorageFailed"}

Init ==
  /\ ListInit
  /\ pc = [r \in Requests |-> "arrived"]
  /\ target = [r \in Requests |-> None]
  /\ reply = [r \in Requests |-> "none"]

(***************************************************************************)
(* Steps of one handler.                                                   *)
(***************************************************************************)
Answer(r, code) ==
  /\ pc' = [pc EXCEPT ![r] = "done"]
  /\ reply' = [reply EXCEPT ![r] = code]

Proceed(r, where) ==
  /\ pc' = [pc EXCEPT ![r] = where]
  /\ UNCHANGED reply

\* A request whose client the middleware cannot tell (400), whose body is over the
\* limit (413) or whose id is too long (400) is answered before it takes the lock.
refuse(r) ==
  /\ pc[r] = "arrived"
  /\ Answer(r, "Refused")
  /\ UNCHANGED <<list_vars, target>>

\* Request r takes the lock to work on id.
Handle(r, id) ==
  /\ pc[r] = "arrived"
  /\ target' = [target EXCEPT ![r] = id]

inbox_post(r, id) ==
  /\ Handle(r, id)
  /\ \/ store(id, r, InboxTtl, "Stored") /\ Answer(r, "OK")
     \/ store(id, r, InboxTtl, "StoreFull") /\ Answer(r, "AtCapacity")
     \/ store(id, r, InboxTtl, "Error") /\ Answer(r, "StorageFailed")

inbox_get(r, id) ==
  /\ Handle(r, id)
  /\ \/ get_or_subscribe(r, id, "Message") /\ Answer(r, "OK")
     \/ get_or_subscribe(r, id, "Waiting") /\ Proceed(r, "waiting")
     \/ get_or_subscribe(r, id, "WaiterLimitReached") /\ Answer(r, "TooMany")

inbox_delete(r, id) ==
  /\ Handle(r, id)
  /\ \/ ack(id, "Acked") /\ Answer(r, "OK")
     \/ ack(id, "NotFound") /\ Answer(r, "NotFound")

inbox_ack(r, id) ==
  /\ Handle(r, id)
  /\ \/ "true" \in is_acked(id) /\ Answer(r, "OK")
     \/ "false" \in is_acked(id) /\ Answer(r, "false")
     \/ "NotFound" \in is_acked(id) /\ Answer(r, "NotFound")
  /\ UNCHANGED list_vars

inbox_await(r, id) ==
  /\ Handle(r, id)
  /\ \/ "true" \in is_acked(id) /\ Answer(r, "OK") /\ UNCHANGED list_vars
     \/ /\ is_acked(id) # {"true"}
        /\ \/ subscribe_ack(r, id, "Waiting") /\ Proceed(r, "waiting")
           \/ subscribe_ack(r, id, "NotFound") /\ Answer(r, "NotFound")
           \/ subscribe_ack(r, id, "WaiterLimitReached") /\ Answer(r, "TooMany")

link_post(r, id) ==
  /\ Handle(r, id)
  /\ \/ store_and_subscribe_ack(r, id, r, LinkTimeout, "Waiting") /\ Proceed(r, "waiting")
     \/ store_and_subscribe_ack(r, id, r, LinkTimeout, "WaiterLimitReached") /\ Answer(r, "TooMany")
     \/ store_and_subscribe_ack(r, id, r, LinkTimeout, "StoreFull") /\ Answer(r, "AtCapacity")
     \/ store_and_subscribe_ack(r, id, r, LinkTimeout, "NotFound") /\ Answer(r, "NotFound")
     \/ store_and_subscribe_ack(r, id, r, LinkTimeout, "Error") /\ Answer(r, "StorageFailed")

link_get(r, id) ==
  /\ Handle(r, id)
  /\ \/ get_or_subscribe(r, id, "Message") /\ Proceed(r, "acking")
     \/ get_or_subscribe(r, id, "Waiting") /\ Proceed(r, "waiting")
     \/ get_or_subscribe(r, id, "WaiterLimitReached") /\ Answer(r, "TooMany")

\* GET /link takes the lock again to acknowledge whatever its id now holds.
link_auto_ack(r) ==
  /\ pc[r] = "acking"
  /\ \E res \in Results : ack(target[r], res)
  /\ Answer(r, "OK")
  /\ UNCHANGED target

Bug_wake_AcksDropped(r) ==
  /\ pc[r] = "waiting"
  /\ \/ receiver[r] # "open" /\ r \in LinkGets /\ Proceed(r, "acking")
     \/ receiver[r] = "sent" /\ r \notin LinkGets /\ Answer(r, "OK")
     \/ receiver[r] = "dropped" /\ r \notin LinkGets /\ Answer(r, "NotFound")
  /\ UNCHANGED <<list_vars, target>>

Bug_wake_DroppedIsOk(r) ==
  /\ pc[r] = "waiting"
  /\ \/ receiver[r] = "sent" /\ r \in LinkGets /\ Proceed(r, "acking")
     \/ receiver[r] = "sent" /\ r \notin LinkGets /\ Answer(r, "OK")
     \/ receiver[r] = "dropped" /\ Answer(r, "OK")
  /\ UNCHANGED <<list_vars, target>>

\* The receiver of a waiting request resolves.
wake(r) ==
  /\ pc[r] = "waiting"
  /\ \/ receiver[r] = "sent" /\ r \in LinkGets /\ Proceed(r, "acking")
     \/ receiver[r] = "sent" /\ r \notin LinkGets /\ Answer(r, "OK")
     \/ receiver[r] = "dropped" /\ Answer(r, "NotFound")
  /\ UNCHANGED <<list_vars, target>>

Bug_time_out_KeepsReceiver(r) ==
  /\ pc[r] = "waiting" /\ receiver[r] = "open"
  /\ Answer(r, "TimedOut")
  /\ UNCHANGED <<list_vars, target>>

Bug_time_out_InboxOnly(r) ==
  /\ pc[r] = "waiting"
  /\ r \notin LinkPosts \cup LinkGets
  /\ CloseReceiver(r) \/ (receiver[r] # "open" /\ UNCHANGED list_vars)
  /\ Answer(r, "TimedOut")
  /\ UNCHANGED target

\* The timer fires.  The receiver is polled before the timer, but between the two
\* polls another thread may send or drop: that comes too late for the answer.
time_out(r) ==
  /\ pc[r] = "waiting"
  /\ CloseReceiver(r) \/ (receiver[r] # "open" /\ UNCHANGED list_vars)
  /\ Answer(r, "TimedOut")
  /\ UNCHANGED target

(***************************************************************************)
(* The environment.                                                        *)
(***************************************************************************)

\* The client goes away and the handler's future is dropped where it stands.
disconnect(r) ==
  /\ \/ pc[r] = "waiting" /\ CloseReceiver(r)
     \/ pc[r] = "waiting" /\ receiver[r] # "open" /\ UNCHANGED list_vars
     \/ pc[r] = "acking" /\ UNCHANGED list_vars
  /\ Proceed(r, "gone")
  /\ UNCHANGED target

\* The process stops and starts again; the requests in flight are lost.
restart ==
  /\ Restart
  /\ pc' = [r \in Requests |-> IF pc[r] \in {"waiting", "acking"} THEN "gone" ELSE pc[r]]
  /\ UNCHANGED <<target, reply>>

\* The task that wakes up every CLEANUP_INTERVAL.
cleanup_task == cleanup_expired /\ UNCHANGED <<pc, target, reply>>

Passing ==
  /\ ClockTick \/ PruneIntervalPasses
  /\ UNCHANGED <<pc, target, reply>>

Next ==
  \/ \E id \in Ids :
       \/ \E r \in InboxPosts : inbox_post(r, id)
       \/ \E r \in InboxGets : inbox_get(r, id)
       \/ \E r \in InboxDeletes : inbox_delete(r, id)
       \/ \E r \in InboxAcks : inbox_ack(r, id)
       \/ \E r \in InboxAwaits : inbox_await(r, id)
       \/ \E r \in LinkPosts : link_post(r, id)
       \/ \E r \in LinkGets : link_get(r, id)
  \/ \E r \in LinkGets : link_auto_ack(r)
  \/ \E r \in Requests : refuse(r) \/ wake(r) \/ time_out(r) \/ disconnect(r)
  \/ cleanup_task
  \/ restart
  \/ Passing

Spec == Init /\ [][Next]_relay_vars

(***************************************************************************)
(* The runtime schedules every handler that can run (the lock is a fair    *)
(* tokio Mutex), timers fire, and the cleanup task runs again and again.   *)
(* Clients, the clock and the operator owe nothing.                        *)
(***************************************************************************)
Fairness ==
  /\ \A r \in Requests : WF_relay_vars(wake(r)) /\ WF_relay_vars(time_out(r))
  /\ \A r \in LinkGets : WF_relay_vars(link_auto_ack(r))
  /\ WF_relay_vars(cleanup_task)

FairSpec == Spec /\ Fairness

(***************************************************************************)
(* Properties.                                                             *)
(***************************************************************************)

\* Type invariant; a request waits exactly while it has an undecided channel.
TypeOK ==
  /\ ListTypeOK
  /\ pc \in [Requests -> {"arrived", "waiting", "acking", "done", "gone"}]
  /\ target \in [Requests -> Ids \cup {None}]
  /\ reply \in [Requests -> Replies \cup {"none"}]
  /\ \A r \in Requests :
       /\ receiver[r] = "open" => pc[r] = "waiting"
       /\ pc[r] = "waiting" => receiver[r] \in {"open", "sent", "dropped"}

\* A producer answered 503 can safely post again: its message was neither stored
\* nor handed to a consumer (store_and_subscribe_ack checks for waiter room
\* before it stores).
RejectedNeverSeen ==
  \A p \in Messages :
    reply[p] \in {"TooMany", "AtCapacity"} =>
      /\ \A g \in Requests : value[g] # p
      /\ \A id \in DOMAIN entries : entries[id].body # p

\* A request that waited for an ACK answers 200 only if the message it waited for
\* was acknowledged; a producer whose message was overwritten first is not told of
\* the other message's ACK.  POST /link waits for its own message.
ProducerConfirmed ==
  /\ \A r \in LinkPosts \cup InboxAwaits :
       reply[r] = "OK" /\ awaits[r] # None => awaits[r] \in acked_messages
  /\ \A p \in LinkPosts : reply[p] = "OK" => awaits[p] = p

\* "/await doesn't have this problem for an ACK that happens while it waits"
\* (src/README.md:180-181): a producer that waits when its message is acknowledged
\* is not told 404, though the acknowledged entry may be evicted, replaced or
\* cleaned up before the handler gets to answer.
AckedAwaitNotLost ==
  \A w \in InboxAwaits :
    reply[w] = "NotFound" /\ awaits[w] # None => awaits[w] \notin acked_messages

\* No message is acknowledged out of the blue: there is a DELETE that was told so,
\* or a GET /link, on the id the message was posted to, that was given a message.
AckHasConsumer ==
  \A m \in acked_messages :
    \/ \E d \in InboxDeletes : target[d] = home[m] /\ reply[d] = "OK"
    \/ \E g \in LinkGets : target[g] = home[m] /\ value[g] # None

\* "Message is still safe on the relay" (src/README.md:335), for any producers and
\* consumers that share ids: a message that has not expired leaves its id only in the
\* step in which a newer POST takes its place, a DELETE is answered 200, or a GET /link
\* that was given a message acknowledges; or with a store that is not a file.
LeavesForCause ==
  \A id \in DOMAIN entries :
    LET m == entries[id].body
    IN m # None /\ entries[id].expires_at >= now =>
         \/ id \in DOMAIN entries' /\ entries'[id].body = m
         \/ id \in DOMAIN entries' /\ entries'[id].body \in Unposted
         \/ \E d \in InboxDeletes :
              target'[d] = id /\ reply[d] = "none" /\ reply'[d] = "OK"
         \/ \E g \in LinkGets :
              target[g] = id /\ value[g] # None /\ reply[g] = "none" /\ reply'[g] = "OK"
         \/ restart /\ ~Durable

StoredLeavesForCause == [][LeavesForCause]_relay_vars

\* POST /link answers "Entry expired" only if its message can no longer be
\* delivered: "Entry expired right after being stored. Stored entries are never
\* deleted to make room, so this is the only way to lose one" (waiting_list.rs:
\* 152-153), or, later, because it was overwritten or cleaned up.
NotFoundMeansGone ==
  \A p \in LinkPosts :
    reply[p] = "NotFound" =>
      ~(Available(target[p]) /\ entries[target[p]].body = p)

\* Every request that waits or still has to acknowledge comes to an end.
EveryRequestEnds ==
  \A r \in Requests : pc[r] \in {"waiting", "acking"} ~> pc[r] \in {"done", "gone"}

\* The slot of a client that left is eventually free again, though nobody calls
\* any operation on its id: cleanup removes the closed sender.
ClosedSendersReleased ==
  \A r \in Requests :
    receiver[r] = "closed" ~> r \notin Senders(waiters, Ids)

\* "Auto-ACK to signal producer that consumer received the message"
\* (link_handler.rs:68): POST /link answers 200 only if a consumer was given its
\* message.
LinkPostDelivered ==
  \A p \in LinkPosts : reply[p] = "OK" => \E g \in Requests : value[g] = p

\* GET /inbox "waits up to inbox_timeout. Returns 408 Request Timeout if no
\* message arrives" (inbox_handler.rs:64-65): it never answers 404.
InboxGetWaitsItsTimeout == \A g \in InboxGets : reply[g] # "NotFound"
==============================================================================
