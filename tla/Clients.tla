------------------------------- MODULE Clients -------------------------------
(***************************************************************************)
(* The relay together with its clients: producers and consumers that run   *)
(* the loops of src/README.md ("Client Implementation Patterns") on one    *)
(* id, over a network that loses and delays.                               *)
(*                                                                         *)
(* A client has at most one call under way; each attempt is a request of   *)
(* the relay.  When a call fails the client tries again, and what becomes  *)
(* of the failed attempt is open: it was lost, it has been handled and the *)
(* answer was lost, or it is still on its way and will be handled later.   *)
(* A producer stands for one call of produceToRelay with data of its own;  *)
(* every POST it sends carries that data.  A consumer calls                *)
(* consumeFromRelay again and again.                                       *)
(*                                                                         *)
(* Where a client is in its loop:                                          *)
(*   "post", "await", "returned"  a producer                               *)
(*   "get", "delete"              a consumer                               *)
(***************************************************************************)
EXTENDS Relay

CONSTANTS
  Producers, Consumers,
  channelId,    \* the id all of them use
  LossyCalls    \* the calls that may fail with a network error

ASSUME ClientsAssumption ==
  /\ channelId \in Ids
  /\ LossyCalls \subseteq {"post", "await", "get", "delete"}
  /\ None \notin Producers
  /\ Producers \cap Consumers = {}

VARIABLES
  at,         \* per client, where it is
  call,       \* per client, the request it waits for, or None
  sent,       \* the requests in use
  author,     \* per POST, the producer that sent it
  sent_at,    \* history: per POST, when it was sent
  got,        \* per consumer, the producer whose data it holds, or None
  consumed    \* history: per consumer, whose data it has returned

client_vars == <<at, call, sent, author, sent_at, got, consumed>>
all_vars == <<relay_vars, client_vars>>

Callers == Producers \cup Consumers

\* The requests that can be sent from each place of the loops.
Attempts(place) ==
  CASE place = "post" -> InboxPosts
    [] place = "await" -> InboxAwaits
    [] place = "get" -> InboxGets
    [] place = "delete" -> InboxDeletes
    [] place = "returned" -> {}

Called == {call[x] : x \in Callers}

\* The requests nobody waits for any more.
Abandoned == sent \ Called

ClientsInit ==
  /\ Init
  /\ at = [x \in Callers |-> IF x \in Producers THEN "post" ELSE "get"]
  /\ call = [x \in Callers |-> None]
  /\ sent = {}
  /\ author = [p \in InboxPosts |-> None]
  /\ sent_at = [p \in InboxPosts |-> 0]
  /\ got = [c \in Consumers |-> None]
  /\ consumed = [c \in Consumers |-> {}]

(***************************************************************************)
(* The network.                                                            *)
(***************************************************************************)

\* x sends a request and waits for its answer.
fetch(x, r) ==
  /\ call[x] = None
  /\ r \in Attempts(at[x]) \ sent
  /\ call' = [call EXCEPT ![x] = r]
  /\ sent' = sent \cup {r}
  /\ author' = IF r \in InboxPosts THEN [author EXCEPT ![r] = x] ELSE author
  /\ sent_at' = IF r \in InboxPosts THEN [sent_at EXCEPT ![r] = now] ELSE sent_at
  /\ UNCHANGED <<relay_vars, at, got, consumed>>

\* The connection breaks before the answer is here.  The loops catch the error
\* and send the same request again.  The POSTs left bound how often a POST fails.
network_error(x) ==
  /\ call[x] # None
  /\ at[x] \in LossyCalls \/ pc[call[x]] = "gone"
  /\ at[x] = "post" => InboxPosts \ sent # {}
  /\ call' = [call EXCEPT ![x] = None]
  /\ UNCHANGED <<relay_vars, at, sent, author, sent_at, got, consumed>>

\* An abandoned request gets lost before the relay has seen it.
lose(r) ==
  /\ r \in Abandoned
  /\ pc[r] = "arrived"
  /\ Proceed(r, "gone")
  /\ UNCHANGED <<list_vars, target, client_vars>>

\* Nothing is left of an abandoned request: its name can serve for a new one.
\* The name of a POST stays that of its message.
forget(r) ==
  /\ r \in Abandoned \ InboxPosts
  /\ pc[r] \in {"done", "gone"}
  /\ r \notin Senders(waiters, Ids)
  /\ sent' = sent \ {r}
  /\ pc' = [pc EXCEPT ![r] = "arrived"]
  /\ target' = [target EXCEPT ![r] = None]
  /\ reply' = [reply EXCEPT ![r] = "none"]
  /\ receiver' = [receiver EXCEPT ![r] = "none"]
  /\ value' = [value EXCEPT ![r] = None]
  /\ awaits' = [awaits EXCEPT ![r] = None]
  /\ UNCHANGED <<entries, now, max_entries, waiters, prune_due, home, acked_messages,
                 at, call, author, sent_at, got, consumed>>

(***************************************************************************)
(* The loops.  Whatever answer does not end a step of the loop makes the   *)
(* client send the request again.                                          *)
(***************************************************************************)
Answered(x) ==
  /\ call[x] # None
  /\ pc[call[x]] = "done"
  /\ call' = [call EXCEPT ![x] = None]
  /\ UNCHANGED <<relay_vars, sent, author, sent_at>>

produce(x) ==
  /\ x \in Producers
  /\ Answered(x)
  /\ at' = [at EXCEPT ![x] = IF reply[call[x]] # "OK" THEN @
                             ELSE IF @ = "post" THEN "await" ELSE "returned"]
  /\ UNCHANGED <<got, consumed>>

Bug_consume_DataKept(x) ==
  /\ x \in Consumers
  /\ Answered(x)
  /\ \/ /\ at[x] = "get" /\ reply[call[x]] = "OK"
        /\ at' = [at EXCEPT ![x] = "delete"]
        /\ got' = [got EXCEPT ![x] = author[value[call[x]]]]
        /\ UNCHANGED consumed
     \/ /\ at[x] = "get" /\ reply[call[x]] # "OK"
        /\ UNCHANGED <<at, got, consumed>>
     \/ /\ at[x] = "delete"
        /\ at' = [at EXCEPT ![x] = "get"]
        /\ consumed' = [consumed EXCEPT ![x] = @ \cup {got[x]}]
        /\ UNCHANGED got

\* A consumer takes any answer to its DELETE for an acknowledgment.
consume(x) ==
  /\ x \in Consumers
  /\ Answered(x)
  /\ \/ /\ at[x] = "get" /\ reply[call[x]] = "OK"
        /\ at' = [at EXCEPT ![x] = "delete"]
        /\ got' = [got EXCEPT ![x] = author[value[call[x]]]]
        /\ UNCHANGED consumed
     \/ /\ at[x] = "get" /\ reply[call[x]] # "OK"
        /\ UNCHANGED <<at, got, consumed>>
     \/ /\ at[x] = "delete"
        /\ at' = [at EXCEPT ![x] = "get"]
        /\ got' = [got EXCEPT ![x] = None]
        /\ consumed' = [consumed EXCEPT ![x] = @ \cup {got[x]}]

(***************************************************************************)
(* The relay works on the requests that were sent.                         *)
(***************************************************************************)
serve(r) ==
  /\ r \in sent
  /\ \/ r \in InboxPosts /\ inbox_post(r, channelId)
     \/ r \in InboxGets /\ inbox_get(r, channelId)
     \/ r \in InboxDeletes /\ inbox_delete(r, channelId)
     \/ r \in InboxAwaits /\ inbox_await(r, channelId)
  /\ UNCHANGED client_vars

\* A request that waits has its answer.  A broken connection may be noticed.
settle(r) ==
  /\ \/ wake(r)
     \/ time_out(r)
     \/ r \in Abandoned /\ disconnect(r)
  /\ UNCHANGED client_vars

OnItsOwn ==
  /\ cleanup_task \/ restart \/ Passing
  /\ UNCHANGED client_vars

ClientsNext ==
  \/ \E x \in Callers : \/ \E r \in Requests : fetch(x, r)
                        \/ network_error(x)
                        \/ produce(x)
                        \/ consume(x)
  \/ \E r \in Requests : serve(r) \/ settle(r) \/ lose(r) \/ forget(r)
  \/ OnItsOwn

ClientsSpec == ClientsInit /\ [][ClientsNext]_all_vars

(***************************************************************************)
(* The network does not fail for ever: of the attempts a client makes some *)
(* arrive, and some answers come back.  The relay is as fair as in Relay,  *)
(* and the clients keep going.                                             *)
(***************************************************************************)
sends(x) == \E r \in Requests : fetch(x, r)

arrives(x) == \E r \in Requests : call[x] = r /\ serve(r)

ClientsFairness ==
  /\ \A x \in Callers : /\ WF_all_vars(sends(x))
                        /\ WF_all_vars(network_error(x) /\ pc[call[x]] = "gone")
                        /\ SF_all_vars(arrives(x))
                        /\ SF_all_vars(produce(x) \/ consume(x))
  /\ \A r \in Requests : /\ WF_all_vars(settle(r))
                         /\ WF_all_vars(lose(r))
                         /\ WF_all_vars(forget(r))
  /\ WF_all_vars(cleanup_task /\ UNCHANGED client_vars)

FairClientsSpec == ClientsSpec /\ ClientsFairness

(***************************************************************************)
(* Properties.                                                             *)
(***************************************************************************)

Seen(p) == \E c \in Consumers : p \in consumed[c] \cup {got[c]}

\* Type invariant; the clients have calls of their own, and whatever a POST
\* carried is known to come from one producer.
ClientsTypeOK ==
  /\ at \in [Callers -> {"post", "await", "returned", "get", "delete"}]
  /\ \A x \in Callers : call[x] # None => call[x] \in sent \cap Attempts(at[x])
  /\ \A x, y \in Callers : call[x] = call[y] /\ call[x] # None => x = y
  /\ sent \subseteq Requests
  /\ author \in [InboxPosts -> Producers \cup {None}]
  /\ sent_at \in [InboxPosts -> 0..MaxTime]
  /\ got \in [Consumers -> Producers \cup {None}]
  /\ \A c \in Consumers : at[c] = "delete" <=> got[c] # None

\* "Consumer ACKed - delivery confirmed" (src/README.md:282): produceToRelay
\* returns only after a consumer was handed the data, whatever calls failed, were
\* repeated or came late.
ConfirmedMeansReceived == \A p \in Producers : at[p] = "returned" => Seen(p)

\* "Message is still safe on the relay" (src/README.md:335): from the moment a
\* producer's POST is answered 200 until a consumer has the data, the relay holds
\* it for the next GET, through network errors, failing statements and restarts, for
\* a time to live at least from when that POST was sent, whatever is sent again.
StoredUntilReceived ==
  \A m \in InboxPosts :
    reply[m] = "OK" /\ ~Seen(author[m]) /\ now < sent_at[m] + InboxTtl =>
      Available(channelId) /\ author[entries[channelId].body] = author[m]

\* "Message won't be re-delivered after success" (src/README.md:312): a consumer
\* whose DELETE was answered is not given the same data again, unless the producer
\* posted it again because it did not know that its first POST had arrived.
RedeliveredOnlyIfReposted ==
  \A c \in Consumers :
    got[c] \in consumed[c] =>
      \E p, q \in InboxPosts : p # q /\ author[p] = got[c] /\ author[q] = got[c]

\* With network errors that are not permanent, restarts and time-outs, the
\* producer's call returns: the two loops find together, unless the message
\* expires first and is lost to both.
ProducerReturns == \A p \in Producers : <>(at[p] = "returned" \/ now >= InboxTtl)
==============================================================================
