----------------------------- MODULE RelayProofs -----------------------------
(***************************************************************************)
(* Theorems about the relay, for every set of requests of every kind.      *)
(* Its requests use the waiting list as WaitingList.tla says the list is   *)
(* used, so that what is proved there holds of the relay; on top of it the *)
(* answers the requests give are related to what the list did.             *)
(***************************************************************************)
EXTENDS Relay, WaiterMapProofs

(***************************************************************************)
(* The inductive invariant.                                                *)
(***************************************************************************)

RelayTypes ==
  /\ pc \in [Requests -> {"arrived", "waiting", "acking", "done", "gone"}]
  /\ target \in [Requests -> Ids \cup {None}]
  /\ reply \in [Requests -> Replies \cup {"none"}]

\* How far the handler of r is, and what the list knows of r.
RequestOK(r) ==
  /\ pc[r] = "arrived" =>
       /\ receiver[r] = "none" /\ value[r] = None
       /\ r \in Messages => home[r] = None
  /\ receiver[r] = "open" => pc[r] = "waiting"
  /\ pc[r] = "waiting" => receiver[r] \in {"open", "sent", "dropped"}
  /\ pc[r] = "acking" => r \in LinkGets /\ value[r] # None
  /\ pc[r] \in {"waiting", "acking"} => target[r] \in Ids
  /\ reply[r] # "none" => pc[r] = "done"
  /\ awaits[r] # None => r \in LinkPosts \cup InboxAwaits
  /\ r \in InboxGets \cup LinkGets /\ receiver[r] = "sent" => value[r] # None
  /\ r \in InboxGets /\ reply[r] = "OK" => value[r] # None
  /\ r \in LinkPosts /\ pc[r] = "waiting" => awaits[r] = r
  /\ r \in InboxAwaits /\ receiver[r] = "open" => awaits[r] # None
  /\ r \in InboxPosts \cup InboxDeletes => pc[r] # "waiting"

\* Nobody was given the message p, and it is not stored.
Unseen(p) ==
  /\ \A g \in Requests : value[g] # p
  /\ \A id \in DOMAIN entries : entries[id].body # p

\* What r was answered is so.
AnswerOK(r) ==
  /\ r \in LinkPosts \cup InboxAwaits /\ reply[r] = "OK" /\ awaits[r] # None =>
       awaits[r] \in acked_messages
  /\ r \in LinkPosts /\ reply[r] = "OK" => awaits[r] = r
  /\ r \in Messages /\ reply[r] \in {"TooMany", "AtCapacity"} => Unseen(r)

\* Only messages that were posted are handed over.
GivenPosted == \A c \in Requests : value[c] # None => home[value[c]] # None

HandlersInv ==
  /\ ListInv
  /\ Slim(waiters, max_entries)
  /\ GivenPosted
  /\ RelayTypes
  /\ \A r \in Requests : RequestOK(r) /\ AnswerOK(r)

RelayInv == HandlersInv /\ AckHasConsumer

\* A message whose ACK r waited for when its sender was dropped is gone for good, and
\* was not acknowledged.
DroppedOK(r) ==
  receiver[r] = "dropped" /\ awaits[r] # None =>
    /\ home[awaits[r]] # None /\ awaits[r] \notin acked_messages
    /\ \A id \in DOMAIN entries : entries[id].body # awaits[r]

\* The message p cannot be delivered any more.
Over(p) == \A id \in DOMAIN entries : entries[id].body = p => entries[id].expires_at <= now

\* A request is answered 404 when its sender was dropped, or at once.
NotFoundOK(r) ==
  reply[r] = "NotFound" =>
    /\ awaits[r] # None => receiver[r] = "dropped"
    /\ r \in LinkPosts => awaits[r] = r \/ (~ClockJumps => Over(r))

NoFaultInv == \A r \in Requests : DroppedOK(r) /\ NotFoundOK(r)

(***************************************************************************)
(* What the operations of the list do to the requests other than the one   *)
(* that calls them.                                                        *)
(***************************************************************************)

\* The receivers of calls other than r resolve only by a message or an ACK they were
\* given or by being dropped, messages are handed over only as they are stored or from
\* the table, and the table gets no message but the one of r.
Effect(r, rec, val, es) ==
  /\ \A c \in Calls \ {r} :
       /\ receiver[c] # "open" => rec[c] = receiver[c]
       /\ receiver[c] = "open" => rec[c] \in {"open", "sent", "dropped"}
       /\ val[c] # value[c] => receiver[c] = "open" /\ rec[c] = "sent"
       /\ receiver[c] = "open" /\ rec[c] = "sent" /\ awaits[c] = None => val[c] # None
       /\ receiver[c] = "open" /\ rec[c] = "dropped" /\ awaits[c] # None /\ ~StorageErrors =>
            \A id \in DOMAIN es : es[id].body # awaits[c]
  /\ \A c \in Calls :
       val[c] # value[c] =>
         /\ val[c] # None
         /\ val[c] = r \/ \E id \in DOMAIN entries : Available(id) /\ entries[id].body = val[c]
  /\ \A id \in DOMAIN es :
       es[id].body # None => \/ id \in DOMAIN entries /\ es[id] = entries[id]
                             \/ es[id].body = r /\ home[r] = None

\* A step of the list in which only r takes part as a caller.
Frame(r) ==
  /\ Effect(r, receiver', value', entries')
  /\ \A c \in Calls \ {r} : awaits'[c] = awaits[c]
  /\ \A m \in Messages : home[m] # None => home'[m] = home[m]
  /\ \A m \in Messages \ {r} : home'[m] = home[m]
  /\ acked_messages \subseteq acked_messages'
  /\ \A m \in acked_messages' \ acked_messages :
       m # None /\ \E id \in DOMAIN entries : entries[id].body = m
  /\ acked_messages' # acked_messages =>
       \A c \in Calls : receiver[c] = "open" => receiver'[c] # "dropped"
  /\ ~ClockJumps => now' >= now

\* Whoever waits for an ACK waits for a message that was posted and is not acknowledged.
LEMMA OpenUnacked ==
  ASSUME ListInv, NEW c \in Calls, receiver[c] = "open", awaits[c] # None
  PROVE  home[awaits[c]] # None /\ awaits[c] \notin acked_messages
<1>1. PICK id \in Ids, kind \in Kinds : Waits(waiters, id, kind, c)
  BY DEF ListInv, Wired
<1> QED
  BY <1>1, RepositoryAssumption DEF ListInv, Meant, AwaitsRow, Kinds

\* A request that has no channel waits for no ACK.
LEMMA IdleAwaitsNothing ==
  ASSUME ListInv, NEW c \in Calls, receiver[c] = "none"
  PROVE  awaits[c] = None
BY DEF ListInv, Meant

\* Posting the message r and notifying its id: everyone who waits there gets it, or is
\* dropped for it.
LEMMA PostEffect ==
  ASSUME ListInv, NEW w, Wired(w, receiver),
         Meant(w, receiver, entries, home, awaits, acked_messages),
         NEW id \in Ids, NEW r \in Messages, home[r] = None,
         NEW ttl \in Ttls, NEW ins \in insert(entries, id, r, now + ttl)
  PROVE  LET n == notify_message_waiters(w, id) IN
         /\ Effect(r, Signalled(n.sent, n.dropped), Given(n.sent, r), ins.table)
         /\ \A c \in Calls : receiver[c] # "open" =>
              /\ Signalled(n.sent, n.dropped)[c] = receiver[c]
              /\ Given(n.sent, r)[c] = value[c]
<1> DEFINE n == notify_message_waiters(w, id)
           rec == Signalled(n.sent, n.dropped)
           val == Given(n.sent, r)
           row == NewEntry(r, now + ttl)
<1> SUFFICES /\ Effect(r, rec, val, ins.table)
             /\ \A c \in Calls : receiver[c] # "open" => rec[c] = receiver[c] /\ val[c] = value[c]
  OBVIOUS
<1>1. /\ \A c \in Calls : c \in n.sent <=> Waits(w, id, "message", c)
      /\ \A c \in Calls : c \in n.dropped <=> Waits(w, id, "ack", c)
  BY NotifyMessageWaits DEF Wired
<1>2. \A c \in Calls :
        /\ receiver[c] # "open" => rec[c] = receiver[c]
        /\ receiver[c] = "open" => rec[c] \in {"open", "sent", "dropped"}
        /\ receiver[c] = "open" /\ rec[c] = "sent" => c \in n.sent
        /\ receiver[c] = "open" /\ rec[c] = "dropped" => c \in n.dropped
        /\ receiver[c] = "open" /\ c \in n.sent => rec[c] = "sent"
  BY DEF Signalled
<1>3. \A c \in Calls : val[c] = IF c \in n.sent /\ receiver[c] = "open" THEN r ELSE value[c]
  BY DEF Given
<1>4. PICK G : \/ /\ ins.outcome \in {"StoreFull", "Error"}
                  /\ ins.table = Without(entries, G)
               \/ /\ ins.outcome = "Stored"
                  /\ ins.table = Put(Without(entries, G), id, row)
  BY InvContext, InsertShape
<1>5. \A j \in DOMAIN ins.table :
        \/ j \in DOMAIN entries /\ ins.table[j] = entries[j]
        \/ j = id /\ ins.table[j].body = r
  BY <1>4 DEF Without, Restrict, Put, NewEntry
<1>6. ASSUME NEW c \in Calls, receiver[c] = "open", rec[c] = "dropped", awaits[c] # None,
             ~StorageErrors, NEW j \in DOMAIN ins.table, ins.table[j].body = awaits[c]
      PROVE  FALSE
  <2>1. awaits[c] \in Messages /\ home[awaits[c]] = id
    BY <1>1, <1>2, <1>6 DEF Meant, AwaitsRow
  <2>2. awaits[c] # r /\ awaits[c] # None
    BY <2>1, RepositoryAssumption
  <2>3. j \in DOMAIN entries /\ ins.table[j] = entries[j]
    BY <1>5, <1>6, <2>2
  <2>4. j = id
    BY <1>6, <2>1, <2>2, <2>3 DEF Meant
  <2>5. CASE ins.outcome = "Stored"
    <3>1. ins.table[id].body = r
      BY <1>4, <2>5 DEF Put, NewEntry
    <3> QED
      BY <1>6, <2>2, <2>4, <3>1
  <2>6. CASE ins.outcome # "Stored"
    <3>1. id \notin DOMAIN entries
      BY <1>6, <2>6 DEF insert
    <3> QED
      BY <2>3, <2>4, <3>1
  <2> QED
    BY <2>5, <2>6
<1> HIDE DEF n, rec, val
<1>7. r # None
  BY RepositoryAssumption
<1>8. \A c \in Calls : receiver[c] # "open" => rec[c] = receiver[c] /\ val[c] = value[c]
  BY <1>2, <1>3
<1>9. Effect(r, rec, val, ins.table)
  BY <1>2, <1>3, <1>5, <1>6, <1>7 DEF Effect
<1> QED
  BY <1>8, <1>9

\* No message that was not posted yet is stored or was handed over.
LEMMA UnpostedUnseen ==
  ASSUME ListInv, GivenPosted, NEW r \in Messages, home[r] = None
  PROVE  Unseen(r)
<1>1. \A g \in Requests : value[g] # r
  BY RepositoryAssumption DEF GivenPosted
<1>2. \A id \in DOMAIN entries : entries[id].body # r
  BY RepositoryAssumption DEF ListInv, Meant, WellFormed, IsTable
<1> QED
  BY <1>1, <1>2 DEF Unseen

\* store, as request r calls it.
LEMMA StoreEffect ==
  ASSUME ListInv, GivenPosted, NEW r \in Messages, home[r] = None, receiver[r] = "none",
         NEW id \in Ids, NEW ttl \in Ttls, NEW res, store(id, r, ttl, res)
  PROVE  /\ Frame(r)
         /\ receiver'[r] = "none" /\ value'[r] = value[r] /\ awaits'[r] = None
         /\ home'[r] # None
         /\ acked_messages' = acked_messages
         /\ res = "StoreFull" => Unseen(r)'
<1> DEFINE n == notify_message_waiters(waiters, id)
<1>1. PICK ins \in insert(entries, id, r, now + ttl) :
        /\ res = ins.outcome
        /\ entries' = ins.table
        /\ IF ins.outcome = "StoreFull"
           THEN UNCHANGED <<waiters, receiver, value>>
           ELSE receiver' = Signalled(n.sent, n.dropped) /\ value' = Given(n.sent, r)
  BY DEF store
<1>2. /\ home' = [home EXCEPT ![r] = id]
      /\ UNCHANGED <<now, max_entries, prune_due, awaits, acked_messages>>
  BY DEF store
<1>3. /\ Effect(r, Signalled(n.sent, n.dropped), Given(n.sent, r), ins.table)
      /\ \A c \in Calls : receiver[c] # "open" =>
           /\ Signalled(n.sent, n.dropped)[c] = receiver[c]
           /\ Given(n.sent, r)[c] = value[c]
  BY PostEffect DEF ListInv
<1> HIDE DEF n
<1>4. now \in Int /\ r \in Calls /\ id # None /\ home \in [Messages -> Ids \cup {None}]
  BY InvContext, RelayAssumption, RepositoryAssumption DEF Requests, ListInv, Meant
<1>5. Effect(r, receiver, value, ins.table)
  <2>1. receiver \in [Calls -> ReceiverStates]
    BY InvContext
  <2> QED
    BY <1>3, <2>1 DEF Effect, ReceiverStates
<1>6. Effect(r, receiver', value', entries')
  BY <1>1, <1>3, <1>5
<1>7. Frame(r)
  BY <1>2, <1>4, <1>6 DEF Frame
<1>8. receiver'[r] = "none" /\ value'[r] = value[r]
  BY <1>1, <1>3, <1>4
<1>9. awaits'[r] = None /\ home'[r] # None
  BY <1>2, <1>4, IdleAwaitsNothing
<1>10. ASSUME res = "StoreFull"
       PROVE  Unseen(r)'
  <2>1. Unseen(r)
    BY UnpostedUnseen
  <2>2. WellFormed(entries) /\ now + ttl \in Int
    BY InvContext
  <2>3. PICK G : ins.outcome = "StoreFull" => ins.table = Without(entries, G)
    BY <2>2, InsertShape
  <2>4. entries' = Without(entries, G) /\ UNCHANGED value
    BY <1>1, <1>10, <2>3
  <2> QED
    BY <2>1, <2>4 DEF Unseen, Without, Restrict
<1> QED
  BY <1>2, <1>7, <1>8, <1>9, <1>10

\* ack, whoever calls it: only the message of its id can become acknowledged.
LEMMA AckEffect ==
  ASSUME ListInv, NEW id \in Ids, NEW res, ack(id, res), NEW r
  PROVE  /\ Frame(r)
         /\ \A c \in Calls : receiver[c] # "open" => receiver'[c] = receiver[c]
         /\ UNCHANGED <<value, awaits, home>>
         /\ \A m \in acked_messages' \ acked_messages : home[m] = id /\ res = "Acked"
<1>1. now \in Int /\ WellFormed(entries)
  BY InvContext
<1>2. CASE UNCHANGED list_vars
  BY <1>1, <1>2 DEF list_vars, Frame, Effect
<1>3. CASE /\ Readable(entries, id, now) /\ ~entries[id].acked
           /\ res = "Acked"
           /\ entries' = acknowledged(entries, id)
           /\ acked_messages' = acked_messages \cup {entries[id].body}
           /\ receiver' = Signalled(notify_ack_waiters(waiters, id).sent, {})
           /\ UNCHANGED <<now, value, home, awaits>>
  <2> DEFINE sent == notify_ack_waiters(waiters, id).sent
  <2>1. \A c \in Calls : c \in sent <=> Waits(waiters, id, "ack", c)
    BY NotifyAckWaits DEF ListInv, Wired
  <2>2. id \in DOMAIN entries /\ entries[id].body \in Messages /\ home[entries[id].body] = id
    BY <1>1, <1>3 DEF Readable, ListInv, Meant, WellFormed, IsTable, Entry
  <2>3. \A c \in Calls :
          /\ receiver[c] # "open" => receiver'[c] = receiver[c]
          /\ receiver[c] = "open" => receiver'[c] \in {"open", "sent"}
          /\ receiver[c] = "open" /\ receiver'[c] = "sent" => c \in sent
    BY <1>3 DEF Signalled
  <2> HIDE DEF sent
  <2>4. \A c \in Calls : c \in sent => awaits[c] # None
    BY <2>1, RepositoryAssumption DEF ListInv, Meant, AwaitsRow
  <2>5. \A j \in DOMAIN entries' :
          entries'[j].body # None => j \in DOMAIN entries /\ entries'[j] = entries[j]
    BY <1>1, <1>3 DEF acknowledged, WellFormed, IsTable, Entry
  <2>6. Effect(r, receiver', value', entries')
    BY <1>3, <2>3, <2>4, <2>5 DEF Effect
  <2>7. Frame(r)
    BY <1>1, <1>3, <2>2, <2>3, <2>6, RepositoryAssumption DEF Frame
  <2> QED
    BY <1>3, <2>2, <2>3, <2>7
<1> QED
  BY <1>2, <1>3 DEF ack, list_vars

\* A call that takes no part changes nothing for anybody.
LEMMA StillEffect ==
  ASSUME ListInv, UNCHANGED <<entries, receiver, value, awaits, home, acked_messages>>,
         now' = now \/ now' \in LaterReadings, NEW r
  PROVE  Frame(r)
<1>1. now \in Int
  BY InvContext
<1>2. ~ClockJumps => now' >= now
  BY <1>1 DEF LaterReadings
<1>3. \A c \in Calls : receiver[c] = "open" => receiver'[c] \in {"open"}
  OBVIOUS
<1> QED
  BY <1>2, <1>3 DEF Frame, Effect

\* A call of r that only decides about the channel of r.
LEMMA OwnChannelEffect ==
  ASSUME ListInv, NEW r \in Calls, NEW state, receiver' = [receiver EXCEPT ![r] = state],
         NEW m, value' = [value EXCEPT ![r] = m],
         m # value[r] => m # None /\ \E id \in DOMAIN entries : Available(id) /\ entries[id].body = m,
         \A c \in Calls \ {r} : awaits'[c] = awaits[c],
         UNCHANGED <<entries, now, home, acked_messages>>
  PROVE  Frame(r)
<1>1. receiver \in [Calls -> ReceiverStates] /\ now \in Int
  BY InvContext
<1>2. \A c \in Calls \ {r} : receiver'[c] = receiver[c] /\ value'[c] = value[c]
  BY <1>1 DEF ListInv
<1>3. value'[r] = m
  BY DEF ListInv
<1>4. Effect(r, receiver', value', entries')
  BY <1>2, <1>3 DEF Effect
<1>5. \A c \in Calls : receiver[c] = "open" => c = r \/ receiver'[c] = "open"
  BY <1>2
<1> QED
  BY <1>1, <1>4 DEF Frame

\* subscribe_ack, as request r calls it.
LEMMA SubscribeAckEffect ==
  ASSUME ListInv, NEW r \in Calls, receiver[r] = "none", NEW id \in Ids, NEW res,
         subscribe_ack(r, id, res)
  PROVE  /\ Frame(r)
         /\ UNCHANGED <<entries, value, home, acked_messages>>
         /\ IF res = "Waiting" THEN receiver'[r] \in {"open", "sent"}
                               ELSE receiver'[r] = "none" /\ awaits'[r] = None
         /\ receiver'[r] = "open" => awaits'[r] # None
<1>1. UNCHANGED <<entries, now, value, home, acked_messages>>
  BY DEF subscribe_ack
<1>2. receiver \in [Calls -> ReceiverStates] /\ awaits[r] = None
  BY InvContext, IdleAwaitsNothing
<1>3. /\ \A c \in Calls \ {r} : awaits'[c] = awaits[c]
      /\ IF res = "Waiting" THEN \E state \in {"open", "sent"} : receiver' = [receiver EXCEPT ![r] = state]
                            ELSE receiver' = receiver /\ awaits' = awaits
  <2>1. awaits \in [Calls -> Messages \cup {None}]
    BY DEF ListInv, Meant
  <2> QED
    BY <2>1 DEF subscribe_ack
<1>4. receiver = [receiver EXCEPT ![r] = "none"] /\ value = [value EXCEPT ![r] = value[r]]
  BY <1>2 DEF ListInv
<1>5. \E state \in {"none", "open", "sent"} : receiver' = [receiver EXCEPT ![r] = state]
  BY <1>3, <1>4
<1>6. Frame(r)
  BY <1>1, <1>3, <1>4, <1>5, OwnChannelEffect
<1>7. receiver'[r] = "open" => awaits'[r] # None
  <2>1. awaits \in [Calls -> Messages \cup {None}]
    BY DEF ListInv, Meant
  <2>2. Readable(entries, id, now) /\ ~entries[id].acked => entries[id].body # None
    BY DEF ListInv, RepoTypeOK, Readable
  <2> QED
    BY <1>2, <2>1, <2>2 DEF subscribe_ack
<1> QED
  BY <1>1, <1>2, <1>3, <1>6, <1>7

\* get_or_subscribe, as request r calls it.
LEMMA GetEffect ==
  ASSUME ListInv, NEW r \in Calls, receiver[r] = "none", NEW id \in Ids, NEW res,
         get_or_subscribe(r, id, res)
  PROVE  /\ Frame(r)
         /\ UNCHANGED <<entries, home, awaits, acked_messages>>
         /\ res = "Message" => receiver'[r] = "sent" /\ value'[r] # None
         /\ res = "Waiting" => receiver'[r] = "open"
         /\ res = "WaiterLimitReached" => receiver'[r] = "none"
<1>1. UNCHANGED <<entries, now, home, awaits, acked_messages>>
  BY DEF get_or_subscribe, wait_for_message
<1>2. /\ receiver \in [Calls -> ReceiverStates]
      /\ receiver = [receiver EXCEPT ![r] = "none"] /\ value = [value EXCEPT ![r] = value[r]]
  BY InvContext DEF ListInv
<1>3. CASE /\ Available(id)
           /\ res = "Message"
           /\ receiver' = [receiver EXCEPT ![r] = "sent"]
           /\ value' = [value EXCEPT ![r] = entries[id].body]
  <2>1. id \in DOMAIN entries /\ Available(id) /\ entries[id].body # None
    BY <1>3 DEF Available, Readable
  <2>2. Frame(r)
    BY <1>1, <1>3, <2>1, OwnChannelEffect
  <2> QED
    BY <1>1, <1>2, <1>3, <2>1, <2>2 DEF ListInv
<1>4. CASE /\ value' = value
           /\ \/ res = "Waiting" /\ receiver' = [receiver EXCEPT ![r] = "open"]
              \/ res = "WaiterLimitReached" /\ receiver' = receiver
  <2>1. \E state \in {"none", "open"} : receiver' = [receiver EXCEPT ![r] = state]
    BY <1>2, <1>4
  <2>2. Frame(r)
    BY <1>1, <1>2, <1>4, <2>1, OwnChannelEffect
  <2> QED
    BY <1>1, <1>2, <1>4, <2>2
<1> QED
  BY <1>3, <1>4 DEF get_or_subscribe, wait_for_message, give_message

\* CloseReceiver, when r times out or its client disconnects.
LEMMA CloseEffect ==
  ASSUME ListInv, NEW r \in Calls, CloseReceiver(r)
  PROVE  /\ Frame(r)
         /\ receiver'[r] = "closed"
         /\ UNCHANGED <<entries, value, awaits, home, acked_messages>>
<1>1. value = [value EXCEPT ![r] = value[r]] /\ receiver \in [Calls -> ReceiverStates]
  BY InvContext DEF ListInv
<1> QED
  BY <1>1, OwnChannelEffect DEF CloseReceiver

\* cleanup_expired: who waited for an ACK of an expired message is dropped with it.
LEMMA CleanupEffect ==
  ASSUME ListInv, cleanup_expired, NEW r
  PROVE  /\ Frame(r)
         /\ \A c \in Calls : receiver[c] # "open" => receiver'[c] = receiver[c]
         /\ UNCHANGED <<value, awaits, home, acked_messages>>
<1>1. now \in Int /\ WellFormed(entries) /\ UNCHANGED <<now, value, awaits, home, acked_messages>>
  BY InvContext DEF cleanup_expired
<1>2. CASE /\ entries' = delete_expired(entries)
           /\ receiver' = Signalled({}, release_waiters(ExpiredIds(entries)).dropped)
  <2> DEFINE gone == ExpiredIds(entries)
             dropped == release_waiters(gone).dropped
  <2>1. gone \in SUBSET Ids
    BY <1>1 DEF ExpiredIds, WellFormed, IsTable
  <2>2. \A c \in Calls :
          c \in dropped <=> \E id \in gone, kind \in Kinds : Waits(waiters, id, kind, c)
    BY <2>1, WiredReleased DEF ListInv
  <2>3. \A c \in Calls :
          /\ receiver[c] # "open" => receiver'[c] = receiver[c]
          /\ receiver[c] = "open" => receiver'[c] \in {"open", "dropped"}
          /\ receiver[c] = "open" /\ receiver'[c] = "dropped" => c \in dropped
    BY <1>2 DEF Signalled
  <2>4. DOMAIN entries' = DOMAIN entries \ gone /\ \A id \in DOMAIN entries' : entries'[id] = entries[id]
    BY <1>2 DEF delete_expired, Without, Restrict
  <2> HIDE DEF gone, dropped
  <2>5. ASSUME NEW c \in Calls, c \in dropped, awaits[c] # None,
               NEW id \in DOMAIN entries', entries'[id].body = awaits[c]
        PROVE  FALSE
    <3>1. PICK j \in gone, kind \in Kinds : Waits(waiters, j, kind, c)
      BY <2>2, <2>5
    <3>2. home[awaits[c]] = j
      BY <2>1, <2>5, <3>1 DEF ListInv, Meant, AwaitsRow, Kinds
    <3>3. home[awaits[c]] = id
      BY <2>4, <2>5 DEF ListInv, Meant
    <3> QED
      BY <2>4, <3>1, <3>2, <3>3
  <2>6. Effect(r, receiver', value', entries')
    BY <1>1, <2>3, <2>4, <2>5 DEF Effect
  <2>7. Frame(r)
    BY <1>1, <2>6 DEF Frame
  <2> QED
    BY <1>1, <2>3, <2>7
<1>3. CASE UNCHANGED <<entries, receiver>>
  BY <1>1, <1>3, StillEffect
<1> QED
  BY <1>2, <1>3 DEF cleanup_expired

\* A producer that room was found for before its message was stored finds it after the
\* waiters of the message it overwrote are gone.
LEMMA RoomAfterNotify ==
  ASSUME NEW s, max_entries \in Nat, Slim(s.waiters, max_entries), NEW id \in Ids,
         room_for_producer(s, id), NEW c
  PROVE  LET n == notify_message_waiters(s.waiters, id)
         IN add_waiter([waiters |-> n.waiters, prune_due |-> s.prune_due], id, "ack", c).joined
<1> DEFINE w == Without(s.waiters, {id})
           after == [waiters |-> w, prune_due |-> s.prune_due]
<1>1. IsFiniteSet(DOMAIN s.waiters) /\ Size(s.waiters) \in Nat /\ Size(s.waiters) <= max_entries
  BY MapFinite DEF Slim
<1>2. DOMAIN w = DOMAIN s.waiters \ {id}
  BY DEF Without, Restrict
<1> HIDE DEF w
<1>3. Size(w) = IF id \in DOMAIN s.waiters THEN Size(s.waiters) - 1 ELSE Size(s.waiters)
  BY <1>1, <1>2, FS_RemoveElement DEF Size
<1>4. Size(w) < max_entries
  BY <1>1, <1>3 DEF room_for_producer, has_room, max_waiting_ids
<1>5. ensure_waiter_capacity(after, id) = after /\ has_room(after.waiters, id)
  BY <1>4 DEF ensure_waiter_capacity, has_room, max_waiting_ids
<1>6. waiters_at(after.waiters, id)["ack"] \ Closed = {}
  BY <1>2 DEF waiters_at, NoWaiters
<1>7. Cardinality({}) < MaxWaitersPerEntry
  BY FS_EmptySet, WaitingListAssumption
<1>8. add_waiter(after, id, "ack", c).joined
  BY <1>5, <1>6, <1>7 DEF add_waiter
<1> QED
  BY <1>8 DEF notify_message_waiters, w

\* store_and_subscribe_ack, as request r calls it, when it stores its message: the
\* notification comes before the subscription of r.
LEMMA StoredAwaitEffect ==
  ASSUME ListInv, NEW w, Wired(w, receiver),
         Meant(w, receiver, entries, home, awaits, acked_messages),
         NEW r \in Messages, r \in Calls, home[r] = None, receiver[r] = "none",
         NEW id \in Ids, NEW ttl \in Ttls, NEW ins \in insert(entries, id, r, now + ttl),
         LET n == notify_message_waiters(w, id) IN
           /\ value' = Given(n.sent, r)
           /\ \/ receiver' = Signalled(n.sent, n.dropped) /\ awaits' = awaits
              \/ /\ receiver' = [Signalled(n.sent, n.dropped) EXCEPT ![r] = "open"]
                 /\ awaits' = [awaits EXCEPT ![r] = r],
         entries' = ins.table, home' = [home EXCEPT ![r] = id],
         acked_messages' = acked_messages, now' \in {now} \cup LaterReadings
  PROVE  /\ Frame(r)
         /\ value'[r] = value[r]
         /\ home'[r] # None
         /\ \/ receiver'[r] = "none" /\ awaits'[r] = None
            \/ receiver'[r] = "open" /\ awaits'[r] = r
<1> DEFINE n == notify_message_waiters(w, id)
           rec == Signalled(n.sent, n.dropped)
<1>1. /\ Effect(r, rec, Given(n.sent, r), ins.table)
      /\ \A c \in Calls : receiver[c] # "open" => rec[c] = receiver[c] /\ Given(n.sent, r)[c] = value[c]
  BY PostEffect
<1>2. /\ value' = Given(n.sent, r)
      /\ \/ receiver' = rec /\ awaits' = awaits
         \/ /\ receiver' = [rec EXCEPT ![r] = "open"]
            /\ awaits' = [awaits EXCEPT ![r] = r]
  OBVIOUS
<1>3. rec \in [Calls -> ReceiverStates]
  BY InvContext, SignalledReceivers
<1> HIDE DEF n, rec
<1>4. /\ awaits \in [Calls -> Messages \cup {None}] /\ home \in [Messages -> Ids \cup {None}]
      /\ awaits[r] = None /\ now \in Int
  BY InvContext, IdleAwaitsNothing DEF ListInv, Meant
<1>5. \A c \in Calls \ {r} : receiver'[c] = rec[c] /\ awaits'[c] = awaits[c]
  BY <1>2, <1>3, <1>4
<1>6. Effect(r, receiver', value', entries')
  BY <1>1, <1>2, <1>5 DEF Effect
<1>7. /\ home'[r] # None
      /\ \A m \in Messages : home[m] # None => home'[m] = home[m]
      /\ \A m \in Messages \ {r} : home'[m] = home[m]
      /\ ~ClockJumps => now' >= now
  BY <1>4, RepositoryAssumption DEF LaterReadings
<1>8. Frame(r)
  BY <1>5, <1>6, <1>7 DEF Frame
<1> QED
  BY <1>1, <1>2, <1>3, <1>4, <1>7, <1>8

\* store_and_subscribe_ack, as request r calls it: it waits for the ACK of its own
\* message, or is told that nothing was stored, or that what was stored is lapsed.
LEMMA PostAwaitEffect ==
  ASSUME ListInv, GivenPosted, Slim(waiters, max_entries),
         NEW r \in Messages, r \in Calls, home[r] = None, receiver[r] = "none",
         NEW id \in Ids, NEW ttl \in Ttls, NEW res,
         store_and_subscribe_ack(r, id, r, ttl, res)
  PROVE  /\ Frame(r)
         /\ value'[r] = value[r] /\ acked_messages' = acked_messages
         /\ value' = value \/ home'[r] # None
         /\ res = "Waiting" => receiver'[r] = "open" /\ awaits'[r] = r
         /\ res # "Waiting" => receiver'[r] = "none" /\ awaits'[r] = None
         /\ res \in {"WaiterLimitReached", "StoreFull"} => Unseen(r)'
         /\ res = "NotFound" /\ ~StorageErrors => Over(r)'
<1> DEFINE s == ensure_waiter_capacity(ListState, id)
           n == notify_message_waiters(s.waiters, id)
           rec == Signalled(n.sent, n.dropped)
           after == [waiters |-> n.waiters, prune_due |-> s.prune_due]
<1>1. /\ Wired(s.waiters, receiver)
      /\ Meant(s.waiters, receiver, entries, home, awaits, acked_messages)
  BY EnsuredParts
<1>2. max_entries \in Nat /\ Slim(s.waiters, max_entries)
  BY SlimEnsured, RepositoryAssumption DEF ListInv, RepoTypeOK, ListState
<1>3. /\ Unseen(r) /\ awaits[r] = None /\ acked_messages' = acked_messages
      /\ r # None /\ now \in Int /\ home \in [Messages -> Ids \cup {None}]
  BY UnpostedUnseen, IdleAwaitsNothing, InvContext, RepositoryAssumption
  DEF store_and_subscribe_ack, ListInv, Meant
<1>4. CASE /\ ~room_for_producer(s, id)
           /\ res = "WaiterLimitReached"
           /\ UNCHANGED <<entries, now, receiver, value, home, awaits>>
  <2>1. Frame(r)
    BY <1>3, <1>4, StillEffect
  <2> QED
    BY <1>3, <1>4, <2>1 DEF Unseen
<1>5. CASE room_for_producer(s, id)
  <2>1. PICK ins \in insert(entries, id, r, now + ttl) :
          /\ entries' = ins.table
          /\ \/ /\ ins.outcome = "StoreFull"
                /\ res = "StoreFull"
                /\ UNCHANGED <<now, receiver, value, awaits>>
             \/ /\ ins.outcome = "Error"
                /\ res = "Error"
                /\ receiver' = rec
                /\ value' = Given(n.sent, r)
                /\ UNCHANGED <<now, awaits>>
             \/ /\ ins.outcome = "Stored"
                /\ value' = Given(n.sent, r)
                /\ now' \in {now} \cup LaterReadings
                /\ subscribe_stored(r, id, ins.table, after, n, now', res)
    BY <1>5 DEF store_and_subscribe_ack
  <2>2. home' = [home EXCEPT ![r] = id]
    BY <1>5 DEF store_and_subscribe_ack
  <2>3. add_waiter(after, id, "ack", r).joined
    BY <1>2, <1>5, RoomAfterNotify
  <2> HIDE DEF s, after
  <2>4. CASE ins.outcome = "StoreFull"
    <3>1. PICK G : ins.table = Without(entries, G)
      BY <2>4, InvContext, InsertShape
    <3>2. /\ DOMAIN entries' \subseteq DOMAIN entries
          /\ \A j \in DOMAIN entries' : entries'[j] = entries[j]
      BY <2>1, <3>1 DEF Without, Restrict
    <3>3. Effect(r, receiver', value', entries')
      <4>1. \A c \in Calls : receiver[c] = "open" => receiver'[c] \in {"open"}
        BY <2>1, <2>4
      <4> QED
        BY <2>1, <2>4, <3>2, <4>1 DEF Effect
    <3>4. home'[r] # None
      BY <1>3, <2>2, RepositoryAssumption
    <3>5. Frame(r)
      BY <1>3, <2>1, <2>2, <2>4, <3>3 DEF Frame
    <3>6. Unseen(r)'
      BY <1>3, <2>1, <2>4, <3>2 DEF Unseen
    <3> QED
      BY <1>3, <2>1, <2>4, <3>4, <3>5, <3>6
  <2>5. ASSUME value' = Given(n.sent, r),
               \/ receiver' = rec /\ awaits' = awaits
               \/ /\ receiver' = [rec EXCEPT ![r] = "open"]
                  /\ awaits' = [awaits EXCEPT ![r] = r],
               now' \in {now} \cup LaterReadings
        PROVE  /\ Frame(r)
               /\ value'[r] = value[r]
               /\ home'[r] # None
               /\ \/ receiver'[r] = "none" /\ awaits'[r] = None
                  \/ receiver'[r] = "open" /\ awaits'[r] = r
    BY <1>1, <1>3, <2>1, <2>2, <2>5, StoredAwaitEffect
  <2>6. CASE ins.outcome = "Error"
    <3>1. receiver' = rec /\ awaits' = awaits /\ res = "Error"
      BY <2>1, <2>6
    <3>2. rec[r] = "none"
      BY DEF Signalled
    <3> HIDE DEF rec, n
    <3> QED
      BY <1>3, <2>1, <2>5, <2>6, <3>1, <3>2
  <2>7. CASE ins.outcome = "Stored"
    <3>1. id \in DOMAIN ins.table /\ ins.table[id].body = r
      BY <1>3, <2>7, InvContext, StoredRow
    <3>2. \/ /\ res = "NotFound"
             /\ receiver' = rec /\ awaits' = awaits
             /\ ~StorageErrors => is_expired(ins.table[id], now')
          \/ /\ res = "Waiting"
             /\ receiver' = [rec EXCEPT ![r] = "open"]
             /\ awaits' = [awaits EXCEPT ![r] = r]
      BY <2>1, <2>3, <2>7, <3>1 DEF subscribe_stored, ReadFaults, Readable
    <3>3. /\ Frame(r)
          /\ value'[r] = value[r]
          /\ home'[r] # None
      BY <2>1, <2>5, <2>7, <3>2
    <3>4. rec \in [Calls -> ReceiverStates] /\ rec[r] = "none" /\ awaits \in [Calls -> Messages \cup {None}]
      BY InvContext, SignalledReceivers DEF ListInv, Meant
    <3>5. IF res = "Waiting" THEN receiver'[r] = "open" /\ awaits'[r] = r
                             ELSE receiver'[r] = "none" /\ awaits'[r] = None
      BY <1>3, <3>2, <3>4
    <3>6. ASSUME res = "NotFound", ~StorageErrors
          PROVE  Over(r)'
      <4>1. PICK G : ins.table = Put(Without(entries, G), id, NewEntry(r, now + ttl))
        BY <1>3, <2>7, InvContext, InsertShape
      <4>2. \A j \in DOMAIN entries' : entries'[j].body = r => j = id
        BY <1>3, <2>1, <4>1 DEF Put, Without, Restrict, Unseen
      <4>3. entries'[id].expires_at = now + ttl /\ now + ttl \in Int /\ now' \in Int
        BY <1>3, <2>1, <2>7, <4>1, InvContext DEF Put, NewEntry, LaterReadings
      <4> QED
        BY <2>1, <3>2, <3>6, <4>2, <4>3 DEF Over, is_expired
    <3> QED
      BY <1>3, <3>2, <3>3, <3>5, <3>6
  <2> QED
    BY <2>1, <2>4, <2>6, <2>7
<1> QED
  BY <1>4, <1>5 DEF store_and_subscribe_ack

(***************************************************************************)
(* What a step of request r leaves to the others.                          *)
(***************************************************************************)

\* The requests of one kind are not of another.
LEMMA KindsAreApart ==
  /\ LinkGets \cap (LinkPosts \cup InboxAwaits \cup InboxDeletes \cup InboxAcks \cup InboxGets) = {}
  /\ LinkPosts \cap (InboxAwaits \cup InboxPosts \cup InboxDeletes \cup InboxGets \cup InboxAcks) = {}
  /\ InboxAwaits \cap (InboxPosts \cup InboxDeletes \cup InboxGets \cup InboxAcks) = {}
  /\ Messages \cap (InboxAwaits \cup InboxDeletes \cup InboxGets \cup InboxAcks \cup LinkGets) = {}
  /\ InboxGets \cap (InboxDeletes \cup InboxAcks) = {}
  /\ InboxDeletes \cap InboxAcks = {}
<1> DEFINE K == RequestKinds
<1>1. \A i, j \in 1..7 : i # j => K[i] \cap K[j] = {}
  BY RelayAssumption
<1>2. /\ K[1] = InboxPosts /\ K[2] = InboxGets /\ K[3] = InboxDeletes /\ K[4] = InboxAcks
      /\ K[5] = InboxAwaits /\ K[6] = LinkPosts /\ K[7] = LinkGets
  BY DEF RequestKinds
<1>3. Messages = K[1] \cup K[6]
  BY <1>2, RelayAssumption
<1> HIDE DEF K
<1>4. /\ \A j \in {1, 2, 3, 4, 5, 7} : K[6] \cap K[j] = {}
      /\ \A j \in {1, 2, 3, 4, 6, 7} : K[5] \cap K[j] = {}
      /\ \A j \in {2, 3, 4, 5, 6, 7} : K[1] \cap K[j] = {}
      /\ \A j \in {2, 3, 4, 5, 6} : K[7] \cap K[j] = {}
      /\ \A j \in {3, 4} : K[2] \cap K[j] = {}
      /\ K[3] \cap K[4] = {}
  BY <1>1
<1> QED
  BY <1>2, <1>3, <1>4

\* The step is of request r: no other request moves.
OnlyMoves(r) ==
  \A c \in Requests \ {r} : pc'[c] = pc[c] /\ target'[c] = target[c] /\ reply'[c] = reply[c]

\* A request that does not move is as before.
LEMMA OthersKeep ==
  ASSUME HandlersInv, NEW r, Frame(r), OnlyMoves(r), NEW c \in Requests \ {r}
  PROVE  RequestOK(c)' /\ AnswerOK(c)'
<1>1. /\ RequestOK(c) /\ AnswerOK(c) /\ c \in Calls
      /\ pc'[c] = pc[c] /\ target'[c] = target[c] /\ reply'[c] = reply[c] /\ awaits'[c] = awaits[c]
  BY RelayAssumption DEF HandlersInv, OnlyMoves, Frame
<1>2. /\ receiver[c] # "open" => receiver'[c] = receiver[c] /\ value'[c] = value[c]
      /\ receiver[c] = "open" => receiver'[c] \in {"open", "sent", "dropped"}
      /\ receiver[c] = "open" /\ receiver'[c] = "sent" /\ awaits[c] = None => value'[c] # None
  BY <1>1 DEF Frame, Effect
<1>3. c \in InboxGets \cup LinkGets => awaits[c] = None
  BY <1>1, KindsAreApart DEF RequestOK
<1>4. c \in Messages => home'[c] = home[c]
  BY DEF Frame
<1>5. RequestOK(c)'
  BY <1>1, <1>2, <1>3, <1>4 DEF RequestOK
<1>6. ASSUME c \in Messages, Unseen(c)
      PROVE  Unseen(c)'
  <2>1. c # None /\ Requests = Calls
    BY RelayAssumption
  <2> QED
    BY <1>6, <2>1 DEF Unseen, Frame, Effect
<1>7. awaits[c] \in acked_messages => awaits'[c] \in acked_messages'
  BY <1>1 DEF Frame
<1>8. AnswerOK(c)'
  BY <1>1, <1>6, <1>7 DEF AnswerOK
<1> QED
  BY <1>5, <1>8

\* What is handed over was posted.
LEMMA GivenKeep ==
  ASSUME HandlersInv, NEW r, Frame(r), r \in Messages /\ value' # value => home'[r] # None,
         value' \in [Calls -> Messages \cup {None}]
  PROVE  GivenPosted'
<1> SUFFICES ASSUME NEW c \in Requests, value'[c] # None
             PROVE  home'[value'[c]] # None
  BY DEF GivenPosted
<1>1. c \in Calls /\ value'[c] \in Messages /\ value \in [Calls -> Messages \cup {None}]
  BY RelayAssumption DEF HandlersInv, ListInv
<1>2. CASE value'[c] = value[c]
  BY <1>1, <1>2 DEF HandlersInv, GivenPosted, Frame
<1>3. CASE value'[c] # value[c] /\ value'[c] = r
  BY <1>1, <1>3
<1>4. ASSUME NEW id \in DOMAIN entries, entries[id].body = value'[c]
      PROVE  home'[value'[c]] # None
  <2>1. home[value'[c]] = id /\ id # None
    BY <1>1, <1>4, RepositoryAssumption
    DEF HandlersInv, ListInv, Meant, WellFormed, IsTable
  <2> QED
    BY <1>1, <2>1 DEF Frame
<1> QED
  BY <1>1, <1>2, <1>3, <1>4 DEF Frame, Effect

\* A consumer that accounts for an acknowledgment goes on doing so.
LEMMA ConsumersKeep ==
  ASSUME RelayInv, NEW r, Frame(r),
         \A c \in Requests : /\ pc[c] # "arrived" => target'[c] = target[c]
                             /\ reply[c] # "none" => reply'[c] = reply[c],
         \A m \in acked_messages' \ acked_messages :
           \/ \E d \in InboxDeletes : target'[d] = home[m] /\ reply'[d] = "OK"
           \/ \E g \in LinkGets : target'[g] = home[m] /\ value'[g] # None,
         r \in Requests => value'[r] = value[r] \/ value'[r] # None
  PROVE  AckHasConsumer'
<1> SUFFICES ASSUME NEW m \in acked_messages'
             PROVE  \/ \E d \in InboxDeletes : target'[d] = home'[m] /\ reply'[d] = "OK"
                    \/ \E g \in LinkGets : target'[g] = home'[m] /\ value'[g] # None
  BY DEF AckHasConsumer
<1>1. m \in Messages /\ home[m] # None /\ home'[m] = home[m]
  <2>1. m \in acked_messages => m \in Messages /\ home[m] # None
    BY DEF RelayInv, HandlersInv, ListInv, Meant
  <2>2. ASSUME m \notin acked_messages
        PROVE  m \in Messages /\ home[m] # None
    <3>1. PICK id \in DOMAIN entries : entries[id].body = m /\ m # None
      BY <2>2 DEF Frame
    <3>2. id # None /\ m \in Messages
      BY <3>1, RepositoryAssumption DEF RelayInv, HandlersInv, ListInv, Meant, WellFormed, IsTable, Entry
    <3> QED
      BY <3>1, <3>2 DEF RelayInv, HandlersInv, ListInv, Meant
  <2>3. m \in Messages /\ home[m] # None
    BY <2>1, <2>2
  <2> QED
    BY <2>3 DEF Frame
<1>2. CASE m \notin acked_messages
  BY <1>1, <1>2
<1>3. CASE m \in acked_messages
  <2>1. \A c \in Requests :
          /\ value[c] # None => value'[c] # None
          /\ reply[c] # "none" \/ value[c] # None => target'[c] = target[c]
    BY RelayAssumption DEF RelayInv, HandlersInv, RequestOK, Frame, Effect
  <2>2. InboxDeletes \subseteq Requests /\ LinkGets \subseteq Requests
    BY DEF Requests
  <2>3. \/ \E d \in InboxDeletes : target[d] = home[m] /\ reply[d] = "OK"
        \/ \E g \in LinkGets : target[g] = home[m] /\ value[g] # None
    BY <1>3 DEF RelayInv, AckHasConsumer
  <2> QED
    BY <1>1, <2>1, <2>2, <2>3
<1> QED
  BY <1>2, <1>3

(***************************************************************************)
(* The steps of the handlers.                                              *)
(***************************************************************************)

\* A step of request r keeps what the invariant says of r and accounts for what it did.
Handled(r) ==
  /\ Frame(r) /\ OnlyMoves(r) /\ RelayTypes'
  /\ RequestOK(r)' /\ AnswerOK(r)'
  /\ pc[r] # "arrived" => target'[r] = target[r]
  /\ reply[r] # "none" => reply'[r] = reply[r]
  /\ value'[r] = value[r] \/ value'[r] # None
  /\ r \in Messages /\ value' # value => home'[r] # None
  /\ \A m \in acked_messages' \ acked_messages :
       \/ \E d \in InboxDeletes : target'[d] = home[m] /\ reply'[d] = "OK"
       \/ \E g \in LinkGets : target'[g] = home[m] /\ value'[g] # None
  /\ ~StorageErrors /\ DroppedOK(r) /\ NotFoundOK(r) => DroppedOK(r)' /\ NotFoundOK(r)'

\* How an answer moves the request.
LEMMA AnswerMoves ==
  ASSUME RelayTypes, NEW r \in Requests, NEW code \in Replies, Answer(r, code),
         \/ \E id \in Ids : target' = [target EXCEPT ![r] = id]
         \/ UNCHANGED target
  PROVE  RelayTypes' /\ OnlyMoves(r) /\ pc'[r] = "done" /\ reply'[r] = code
BY DEF RelayTypes, Answer, OnlyMoves

\* How a request that does not answer yet moves.
LEMMA ProceedMoves ==
  ASSUME RelayTypes, NEW r \in Requests, NEW where \in {"waiting", "acking", "gone"},
         Proceed(r, where),
         \/ \E id \in Ids : target' = [target EXCEPT ![r] = id]
         \/ UNCHANGED target
  PROVE  RelayTypes' /\ OnlyMoves(r) /\ pc'[r] = where /\ reply'[r] = reply[r]
BY DEF RelayTypes, Proceed, OnlyMoves

\* What is known of a request whose handler has not started.
LEMMA ArrivedFacts ==
  ASSUME HandlersInv, NEW r \in Requests, NEW id \in Ids, Handle(r, id)
  PROVE  /\ RelayTypes /\ ListInv /\ GivenPosted /\ Slim(waiters, max_entries)
         /\ r \in Calls /\ receiver[r] = "none" /\ value[r] = None /\ awaits[r] = None
         /\ reply[r] = "none" /\ pc[r] = "arrived"
         /\ r \in Messages => home[r] = None
         /\ target' = [target EXCEPT ![r] = id] /\ target'[r] = id
<1>1. RelayTypes /\ ListInv /\ RequestOK(r) /\ r \in Calls /\ pc[r] = "arrived"
  BY RelayAssumption DEF HandlersInv, Handle
<1>2. reply[r] = "none" /\ target'[r] = id
  BY <1>1 DEF RequestOK, Handle, RelayTypes
<1> QED
  BY <1>1, <1>2, IdleAwaitsNothing DEF HandlersInv, RequestOK, Handle

\* POST /inbox.
LEMMA InboxPostHandled ==
  ASSUME HandlersInv, NEW r \in InboxPosts, NEW id \in Ids, inbox_post(r, id)
  PROVE  Handled(r)
<1>1. PICK res \in {"Stored", "StoreFull", "Error"}, code \in {"OK", "AtCapacity", "StorageFailed"} :
        /\ store(id, r, InboxTtl, res) /\ Answer(r, code)
        /\ code = "AtCapacity" => res = "StoreFull"
  BY DEF inbox_post
<1>2. r \in Requests /\ r \in Messages /\ InboxTtl \in Ttls /\ Handle(r, id)
  BY RelayAssumption DEF Requests, inbox_post
<1>3. /\ RelayTypes' /\ OnlyMoves(r) /\ pc'[r] = "done" /\ reply'[r] = code
      /\ pc[r] = "arrived" /\ reply[r] = "none"
  BY <1>1, <1>2, ArrivedFacts, AnswerMoves DEF Replies
<1>4. /\ Frame(r)
      /\ receiver'[r] = "none" /\ value'[r] = value[r] /\ awaits'[r] = None
      /\ home'[r] # None
      /\ acked_messages' = acked_messages
      /\ res = "StoreFull" => Unseen(r)'
  BY <1>1, <1>2, ArrivedFacts, StoreEffect
<1>5. r \notin LinkPosts \cup InboxAwaits \cup InboxGets \cup LinkGets
  BY <1>2, KindsAreApart
<1>6. RequestOK(r)' /\ AnswerOK(r)'
  BY <1>1, <1>3, <1>4, <1>5 DEF RequestOK, AnswerOK
<1>7. DroppedOK(r)' /\ NotFoundOK(r)'
  BY <1>1, <1>3, <1>4 DEF DroppedOK, NotFoundOK
<1> QED
  BY <1>3, <1>4, <1>6, <1>7 DEF Handled

\* GET /inbox and the first part of GET /link.
LEMMA GetHandled ==
  ASSUME HandlersInv, NEW r \in InboxGets \cup LinkGets, NEW id \in Ids,
         (r \in InboxGets /\ inbox_get(r, id)) \/ (r \in LinkGets /\ link_get(r, id))
  PROVE  Handled(r)
<1>1. PICK res \in {"Message", "Waiting", "WaiterLimitReached"} :
        /\ get_or_subscribe(r, id, res)
        /\ \/ /\ res = "Message"
              /\ (r \in InboxGets /\ Answer(r, "OK")) \/ (r \in LinkGets /\ Proceed(r, "acking"))
           \/ res = "Waiting" /\ Proceed(r, "waiting")
           \/ res = "WaiterLimitReached" /\ Answer(r, "TooMany")
  BY DEF inbox_get, link_get
<1>2. r \in Requests /\ Handle(r, id)
  BY DEF Requests, inbox_get, link_get
<1>3. /\ r \in Calls /\ receiver[r] = "none" /\ value[r] = None /\ awaits[r] = None
      /\ reply[r] = "none" /\ pc[r] = "arrived" /\ target'[r] = id
      /\ RelayTypes /\ target' = [target EXCEPT ![r] = id]
  BY <1>2, ArrivedFacts
<1>4. /\ RelayTypes' /\ OnlyMoves(r)
      /\ \/ res = "Message" /\ r \in InboxGets /\ pc'[r] = "done" /\ reply'[r] = "OK"
         \/ res = "Message" /\ r \in LinkGets /\ pc'[r] = "acking" /\ reply'[r] = "none"
         \/ res = "Waiting" /\ pc'[r] = "waiting" /\ reply'[r] = "none"
         \/ res = "WaiterLimitReached" /\ pc'[r] = "done" /\ reply'[r] = "TooMany"
  BY <1>1, <1>2, <1>3, AnswerMoves, ProceedMoves DEF Replies
<1>5. /\ Frame(r)
      /\ UNCHANGED <<entries, home, awaits, acked_messages>>
      /\ res = "Message" => receiver'[r] = "sent" /\ value'[r] # None
      /\ res = "Waiting" => receiver'[r] = "open"
      /\ res = "WaiterLimitReached" => receiver'[r] = "none"
  BY <1>1, <1>2, <1>3, GetEffect DEF HandlersInv
<1>6. r \notin LinkPosts \cup InboxAwaits \cup InboxPosts \cup InboxDeletes \cup Messages
  BY KindsAreApart, RelayAssumption
<1>7. RequestOK(r)' /\ AnswerOK(r)'
  BY <1>3, <1>4, <1>5, <1>6 DEF RequestOK, AnswerOK
<1>8. DroppedOK(r)' /\ NotFoundOK(r)'
  BY <1>3, <1>4, <1>5, <1>6 DEF DroppedOK, NotFoundOK
<1> QED
  BY <1>3, <1>4, <1>5, <1>6, <1>7, <1>8 DEF Handled

\* DELETE /inbox.
LEMMA InboxDeleteHandled ==
  ASSUME HandlersInv, NEW r \in InboxDeletes, NEW id \in Ids, inbox_delete(r, id)
  PROVE  Handled(r)
<1>1. PICK res \in {"Acked", "NotFound"}, code \in {"OK", "NotFound"} :
        /\ ack(id, res) /\ Answer(r, code)
        /\ res = "Acked" => code = "OK"
  BY DEF inbox_delete
<1>2. /\ r \in Requests /\ Handle(r, id)
      /\ r \notin LinkPosts \cup InboxAwaits \cup InboxGets \cup LinkGets \cup Messages
  BY KindsAreApart DEF Requests, inbox_delete
<1>3. /\ r \in Calls /\ receiver[r] = "none" /\ value[r] = None /\ awaits[r] = None
      /\ reply[r] = "none" /\ pc[r] = "arrived" /\ target'[r] = id /\ ListInv
  BY <1>2, ArrivedFacts
<1>4. RelayTypes' /\ OnlyMoves(r) /\ pc'[r] = "done" /\ reply'[r] = code
  BY <1>1, <1>2, ArrivedFacts, AnswerMoves DEF Replies
<1>5. /\ Frame(r) /\ receiver'[r] = "none"
      /\ UNCHANGED <<value, awaits, home>>
      /\ \A m \in acked_messages' \ acked_messages : home[m] = id /\ res = "Acked"
  BY <1>1, <1>3, AckEffect
<1>6. RequestOK(r)' /\ AnswerOK(r)'
  BY <1>2, <1>3, <1>4, <1>5 DEF RequestOK, AnswerOK
<1>7. DroppedOK(r)' /\ NotFoundOK(r)'
  BY <1>2, <1>3, <1>4, <1>5 DEF DroppedOK, NotFoundOK
<1> QED
  BY <1>1, <1>2, <1>3, <1>4, <1>5, <1>6, <1>7 DEF Handled

\* GET /inbox/{id}/ack.
LEMMA InboxAckHandled ==
  ASSUME HandlersInv, NEW r \in InboxAcks, NEW id \in Ids, inbox_ack(r, id)
  PROVE  Handled(r)
<1>1. PICK code \in {"OK", "false", "NotFound"} : Answer(r, code) /\ UNCHANGED list_vars
  BY DEF inbox_ack
<1>2. /\ r \in Requests /\ Handle(r, id)
      /\ r \notin LinkPosts \cup InboxAwaits \cup InboxGets \cup LinkGets \cup Messages
  BY KindsAreApart DEF Requests, inbox_ack
<1>3. /\ r \in Calls /\ receiver[r] = "none" /\ value[r] = None /\ awaits[r] = None
      /\ reply[r] = "none" /\ pc[r] = "arrived" /\ ListInv
  BY <1>2, ArrivedFacts
<1>4. RelayTypes' /\ OnlyMoves(r) /\ pc'[r] = "done" /\ reply'[r] = code
  BY <1>1, <1>2, ArrivedFacts, AnswerMoves DEF Replies
<1>5. UNCHANGED <<entries, now, receiver, value, awaits, home, acked_messages>>
  BY <1>1 DEF list_vars
<1>6. Frame(r)
  BY <1>3, <1>5, StillEffect
<1>7. RequestOK(r)' /\ AnswerOK(r)' /\ DroppedOK(r)' /\ NotFoundOK(r)'
  BY <1>2, <1>3, <1>4, <1>5 DEF RequestOK, AnswerOK, DroppedOK, NotFoundOK
<1> QED
  BY <1>2, <1>3, <1>4, <1>5, <1>6, <1>7 DEF Handled

\* GET /inbox/{id}/await.
LEMMA InboxAwaitHandled ==
  ASSUME HandlersInv, NEW r \in InboxAwaits, NEW id \in Ids, inbox_await(r, id)
  PROVE  Handled(r)
<1>1. /\ r \in Requests /\ Handle(r, id)
      /\ r \notin LinkPosts \cup LinkGets \cup InboxPosts \cup InboxGets \cup InboxDeletes \cup Messages
  BY KindsAreApart DEF Requests, inbox_await
<1>2. /\ r \in Calls /\ receiver[r] = "none" /\ value[r] = None /\ awaits[r] = None
      /\ reply[r] = "none" /\ pc[r] = "arrived" /\ target'[r] = id /\ ListInv
      /\ RelayTypes /\ target' = [target EXCEPT ![r] = id]
  BY <1>1, ArrivedFacts
<1>3. CASE Answer(r, "OK") /\ UNCHANGED list_vars
  <2>1. RelayTypes' /\ OnlyMoves(r) /\ pc'[r] = "done" /\ reply'[r] = "OK"
    BY <1>1, <1>2, <1>3, AnswerMoves DEF Replies
  <2>2. UNCHANGED <<entries, now, receiver, value, awaits, home, acked_messages>>
    BY <1>3 DEF list_vars
  <2>3. Frame(r)
    BY <1>2, <2>2, StillEffect
  <2>4. RequestOK(r)' /\ AnswerOK(r)' /\ DroppedOK(r)' /\ NotFoundOK(r)'
    BY <1>1, <1>2, <2>1, <2>2 DEF RequestOK, AnswerOK, DroppedOK, NotFoundOK
  <2> QED
    BY <1>1, <1>2, <2>1, <2>2, <2>3, <2>4 DEF Handled
<1>4. ASSUME NEW res, subscribe_ack(r, id, res),
             \/ res = "Waiting" /\ Proceed(r, "waiting")
             \/ res # "Waiting" /\ \E code \in {"NotFound", "TooMany"} : Answer(r, code)
      PROVE  Handled(r)
  <2>1. /\ RelayTypes' /\ OnlyMoves(r)
        /\ \/ res = "Waiting" /\ pc'[r] = "waiting" /\ reply'[r] = "none"
           \/ res # "Waiting" /\ pc'[r] = "done" /\ reply'[r] \in {"NotFound", "TooMany"}
    BY <1>1, <1>2, <1>4, AnswerMoves, ProceedMoves DEF Replies
  <2>2. /\ Frame(r)
        /\ UNCHANGED <<entries, value, home, acked_messages>>
        /\ IF res = "Waiting" THEN receiver'[r] \in {"open", "sent"}
                              ELSE receiver'[r] = "none" /\ awaits'[r] = None
        /\ receiver'[r] = "open" => awaits'[r] # None
    BY <1>2, <1>4, SubscribeAckEffect
  <2>3. RequestOK(r)' /\ AnswerOK(r)'
    BY <1>1, <1>2, <2>1, <2>2 DEF RequestOK, AnswerOK
  <2>4. DroppedOK(r)' /\ NotFoundOK(r)'
    BY <1>1, <1>2, <2>1, <2>2 DEF DroppedOK, NotFoundOK
  <2> QED
    BY <1>1, <1>2, <2>1, <2>2, <2>3, <2>4 DEF Handled
<1> QED
  BY <1>3, <1>4 DEF inbox_await

\* POST /link.
LEMMA LinkPostHandled ==
  ASSUME HandlersInv, NEW r \in LinkPosts, NEW id \in Ids, link_post(r, id)
  PROVE  Handled(r)
<1>1. PICK res \in {"Waiting", "WaiterLimitReached", "StoreFull", "NotFound", "Error"} :
        /\ store_and_subscribe_ack(r, id, r, LinkTimeout, res)
        /\ \/ res = "Waiting" /\ Proceed(r, "waiting")
           \/ res = "WaiterLimitReached" /\ Answer(r, "TooMany")
           \/ res = "StoreFull" /\ Answer(r, "AtCapacity")
           \/ res = "NotFound" /\ Answer(r, "NotFound")
           \/ res = "Error" /\ Answer(r, "StorageFailed")
  BY DEF link_post
<1>2. /\ r \in Requests /\ r \in Messages /\ LinkTimeout \in Ttls /\ Handle(r, id)
      /\ r \notin LinkGets \cup InboxPosts \cup InboxGets \cup InboxDeletes \cup InboxAwaits
  BY RelayAssumption, KindsAreApart DEF Requests, link_post
<1>3. /\ r \in Calls /\ receiver[r] = "none" /\ value[r] = None /\ awaits[r] = None
      /\ reply[r] = "none" /\ pc[r] = "arrived" /\ target'[r] = id /\ home[r] = None
      /\ RelayTypes /\ target' = [target EXCEPT ![r] = id] /\ r # None
  BY <1>2, ArrivedFacts, RepositoryAssumption
<1>4. /\ RelayTypes' /\ OnlyMoves(r)
      /\ \/ res = "Waiting" /\ pc'[r] = "waiting" /\ reply'[r] = "none"
         \/ res = "WaiterLimitReached" /\ pc'[r] = "done" /\ reply'[r] = "TooMany"
         \/ res = "StoreFull" /\ pc'[r] = "done" /\ reply'[r] = "AtCapacity"
         \/ res = "NotFound" /\ pc'[r] = "done" /\ reply'[r] = "NotFound"
         \/ res = "Error" /\ pc'[r] = "done" /\ reply'[r] = "StorageFailed"
  BY <1>1, <1>2, <1>3, AnswerMoves, ProceedMoves DEF Replies
<1>5. /\ Frame(r)
      /\ value'[r] = value[r] /\ acked_messages' = acked_messages
      /\ value' = value \/ home'[r] # None
      /\ res = "Waiting" => receiver'[r] = "open" /\ awaits'[r] = r
      /\ res # "Waiting" => receiver'[r] = "none" /\ awaits'[r] = None
      /\ res \in {"WaiterLimitReached", "StoreFull"} => Unseen(r)'
      /\ res = "NotFound" /\ ~StorageErrors => Over(r)'
  BY <1>1, <1>2, <1>3, ArrivedFacts, PostAwaitEffect
<1>6. RequestOK(r)' /\ AnswerOK(r)'
  BY <1>2, <1>3, <1>4, <1>5 DEF RequestOK, AnswerOK
<1>7. ~StorageErrors => DroppedOK(r)' /\ NotFoundOK(r)'
  BY <1>3, <1>4, <1>5 DEF DroppedOK, NotFoundOK
<1> QED
  BY <1>3, <1>4, <1>5, <1>6, <1>7 DEF Handled

\* The second part of GET /link.
LEMMA LinkAutoAckHandled ==
  ASSUME HandlersInv, NEW r \in LinkGets, link_auto_ack(r)
  PROVE  Handled(r)
<1>1. PICK res \in Results : ack(target[r], res) /\ Answer(r, "OK") /\ UNCHANGED target
  BY DEF link_auto_ack
<1>2. /\ r \in Requests /\ r \in Calls
      /\ r \notin LinkPosts \cup InboxAwaits \cup InboxGets \cup Messages
      /\ pc[r] = "acking" /\ RequestOK(r) /\ ListInv /\ RelayTypes
  BY KindsAreApart, RelayAssumption DEF Requests, HandlersInv, link_auto_ack
<1>3. /\ target[r] \in Ids /\ reply[r] = "none" /\ receiver[r] # "open" /\ value[r] # None
      /\ awaits[r] = None
  BY <1>2 DEF RequestOK
<1>4. RelayTypes' /\ OnlyMoves(r) /\ pc'[r] = "done" /\ reply'[r] = "OK"
  BY <1>1, <1>2, AnswerMoves DEF Replies
<1>5. /\ Frame(r) /\ receiver'[r] = receiver[r]
      /\ UNCHANGED <<value, awaits, home>>
      /\ \A m \in acked_messages' \ acked_messages : home[m] = target[r]
  BY <1>1, <1>2, <1>3, AckEffect
<1>6. RequestOK(r)' /\ AnswerOK(r)' /\ DroppedOK(r)' /\ NotFoundOK(r)'
  BY <1>2, <1>3, <1>4, <1>5 DEF RequestOK, AnswerOK, DroppedOK, NotFoundOK
<1> QED
  BY <1>1, <1>2, <1>3, <1>4, <1>5, <1>6 DEF Handled

\* A request that is refused before it reaches the list.
LEMMA RefuseHandled ==
  ASSUME HandlersInv, NEW r \in Requests, refuse(r)
  PROVE  Handled(r)
<1>1. /\ RequestOK(r) /\ ListInv /\ RelayTypes /\ r \in Calls /\ pc[r] = "arrived"
      /\ UNCHANGED <<entries, now, receiver, value, awaits, home, acked_messages, target>>
  BY RelayAssumption DEF HandlersInv, refuse, list_vars
<1>2. /\ receiver[r] = "none" /\ value[r] = None /\ awaits[r] = None /\ reply[r] = "none"
  BY <1>1, IdleAwaitsNothing DEF RequestOK
<1>3. RelayTypes' /\ OnlyMoves(r) /\ pc'[r] = "done" /\ reply'[r] = "Refused"
  BY <1>1, AnswerMoves DEF refuse, Replies
<1>4. Frame(r)
  BY <1>1, StillEffect
<1>5. RequestOK(r)' /\ AnswerOK(r)' /\ DroppedOK(r)' /\ NotFoundOK(r)'
  BY <1>1, <1>2, <1>3 DEF RequestOK, AnswerOK, DroppedOK, NotFoundOK
<1> QED
  BY <1>1, <1>2, <1>3, <1>4, <1>5 DEF Handled

\* What is known of a request that waits.
LEMMA WaitingFacts ==
  ASSUME HandlersInv, NEW r \in Requests, pc[r] \in {"waiting", "acking"}
  PROVE  /\ RelayTypes /\ ListInv /\ RequestOK(r) /\ AnswerOK(r)
         /\ r \in Calls /\ target[r] \in Ids /\ reply[r] = "none"
         /\ receiver[r] = "sent" /\ awaits[r] # None => awaits[r] \in acked_messages
  BY RelayAssumption DEF HandlersInv, RequestOK, ListInv, Meant

\* A request whose receiver resolves.
LEMMA WakeHandled ==
  ASSUME HandlersInv, NEW r \in Requests, wake(r)
  PROVE  Handled(r)
<1>1. /\ RelayTypes /\ ListInv /\ RequestOK(r) /\ r \in Calls /\ target[r] \in Ids /\ reply[r] = "none"
      /\ receiver[r] = "sent" /\ awaits[r] # None => awaits[r] \in acked_messages
      /\ pc[r] = "waiting"
      /\ UNCHANGED <<entries, now, receiver, value, awaits, home, acked_messages, target>>
  BY WaitingFacts DEF wake, list_vars
<1>2. /\ RelayTypes' /\ OnlyMoves(r)
      /\ \/ receiver[r] = "sent" /\ r \in LinkGets /\ pc'[r] = "acking" /\ reply'[r] = "none"
         \/ receiver[r] = "sent" /\ r \notin LinkGets /\ pc'[r] = "done" /\ reply'[r] = "OK"
         \/ receiver[r] = "dropped" /\ pc'[r] = "done" /\ reply'[r] = "NotFound"
  BY <1>1, AnswerMoves, ProceedMoves DEF wake, Replies
<1>3. Frame(r)
  BY <1>1, StillEffect
<1>4. RequestOK(r)' /\ AnswerOK(r)'
  BY <1>1, <1>2 DEF RequestOK, AnswerOK
<1>5. DroppedOK(r) => DroppedOK(r)' /\ NotFoundOK(r)'
  BY <1>1, <1>2 DEF RequestOK, DroppedOK, NotFoundOK
<1> QED
  BY <1>1, <1>2, <1>3, <1>4, <1>5 DEF Handled

\* A request whose timer fires or whose client leaves.
LEMMA LeaveHandled ==
  ASSUME HandlersInv, NEW r \in Requests, time_out(r) \/ disconnect(r)
  PROVE  Handled(r)
<1>1. /\ pc[r] \in {"waiting", "acking"} /\ target' = target
      /\ Answer(r, "TimedOut") \/ Proceed(r, "gone")
      /\ CloseReceiver(r) \/ (receiver[r] # "open" /\ UNCHANGED list_vars)
  BY DEF time_out, disconnect, HandlersInv, RequestOK
<1>2. /\ RelayTypes /\ ListInv /\ RequestOK(r) /\ AnswerOK(r) /\ r \in Calls /\ reply[r] = "none"
  BY <1>1, WaitingFacts
<1>3. /\ RelayTypes' /\ OnlyMoves(r)
      /\ \/ pc'[r] = "done" /\ reply'[r] = "TimedOut"
         \/ pc'[r] = "gone" /\ reply'[r] = "none"
  BY <1>1, <1>2, AnswerMoves, ProceedMoves DEF Replies
<1>4. /\ Frame(r)
      /\ receiver'[r] = "closed" \/ (receiver[r] # "open" /\ receiver'[r] = receiver[r])
      /\ UNCHANGED <<entries, value, awaits, home, acked_messages>>
  BY <1>1, <1>2, CloseEffect, StillEffect DEF list_vars
<1>5. RequestOK(r)' /\ AnswerOK(r)'
  BY <1>1, <1>2, <1>3, <1>4 DEF RequestOK, AnswerOK
<1>6. DroppedOK(r) => DroppedOK(r)' /\ NotFoundOK(r)'
  BY <1>3, <1>4 DEF DroppedOK, NotFoundOK
<1> QED
  BY <1>1, <1>2, <1>3, <1>4, <1>5, <1>6 DEF Handled

(***************************************************************************)
(* The relay uses the waiting list as WaitingList.tla says it is used.     *)
(***************************************************************************)

\* What a handler does under the lock is an operation of the list, called by a request
\* that has no channel yet, with a message that was not posted yet.
LEMMA HandlerListStep ==
  ASSUME HandlersInv, NEW id \in Ids, NEW r \in Requests,
         \/ r \in InboxPosts /\ inbox_post(r, id)
         \/ r \in InboxGets /\ inbox_get(r, id)
         \/ r \in InboxDeletes /\ inbox_delete(r, id)
         \/ r \in InboxAcks /\ inbox_ack(r, id)
         \/ r \in InboxAwaits /\ inbox_await(r, id)
         \/ r \in LinkPosts /\ link_post(r, id)
         \/ r \in LinkGets /\ link_get(r, id)
  PROVE  [ListNext]_list_vars
<1>1. Handle(r, id)
  BY DEF inbox_post, inbox_get, inbox_delete, inbox_ack, inbox_await, link_post, link_get
<1>2. r \in Unused /\ (r \in Messages => r \in Unposted)
  BY <1>1, ArrivedFacts DEF Unused, Unposted
<1>3. /\ InboxPosts \subseteq Messages /\ LinkPosts \subseteq Messages
      /\ InboxTtl \in Ttls /\ LinkTimeout \in Ttls
  BY RelayAssumption
<1>4. CASE r \in InboxPosts /\ inbox_post(r, id)
  <2>1. \E res \in Results : store(id, r, InboxTtl, res)
    BY <1>4 DEF inbox_post, Results
  <2>2. StoreStep
    BY <1>2, <1>3, <1>4, <2>1 DEF StoreStep
  <2> QED
    BY <2>2 DEF ListNext
<1>5. CASE inbox_get(r, id) \/ link_get(r, id)
  <2>1. \E res \in Results : get_or_subscribe(r, id, res)
    BY <1>5 DEF inbox_get, link_get, Results
  <2>2. GetOrSubscribeStep
    BY <1>2, <2>1 DEF GetOrSubscribeStep
  <2> QED
    BY <2>2 DEF ListNext
<1>6. CASE inbox_delete(r, id)
  <2>1. \E res \in Results : ack(id, res)
    BY <1>6 DEF inbox_delete, Results
  <2> QED
    BY <2>1 DEF AckStep, ListNext
<1>7. CASE inbox_ack(r, id)
  BY <1>7 DEF inbox_ack
<1>8. CASE inbox_await(r, id)
  <2>1. UNCHANGED list_vars \/ \E res \in Results : subscribe_ack(r, id, res)
    BY <1>8 DEF inbox_await, Results
  <2>2. UNCHANGED list_vars \/ SubscribeAckStep
    BY <1>2, <2>1 DEF SubscribeAckStep
  <2> QED
    BY <2>2 DEF ListNext
<1>9. CASE r \in LinkPosts /\ link_post(r, id)
  <2>1. \E res \in Results : store_and_subscribe_ack(r, id, r, LinkTimeout, res)
    BY <1>9 DEF link_post, Results
  <2>2. StoreAndSubscribeStep
    BY <1>2, <1>3, <1>9, <2>1 DEF StoreAndSubscribeStep
  <2> QED
    BY <2>2 DEF ListNext
<1> QED
  BY <1>4, <1>5, <1>6, <1>7, <1>8, <1>9

\* Every step of the relay is a step of the list.
LEMMA RelayListStep ==
  ASSUME HandlersInv, [Next]_relay_vars
  PROVE  [ListNext]_list_vars
<1>1. ASSUME NEW id \in Ids, NEW r \in Requests,
             \/ r \in InboxPosts /\ inbox_post(r, id)
             \/ r \in InboxGets /\ inbox_get(r, id)
             \/ r \in InboxDeletes /\ inbox_delete(r, id)
             \/ r \in InboxAcks /\ inbox_ack(r, id)
             \/ r \in InboxAwaits /\ inbox_await(r, id)
             \/ r \in LinkPosts /\ link_post(r, id)
             \/ r \in LinkGets /\ link_get(r, id)
      PROVE  [ListNext]_list_vars
  BY <1>1, HandlerListStep
<1>2. ASSUME NEW r \in LinkGets, link_auto_ack(r)
      PROVE  [ListNext]_list_vars
  <2>1. target[r] \in Ids
    BY <1>2 DEF HandlersInv, RequestOK, link_auto_ack, Requests
  <2> QED
    BY <1>2, <2>1 DEF link_auto_ack, AckStep, ListNext
<1>3. ASSUME NEW r \in Requests, refuse(r) \/ wake(r) \/ time_out(r) \/ disconnect(r)
      PROVE  [ListNext]_list_vars
  <2>1. r \in Calls
    BY RelayAssumption
  <2>2. UNCHANGED list_vars \/ CloseReceiver(r)
    BY <1>3 DEF refuse, wake, time_out, disconnect
  <2> QED
    BY <2>1, <2>2 DEF ListNext
<1>4. CASE cleanup_task \/ restart \/ Passing \/ UNCHANGED relay_vars
  BY <1>4 DEF cleanup_task, restart, Passing, relay_vars, list_vars, ListNext
<1> QED
  BY <1>1, <1>2, <1>3, <1>4 DEF Next, Requests

(***************************************************************************)
(* The invariants are kept.                                                *)
(***************************************************************************)

\* A step in which no request moves.
Idle ==
  /\ Frame(None)
  /\ UNCHANGED <<value, acked_messages, pc, target, reply>>

\* A step is one of a request, one in which none moves, or a restart.
LEMMA StepKinds ==
  ASSUME HandlersInv, [Next]_relay_vars
  PROVE  (\E r \in Requests : Handled(r)) \/ Idle \/ restart
<1>1. ASSUME NEW id \in Ids, NEW r \in Requests,
             \/ r \in InboxPosts /\ inbox_post(r, id)
             \/ r \in InboxGets /\ inbox_get(r, id)
             \/ r \in InboxDeletes /\ inbox_delete(r, id)
             \/ r \in InboxAcks /\ inbox_ack(r, id)
             \/ r \in InboxAwaits /\ inbox_await(r, id)
             \/ r \in LinkPosts /\ link_post(r, id)
             \/ r \in LinkGets /\ link_get(r, id)
      PROVE  Handled(r)
  BY <1>1, InboxPostHandled, GetHandled, InboxDeleteHandled, InboxAckHandled,
     InboxAwaitHandled, LinkPostHandled
<1>2. ASSUME NEW r \in LinkGets, link_auto_ack(r)
      PROVE  Handled(r) /\ r \in Requests
  BY <1>2, LinkAutoAckHandled DEF Requests
<1>3. ASSUME NEW r \in Requests, refuse(r) \/ wake(r) \/ time_out(r) \/ disconnect(r)
      PROVE  Handled(r)
  BY <1>3, RefuseHandled, WakeHandled, LeaveHandled
<1>4. CASE cleanup_task
  BY <1>4, CleanupEffect DEF HandlersInv, cleanup_task, Idle
<1>5. CASE Passing \/ UNCHANGED relay_vars
  <2>1. /\ UNCHANGED <<entries, receiver, value, awaits, home, acked_messages, pc, target, reply>>
        /\ now' = now \/ now' \in LaterReadings
    BY <1>5 DEF Passing, relay_vars, ClockTick, Tick, PruneIntervalPasses
  <2> QED
    BY <2>1, StillEffect DEF HandlersInv, Idle
<1> QED
  BY <1>1, <1>2, <1>3, <1>4, <1>5 DEF Next, Requests

\* The invariant after a step of one request.
LEMMA HandledInv ==
  ASSUME HandlersInv, NEW r \in Requests, Handled(r), ListInv', Slim(waiters, max_entries)'
  PROVE  HandlersInv'
<1>1. /\ Frame(r) /\ OnlyMoves(r) /\ RelayTypes'
      /\ \A c \in Requests \ {r} :
           pc'[c] = pc[c] /\ target'[c] = target[c] /\ reply'[c] = reply[c]
  BY DEF Handled, OnlyMoves
<1>2. GivenPosted'
  <2>1. value' \in [Calls -> Messages \cup {None}]
    BY DEF ListInv
  <2> QED
    BY <1>1, <2>1, GivenKeep DEF Handled
<1>3. \A c \in Requests : RequestOK(c)' /\ AnswerOK(c)'
  BY <1>1, OthersKeep DEF Handled
<1> QED
  BY <1>1, <1>2, <1>3 DEF HandlersInv

\* The invariant after a step in which no request moves.
LEMMA IdleInv ==
  ASSUME HandlersInv, Idle, ListInv', Slim(waiters, max_entries)'
  PROVE  HandlersInv'
<1>1. Frame(None) /\ OnlyMoves(None) /\ None \notin Requests /\ None \notin Messages
  BY RelayAssumption, RepositoryAssumption DEF Idle, OnlyMoves
<1>2. GivenPosted'
  <2>1. value' \in [Calls -> Messages \cup {None}]
    BY DEF ListInv
  <2> QED
    BY <1>1, <2>1, GivenKeep
<1>3. \A c \in Requests : RequestOK(c)' /\ AnswerOK(c)'
  BY <1>1, OthersKeep
<1>4. RelayTypes'
  BY DEF HandlersInv, RelayTypes, Idle
<1> QED
  BY <1>2, <1>3, <1>4 DEF HandlersInv

\* A restart leaves no request in flight; nothing is stored that was not before.
LEMMA RestartFacts ==
  ASSUME HandlersInv, restart
  PROVE  /\ UNCHANGED <<now, value, home, awaits, acked_messages, target, reply>>
         /\ \A c \in Requests :
              /\ receiver'[c] = IF receiver[c] = "open" THEN "closed" ELSE receiver[c]
              /\ pc'[c] = IF pc[c] \in {"waiting", "acking"} THEN "gone" ELSE pc[c]
         /\ RelayTypes'
         /\ DOMAIN entries' \subseteq DOMAIN entries
         /\ \A id \in DOMAIN entries' : entries'[id] = entries[id]
<1>1. UNCHANGED <<now, value, home, awaits, acked_messages, target, reply>>
  BY DEF restart, Restart, Reopen
<1>2. \A c \in Requests :
        /\ receiver'[c] = IF receiver[c] = "open" THEN "closed" ELSE receiver[c]
        /\ pc'[c] = IF pc[c] \in {"waiting", "acking"} THEN "gone" ELSE pc[c]
  BY RelayAssumption DEF restart, Restart
<1>3. RelayTypes'
  BY DEF restart, HandlersInv, RelayTypes
<1>4. /\ DOMAIN entries' \subseteq DOMAIN entries
      /\ \A id \in DOMAIN entries' : entries'[id] = entries[id]
  BY DEF restart, Restart, Reopen
<1> QED
  BY <1>1, <1>2, <1>3, <1>4

\* The invariant after a restart.
LEMMA RestartHandlersInv ==
  ASSUME HandlersInv, restart, ListInv', Slim(waiters, max_entries)'
  PROVE  HandlersInv'
<1>1. GivenPosted'
  BY RestartFacts DEF HandlersInv, GivenPosted
<1>2. \A c \in Requests : RequestOK(c)'
  BY RestartFacts DEF HandlersInv, RequestOK
<1>3. \A c \in Requests : AnswerOK(c)'
  BY RestartFacts DEF HandlersInv, AnswerOK, Unseen
<1> QED
  BY <1>1, <1>2, <1>3, RestartFacts DEF HandlersInv

\* Every step keeps the invariant of the handlers.
LEMMA HandlersInvStep ==
  ASSUME HandlersInv, [Next]_relay_vars
  PROVE  HandlersInv'
<1>1. [ListNext]_list_vars
  BY RelayListStep
<1>2. ListInv'
  BY <1>1, ListInvStep DEF HandlersInv
<1>3. Slim(waiters, max_entries)'
  <2>1. Slim(waiters', max_entries')
    BY <1>1, SlimStep DEF HandlersInv
  <2> QED
    BY <2>1 DEF Slim, IsWaiterMap, Size
<1> QED
  BY <1>2, <1>3, StepKinds, HandledInv, IdleInv, RestartHandlersInv

\* Every acknowledgment stays accounted for.
LEMMA ConsumersStep ==
  ASSUME RelayInv, [Next]_relay_vars
  PROVE  AckHasConsumer'
<1>1. HandlersInv
  BY DEF RelayInv
<1>2. ASSUME NEW r \in Requests, Handled(r)
      PROVE  AckHasConsumer'
  <2>1. /\ Frame(r)
        /\ \A c \in Requests : /\ pc[c] # "arrived" => target'[c] = target[c]
                               /\ reply[c] # "none" => reply'[c] = reply[c]
    BY <1>2 DEF Handled, OnlyMoves
  <2> QED
    BY <1>2, <2>1, ConsumersKeep DEF Handled
<1>3. CASE Idle
  BY <1>3, ConsumersKeep, RelayAssumption DEF Idle
<1>4. CASE restart
  BY <1>1, <1>4, RestartFacts DEF RelayInv, AckHasConsumer
<1> QED
  BY <1>1, <1>2, <1>3, <1>4, StepKinds

\* Every step keeps the invariant.
LEMMA RelayInvStep ==
  ASSUME RelayInv, [Next]_relay_vars
  PROVE  RelayInv'
BY HandlersInvStep, ConsumersStep DEF RelayInv

\* The invariant holds at the start.
LEMMA RelayInvInit ==
  ASSUME Init
  PROVE  RelayInv
<1>1. ListInit /\ ListInv
  BY ListInitInv DEF Init
<1>2. Slim(waiters, max_entries)
  BY <1>1, SlimInit
<1>3. /\ RelayTypes
      /\ \A r \in Requests : pc[r] = "arrived" /\ reply[r] = "none" /\ r \in Calls
  BY RelayAssumption DEF Init, RelayTypes
<1>4. /\ \A c \in Calls : receiver[c] = "none" /\ value[c] = None /\ awaits[c] = None
      /\ \A m \in Messages : home[m] = None
      /\ acked_messages = {}
  BY <1>1 DEF ListInit
<1>5. \A r \in Requests : RequestOK(r) /\ AnswerOK(r)
  BY <1>3, <1>4 DEF RequestOK, AnswerOK
<1>6. GivenPosted /\ AckHasConsumer
  BY <1>3, <1>4 DEF GivenPosted, AckHasConsumer
<1> QED
  BY <1>1, <1>2, <1>3, <1>5, <1>6 DEF RelayInv, HandlersInv

(***************************************************************************)
(* Theorems of the specification.                                          *)
(***************************************************************************)

\* The invariant holds in every state of the relay.
THEOREM RelayInvariant == Spec => []RelayInv
<1>1. Init => RelayInv
  BY RelayInvInit
<1>2. RelayInv /\ [Next]_relay_vars => RelayInv'
  BY RelayInvStep
<1> QED
  BY <1>1, <1>2, PTL DEF Spec

\* Whatever the handlers do, to the list they are callers of its operations: what is
\* proved of every behaviour of the waiting list holds of every behaviour of the relay.
THEOREM RelayIsWaitingList == Spec => ListSpec
<1>1. Init => ListInit
  BY DEF Init
<1>2. RelayInv /\ [Next]_relay_vars => [ListNext]_list_vars
  BY RelayListStep DEF RelayInv
<1> QED
  BY <1>1, <1>2, RelayInvariant, PTL DEF Spec, ListSpec

\* The type invariant of the relay: a request waits exactly while its channel is
\* undecided or its answer is still to be given.
THEOREM RelayTypeCorrect == Spec => []TypeOK
<1>1. RelayInv /\ ListTypeOK => TypeOK
  BY DEF RelayInv, HandlersInv, RelayTypes, RequestOK, TypeOK
<1> QED
  BY <1>1, RelayInvariant, RelayIsWaitingList, ListTypeCorrect, PTL

\* A producer answered 503 can safely post again: its message is nowhere.
THEOREM RejectedIsNeverSeen == Spec => []RejectedNeverSeen
<1>1. RelayInv => RejectedNeverSeen
  BY RelayAssumption DEF RelayInv, HandlersInv, AnswerOK, Unseen, RejectedNeverSeen, Requests
<1> QED
  BY <1>1, RelayInvariant, PTL

\* Whoever waited for an ACK and is answered 200 is told of the ACK of the message it
\* waited for, which for POST /link is its own.
THEOREM ProducerIsConfirmed == Spec => []ProducerConfirmed
<1>1. RelayInv => ProducerConfirmed
  BY DEF RelayInv, HandlersInv, AnswerOK, ProducerConfirmed, Requests
<1> QED
  BY <1>1, RelayInvariant, PTL

\* Every acknowledgment is accounted for by a consumer of the id.
THEOREM EveryAckHasConsumer == Spec => []AckHasConsumer
<1>1. RelayInv => AckHasConsumer
  BY DEF RelayInv
<1> QED
  BY <1>1, RelayInvariant, PTL

(***************************************************************************)
(* Why a stored message leaves the table.                                  *)
(***************************************************************************)

\* What the store promises its callers holds of the whole relay, whatever requests
\* come in whatever order: an undelivered message is not evicted, acknowledged ones go
\* oldest first, the limit is kept, and who is turned away is turned away rightly.
THEOREM RelayKeepsStorePromises ==
  Spec => /\ UndeliveredKept /\ OldestEvictedFirst /\ GrowthWithinLimit
          /\ []RejectedOnlyWhenFull
BY RelayIsWaitingList, ListKeepsUndelivered, ListEvictsOldestFirst, ListGrowsWithinLimit,
   ListRejectionIsJustified, PTL

\* A POST touches no message but the one it replaces.
LEMMA PostLeavesForCause ==
  ASSUME HandlersInv, NEW other \in Ids, NEW p \in Messages, home[p] = None,
         NEW ttl \in Ttls, Inserted(other, p, ttl)
  PROVE  LeavesForCause
<1> SUFFICES ASSUME NEW id \in DOMAIN entries, entries[id].body # None,
                    entries[id].expires_at >= now
             PROVE  id \in DOMAIN entries' /\ entries'[id].body \in {entries[id].body} \cup Unposted
  BY DEF LeavesForCause
<1>1. RepoTypeOK /\ ~entries[id].acked /\ p \in Unposted
  BY DEF HandlersInv, ListInv, RepoTypeOK, Unposted
<1> QED
  BY <1>1, InsertKeepsMessage

\* An acknowledgment touches no message but the one of its id.
LEMMA AckTouches ==
  ASSUME NEW other \in Ids, NEW res, ack(other, res), NEW id \in DOMAIN entries, id # other
  PROVE  id \in DOMAIN entries' /\ entries'[id] = entries[id]
<1>1. entries' = entries \/ entries' = acknowledged(entries, other)
  BY DEF ack, list_vars
<1> QED
  BY <1>1 DEF acknowledged

\* DELETE and the second half of GET /link, which is reached with a message in hand,
\* answer 200 in the step that takes the message away.
LEMMA AckLeavesForCause ==
  ASSUME HandlersInv, NEW r \in Requests,
         \/ \E id \in Ids : r \in InboxDeletes /\ inbox_delete(r, id)
         \/ r \in LinkGets /\ link_auto_ack(r)
  PROVE  LeavesForCause
<1> SUFFICES ASSUME NEW id \in DOMAIN entries, entries[id].body # None,
                    ~(id \in DOMAIN entries' /\ entries'[id].body = entries[id].body)
             PROVE  \/ \E d \in InboxDeletes :
                         target'[d] = id /\ reply[d] = "none" /\ reply'[d] = "OK"
                    \/ \E g \in LinkGets :
                         /\ target[g] = id /\ value[g] # None
                         /\ reply[g] = "none" /\ reply'[g] = "OK"
  BY DEF LeavesForCause
<1>1. /\ RequestOK(r) /\ target \in [Requests -> Ids \cup {None}]
      /\ reply \in [Requests -> Replies \cup {"none"}]
  BY DEF HandlersInv, RelayTypes
<1>2. ASSUME NEW other \in Ids, r \in InboxDeletes, inbox_delete(r, other)
      PROVE  target'[r] = id /\ reply[r] = "none" /\ reply'[r] = "OK"
  <2>1. \/ ack(other, "Acked") /\ Answer(r, "OK")
        \/ ack(other, "NotFound")
    BY <1>2 DEF inbox_delete
  <2>2. ~ack(other, "NotFound")
    <3> SUFFICES ASSUME ack(other, "NotFound")
                 PROVE  entries' = entries
      OBVIOUS
    <3> QED
      BY DEF ack, list_vars
  <2>3. other = id
    BY <2>1, AckTouches
  <2>4. pc[r] = "arrived" /\ target'[r] = other
    BY <1>1, <1>2 DEF inbox_delete, Handle
  <2> QED
    BY <1>1, <2>1, <2>2, <2>3, <2>4 DEF Answer, RequestOK
<1>3. ASSUME r \in LinkGets, link_auto_ack(r)
      PROVE  target[r] = id /\ value[r] # None /\ reply[r] = "none" /\ reply'[r] = "OK"
  <2>1. pc[r] = "acking" /\ Answer(r, "OK")
    BY <1>3 DEF link_auto_ack
  <2>2. target[r] \in Ids /\ value[r] # None /\ reply[r] = "none"
    BY <1>1, <2>1 DEF RequestOK
  <2>3. PICK res \in Results : ack(target[r], res)
    BY <1>3 DEF link_auto_ack
  <2>4. target[r] = id
    BY <2>2, <2>3, AckTouches
  <2> QED
    BY <1>1, <2>1, <2>2, <2>4 DEF Answer
<1> QED
  BY <1>2, <1>3

\* Every step of the relay takes messages away only for a cause.
LEMMA LeavesForCauseStep ==
  ASSUME HandlersInv, [Next]_relay_vars
  PROVE  LeavesForCause
<1>1. ASSUME entries' = entries
      PROVE  LeavesForCause
  BY <1>1 DEF LeavesForCause
<1>2. ASSUME NEW r \in InboxPosts \cup LinkPosts, NEW id \in Ids,
             inbox_post(r, id) \/ link_post(r, id)
      PROVE  LeavesForCause
  <2>1. r \in Requests /\ r \in Messages /\ {InboxTtl, LinkTimeout} = Ttls
    BY RelayAssumption DEF Requests
  <2>2. home[r] = None
    BY <1>2, <2>1 DEF inbox_post, link_post, Handle, HandlersInv, RequestOK
  <2>3. \/ entries' = entries
        \/ \E ttl \in Ttls : Inserted(id, r, ttl)
    <3>1. CASE inbox_post(r, id)
      BY <2>1, <3>1 DEF inbox_post, store, Inserted
    <3>2. CASE link_post(r, id)
      <4>1. PICK res : store_and_subscribe_ack(r, id, r, LinkTimeout, res)
        BY <3>2 DEF link_post
      <4>2. entries' = entries \/ Inserted(id, r, LinkTimeout)
        BY <4>1 DEF store_and_subscribe_ack, Inserted
      <4> QED
        BY <2>1, <4>2
    <3> QED
      BY <1>2, <3>1, <3>2
  <2> QED
    BY <1>1, <2>1, <2>2, <2>3, PostLeavesForCause
<1>3. ASSUME NEW r \in Requests, NEW id \in Ids,
             inbox_get(r, id) \/ inbox_ack(r, id) \/ inbox_await(r, id) \/ link_get(r, id)
      PROVE  entries' = entries
  BY <1>3 DEF inbox_get, inbox_ack, inbox_await, link_get, get_or_subscribe,
              wait_for_message, subscribe_ack, list_vars
<1>4. ASSUME NEW r \in Requests, refuse(r) \/ wake(r) \/ time_out(r) \/ disconnect(r)
      PROVE  entries' = entries
  BY <1>4 DEF refuse, wake, time_out, disconnect, CloseReceiver, list_vars
<1>5. CASE cleanup_task
  <2>1. entries' = entries \/ entries' = delete_expired(entries)
    BY <1>5 DEF cleanup_task, cleanup_expired
  <2>2. ASSUME entries' = delete_expired(entries), NEW id \in DOMAIN entries,
               entries[id].expires_at >= now
        PROVE  id \in DOMAIN entries' /\ entries'[id] = entries[id]
    <3>1. entries[id].expires_at \in Int /\ now \in Int
      BY InvContext DEF HandlersInv, WellFormed, IsTable, Entry
    <3>2. id \notin ExpiredIds(entries)
      BY <2>2, <3>1 DEF ExpiredIds
    <3> QED
      BY <2>2, <3>2 DEF delete_expired, Without, Restrict
  <2> QED
    BY <1>1, <2>1, <2>2 DEF LeavesForCause
<1>6. CASE restart
  <2>1. entries' = entries \/ ~Durable
    BY <1>6 DEF restart, Restart, Reopen
  <2> QED
    BY <1>1, <1>6, <2>1 DEF LeavesForCause
<1>7. CASE Passing \/ UNCHANGED relay_vars
  BY <1>1, <1>7 DEF Passing, ClockTick, Tick, PruneIntervalPasses, relay_vars
<1> QED
  BY <1>1, <1>2, <1>3, <1>4, <1>5, <1>6, <1>7, AckLeavesForCause DEF Next, Requests

\* "Message is still safe on the relay", whatever fails and however many share an id: a
\* message that has not expired leaves only for a newer one, or in the step in which a
\* consumer of its id is told that it was acknowledged.
THEOREM StoredLeaves == Spec => StoredLeavesForCause
<1>1. RelayInv /\ [Next]_relay_vars => [LeavesForCause]_relay_vars
  BY LeavesForCauseStep DEF RelayInv
<1> QED
  BY <1>1, RelayInvariant, PTL DEF Spec, StoredLeavesForCause

(***************************************************************************)
(* Why requests are answered 404, when the store does not fail.            *)
(***************************************************************************)

\* A request that does not move is answered for as before.
LEMMA OthersNoFault ==
  ASSUME ~StorageErrors, HandlersInv, NEW r, Frame(r), OnlyMoves(r), now' \in Int,
         NEW c \in Requests \ {r}, DroppedOK(c), NotFoundOK(c)
  PROVE  DroppedOK(c)' /\ NotFoundOK(c)'
<1>1. /\ c \in Calls /\ ListInv /\ awaits'[c] = awaits[c] /\ reply'[c] = reply[c]
      /\ receiver[c] # "open" => receiver'[c] = receiver[c]
      /\ receiver[c] = "open" => receiver'[c] \in {"open", "sent", "dropped"}
  BY RelayAssumption DEF HandlersInv, OnlyMoves, Frame, Effect
<1>2. awaits \in [Calls -> Messages \cup {None}] /\ now \in Int /\ None \notin Messages
  BY <1>1, InvContext, RepositoryAssumption DEF ListInv, Meant
<1>3. ASSUME receiver'[c] = "dropped", awaits[c] # None
      PROVE  /\ home'[awaits[c]] # None /\ awaits[c] \notin acked_messages'
             /\ \A id \in DOMAIN entries' : entries'[id].body # awaits[c]
  <2>1. home[awaits[c]] # None /\ awaits[c] \notin acked_messages /\ awaits[c] \in Messages
    BY <1>1, <1>2, <1>3, OpenUnacked DEF DroppedOK
  <2>2. \A id \in DOMAIN entries' : entries'[id].body # awaits[c]
    BY <1>1, <1>3, <2>1 DEF DroppedOK, Frame, Effect
  <2>3. awaits[c] \notin acked_messages'
    BY <1>1, <1>3, <2>1 DEF DroppedOK, Frame
  <2> QED
    BY <2>1, <2>2, <2>3 DEF Frame
<1>4. DroppedOK(c)'
  BY <1>1, <1>3 DEF DroppedOK
<1>5. ASSUME ~ClockJumps, Over(c), c \in Messages
      PROVE  Over(c)'
  <2> SUFFICES ASSUME NEW id \in DOMAIN entries', entries'[id].body = c
               PROVE  entries'[id].expires_at <= now'
    BY DEF Over
  <2>1. id \in DOMAIN entries /\ entries'[id] = entries[id]
    BY <1>2, <1>5 DEF Frame, Effect
  <2>2. entries[id].expires_at <= now /\ now <= now' /\ entries[id].expires_at \in Int
    BY <1>1, <1>5, <2>1, InvContext DEF Over, Frame, WellFormed, IsTable, Entry
  <2> QED
    BY <1>2, <2>1, <2>2
<1>6. NotFoundOK(c)'
  BY <1>1, <1>5, RelayAssumption DEF NotFoundOK
<1> QED
  BY <1>4, <1>6

\* Every step keeps it.
LEMMA NoFaultStep ==
  ASSUME ~StorageErrors, HandlersInv, NoFaultInv, [Next]_relay_vars
  PROVE  NoFaultInv'
<1>1. now' \in Int
  BY HandlersInvStep, InvContext DEF HandlersInv, ListInv, RepoTypeOK
<1>2. ASSUME NEW r \in Requests, Handled(r)
      PROVE  NoFaultInv'
  <2>1. \A c \in Requests \ {r} : DroppedOK(c)' /\ NotFoundOK(c)'
    BY <1>1, <1>2, OthersNoFault DEF Handled, NoFaultInv
  <2>2. DroppedOK(r)' /\ NotFoundOK(r)'
    BY <1>2 DEF Handled, NoFaultInv
  <2> QED
    BY <2>1, <2>2 DEF NoFaultInv
<1>3. CASE Idle
  <2>1. Frame(None) /\ OnlyMoves(None) /\ None \notin Requests
    BY <1>3, RelayAssumption DEF Idle, OnlyMoves
  <2> QED
    BY <1>1, <2>1, OthersNoFault DEF NoFaultInv
<1>4. CASE restart
  <2>1. \A r \in Requests : DroppedOK(r)'
    BY <1>4, RestartFacts DEF NoFaultInv, DroppedOK
  <2>2. \A r \in Requests : NotFoundOK(r)'
    BY <1>4, RestartFacts DEF NoFaultInv, NotFoundOK, Over
  <2> QED
    BY <2>1, <2>2 DEF NoFaultInv
<1> QED
  BY <1>2, <1>3, <1>4, StepKinds

\* It holds in every state of a relay whose store does not fail.
THEOREM NoFaultInvariant ==
  ASSUME ~StorageErrors
  PROVE  Spec => []NoFaultInv
<1>1. Init => NoFaultInv
  BY RelayAssumption DEF Init, ListInit, NoFaultInv, DroppedOK, NotFoundOK
<1>2. RelayInv /\ NoFaultInv /\ [Next]_relay_vars => NoFaultInv'
  BY NoFaultStep DEF RelayInv
<1> QED
  BY <1>1, <1>2, RelayInvariant, PTL DEF Spec

\* A producer that waits when its message is acknowledged is not told 404.
THEOREM AckedAwaitIsNotLost ==
  ASSUME ~StorageErrors
  PROVE  Spec => []AckedAwaitNotLost
<1>1. NoFaultInv => AckedAwaitNotLost
  BY DEF NoFaultInv, DroppedOK, NotFoundOK, AckedAwaitNotLost, Requests
<1> QED
  BY <1>1, NoFaultInvariant, PTL

\* POST /link answers "Entry expired" only when its message can no longer be delivered.
THEOREM NotFoundReallyMeansGone ==
  ASSUME ~StorageErrors, ~ClockJumps
  PROVE  Spec => []NotFoundMeansGone
<1>1. RelayInv /\ NoFaultInv => NotFoundMeansGone
  <2> SUFFICES ASSUME RelayInv, NoFaultInv, NEW p \in LinkPosts, reply[p] = "NotFound",
                      Available(target[p]), entries[target[p]].body = p
               PROVE  FALSE
    BY DEF NotFoundMeansGone
  <2>1. p \in Requests /\ p \in Messages /\ p # None
    BY RelayAssumption, RepositoryAssumption DEF Requests
  <2>2. target[p] \in DOMAIN entries /\ ~(now >= entries[target[p]].expires_at)
    BY DEF Available, Readable, is_expired
  <2>3. ~Over(p)
    BY <2>2, InvContext DEF Over, RelayInv, HandlersInv, WellFormed, IsTable, Entry
  <2>4. awaits[p] = p /\ receiver[p] = "dropped"
    BY <2>1, <2>3 DEF NoFaultInv, NotFoundOK
  <2> QED
    BY <2>1, <2>2, <2>4 DEF NoFaultInv, DroppedOK
<1> QED
  BY <1>1, RelayInvariant, NoFaultInvariant, PTL

\* The relay leaves no consumer waiting on an id whose message it could be given.
THEOREM RelayMessageIsNotMissed ==
  ASSUME ~StorageErrors, ~ClockJumps
  PROVE  Spec => []MessageNotMissed
BY RelayIsWaitingList, MessageIsNotMissed, PTL
==============================================================================
