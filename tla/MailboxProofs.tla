---------------------------- MODULE MailboxProofs ----------------------------
(***************************************************************************)
(* The waiting list, and with it the relay, implements the mailboxes of    *)
(* module Mailbox.                                                         *)
(***************************************************************************)
EXTENDS RelayProofs

\* What a mailbox holds when the table is es and the clock reads t.
Held(es, t, id) ==
  IF Readable(es, id, t)
  THEN [state |-> IF es[id].acked THEN "acked" ELSE "pending",
        message |-> es[id].body, until |-> es[id].expires_at]
  ELSE [state |-> "absent", message |-> None, until |-> 0]

\* Rows that are expired or acknowledged may go: the mailboxes keep what they hold or
\* fade.
LEMMA RowsFade ==
  ASSUME NEW es, WellFormed(es), NEW fs, NEW t \in Int, NEW u \in Int, t <= u,
         NEW id \in Ids,
         id \in DOMAIN fs => id \in DOMAIN es /\ fs[id] = es[id],
         id \in DOMAIN es \ DOMAIN fs => es[id].expires_at < t \/ es[id].acked
  PROVE  \/ Held(fs, u, id) = Held(es, t, id)
         \/ /\ Held(es, t, id).state = "acked" \/ Held(es, t, id).until <= u
            /\ Held(fs, u, id) = MB!Absent
<1>1. id \in DOMAIN es => es[id].expires_at \in Int
  BY DEF WellFormed, IsTable, Entry
<1>2. CASE ~Readable(es, id, t)
  <2>1. ~Readable(fs, id, u)
    BY <1>1, <1>2 DEF Readable, is_expired
  <2> QED
    BY <1>2, <2>1 DEF Held
<1>3. CASE Readable(es, id, t) /\ Readable(fs, id, u)
  BY <1>3 DEF Readable, Held
<1>4. CASE Readable(es, id, t) /\ ~Readable(fs, id, u)
  <2>1. Held(fs, u, id) = MB!Absent
    BY <1>4 DEF Held, MB!Absent
  <2>2. id \in DOMAIN es /\ ~(t >= es[id].expires_at)
    BY <1>4 DEF Readable, is_expired
  <2>3. es[id].acked \/ es[id].expires_at <= u
    BY <1>1, <1>4, <2>2 DEF Readable, is_expired
  <2>4. /\ Held(es, t, id).until = es[id].expires_at
        /\ es[id].acked => Held(es, t, id).state = "acked"
    BY <1>4 DEF Held
  <2> QED
    BY <2>1, <2>3, <2>4
<1> QED
  BY <1>2, <1>3, <1>4

\* The mailboxes other than those where something happens.
LEMMA MailboxFades ==
  ASSUME ListInv, now' \in Int, now' >= now, NEW id \in Ids,
         id \in DOMAIN entries' => id \in DOMAIN entries /\ entries'[id] = entries[id],
         id \in DOMAIN entries \ DOMAIN entries' =>
           entries[id].expires_at < now \/ entries[id].acked
  PROVE  MB!KeptOrFaded(id)
<1>1. \/ Held(entries', now', id) = Held(entries, now, id)
      \/ /\ Held(entries, now, id).state = "acked" \/ Held(entries, now, id).until <= now'
         /\ Held(entries', now', id) = MB!Absent
  BY RowsFade, InvContext
<1>2. held(id) = Held(entries, now, id) /\ held(id)' = Held(entries', now', id)
  BY DEF held, Held, Readable
<1> QED
  BY <1>1, <1>2 DEF MB!KeptOrFaded

(***************************************************************************)
(* Posted and received messages.                                           *)
(***************************************************************************)

\* A call that has no channel yet, or waits, was not given a message.
NotGivenYet == \A c \in Calls : receiver[c] \in {"none", "open"} => value[c] = None

\* A message that is stored for the first time is a new submission.
LEMMA Submitted ==
  ASSUME home \in [Messages -> Ids \cup {None}], NEW m \in Messages, home[m] = None,
         NEW id \in Ids, home' = [home EXCEPT ![m] = id]
  PROVE  MB!Submit(m)
<1>1. id # None
  BY RepositoryAssumption
<1> QED
  BY <1>1 DEF MB!Submit

\* Who waits and is given a message receives it.
LEMMA GivenDelivered ==
  ASSUME value \in [Calls -> Messages \cup {None}], NotGivenYet, NEW m \in Messages, NEW sent,
         value' = Given(sent, m)
  PROVE  \E C \in SUBSET Calls : MB!Give(C, m)
<1> DEFINE C == {c \in Calls : c \in sent /\ receiver[c] = "open"}
<1>1. m # None
  BY RepositoryAssumption
<1>2. \A c \in Calls : value'[c] = IF c \in C THEN m ELSE value[c]
  BY DEF Given
<1>3. \A c \in C : c \in Calls /\ value[c] = None
  BY DEF NotGivenYet
<1> HIDE DEF C
<1>4. deliveries' = deliveries \cup {<<c, m>> : c \in C}
  <2>1. ASSUME NEW d \in deliveries'
        PROVE  d \in deliveries \cup {<<c, m>> : c \in C}
    <3>1. PICK c \in Calls : d = <<c, value'[c]>> /\ value'[c] # None
      BY <2>1 DEF deliveries
    <3>2. CASE c \in C
      BY <1>2, <3>1, <3>2
    <3>3. CASE c \notin C
      BY <1>2, <3>1, <3>3 DEF deliveries
    <3> QED
      BY <3>2, <3>3
  <2>2. ASSUME NEW d \in deliveries
        PROVE  d \in deliveries'
    <3>1. PICK c \in Calls : d = <<c, value[c]>> /\ value[c] # None
      BY <2>2 DEF deliveries
    <3>2. value'[c] = value[c]
      BY <1>2, <1>3, <3>1
    <3> QED
      BY <3>1, <3>2 DEF deliveries
  <2>3. ASSUME NEW d \in {<<c, m>> : c \in C}
        PROVE  d \in deliveries'
    <3>1. PICK c \in C : d = <<c, m>>
      BY <2>3
    <3>2. c \in Calls /\ value'[c] = m
      BY <1>2, <1>3, <3>1
    <3> QED
      BY <1>1, <3>1, <3>2 DEF deliveries
  <2> QED
    BY <2>1, <2>2, <2>3
<1>5. C \in SUBSET Calls
  BY <1>3
<1> QED
  BY <1>4, <1>5 DEF MB!Give

\* Nobody is given anything.
LEMMA NothingDelivered ==
  ASSUME value' = value, NEW m
  PROVE  deliveries' = deliveries /\ \E C \in SUBSET Calls : MB!Give(C, m)
<1>1. deliveries' = deliveries
  BY DEF deliveries
<1>2. deliveries' = deliveries \cup {<<c, m>> : c \in {}}
  BY <1>1
<1>3. {} \in SUBSET Calls
  OBVIOUS
<1> QED
  BY <1>1, <1>2, <1>3 DEF MB!Give

(***************************************************************************)
(* A message that is posted.                                               *)
(***************************************************************************)

\* What the insertion of a message does to the mailboxes.
LEMMA InsertMailbox ==
  ASSUME ListInv, NEW id \in Ids, NEW m \in Messages, NEW ttl \in Ttls,
         NEW ins \in insert(entries, id, m, now + ttl), entries' = ins.table,
         now' \in Int, now' >= now
  PROVE  /\ ins.outcome # "Stored" => \A j \in Ids : MB!KeptOrFaded(j)
         /\ ins.outcome = "Stored" =>
              /\ \A j \in Ids \ {id} : MB!KeptOrFaded(j)
              /\ held(id)' = IF now + ttl <= now' THEN MB!Absent ELSE MB!Pending(m, now + ttl)
<1>1. WellFormed(entries) /\ now \in Int /\ now + ttl \in Int
  BY InvContext
<1>2. PICK G \in Evictable(entries) :
        \/ /\ ins.outcome \in {"StoreFull", "Error"}
           /\ ins.table = Without(entries, G)
        \/ /\ ins.outcome = "Stored"
           /\ ins.table = Put(Without(entries, G), id, NewEntry(m, now + ttl))
  BY <1>1, InsertShape
<1>3. \A j \in G : entries[j].expires_at < now \/ entries[j].acked
  BY DEF Evictable, Disposable, ExpiredIds, AckedIds
<1>4. ASSUME NEW j \in Ids, j # id \/ ins.outcome # "Stored"
      PROVE  MB!KeptOrFaded(j)
  <2>1. /\ j \in DOMAIN entries' => j \in DOMAIN entries /\ entries'[j] = entries[j]
        /\ j \in DOMAIN entries \ DOMAIN entries' => j \in G
    BY <1>2, <1>4 DEF Put, Without, Restrict
  <2> QED
    BY <1>3, <2>1, MailboxFades
<1>5. ASSUME ins.outcome = "Stored"
      PROVE  held(id)' = IF now + ttl <= now' THEN MB!Absent ELSE MB!Pending(m, now + ttl)
  <2>1. id \in DOMAIN entries' /\ entries'[id] = NewEntry(m, now + ttl)
    BY <1>2, <1>5 DEF Put
  <2> QED
    BY <1>1, <2>1 DEF held, Readable, is_expired, NewEntry, MB!Absent, MB!Pending
<1> QED
  BY <1>4, <1>5

(***************************************************************************)
(* The operations of the list as steps of the mailboxes.                   *)
(***************************************************************************)

\* The clock, when it is not set back.
ClockAdvances == now' \in Nat /\ now' >= now

\* A step in which at most expired or acknowledged rows go.
LEMMA QuietMailbox ==
  ASSUME ListInv, ClockAdvances, value' = value, home' = home,
         \A id \in Ids :
           /\ id \in DOMAIN entries' => id \in DOMAIN entries /\ entries'[id] = entries[id]
           /\ id \in DOMAIN entries \ DOMAIN entries' =>
                entries[id].expires_at < now \/ entries[id].acked
  PROVE  MB!MailboxNext
<1>1. \A id \in Ids : MB!KeptOrFaded(id)
  BY MailboxFades DEF ClockAdvances
<1>2. deliveries' = deliveries
  BY NothingDelivered
<1>3. MB!Fade
  BY <1>1, <1>2 DEF MB!Fade
<1> QED
  BY <1>3 DEF MB!MailboxNext, ClockAdvances

\* A message that is posted: stored, rejected, or handed on though it was not stored.
LEMMA PostMailbox ==
  ASSUME ListInv, ClockAdvances, NEW id \in Ids, NEW m \in Messages, home[m] = None,
         NEW ttl \in Ttls, NEW ins \in insert(entries, id, m, now + ttl),
         entries' = ins.table, home' = [home EXCEPT ![m] = id],
         \E C \in SUBSET Calls : MB!Give(C, m)
  PROVE  MB!MailboxNext
<1>1. MB!Submit(m)
  BY Submitted DEF ListInv, Meant
<1>2. /\ ins.outcome # "Stored" => \A j \in Ids : MB!KeptOrFaded(j)
      /\ ins.outcome = "Stored" =>
           /\ \A j \in Ids \ {id} : MB!KeptOrFaded(j)
           /\ held(id)' = IF now + ttl <= now' THEN MB!Absent ELSE MB!Pending(m, now + ttl)
  BY InsertMailbox DEF ClockAdvances
<1>3. CASE ins.outcome # "Stored"
  <2>1. MB!PassOn(m)
    BY <1>1, <1>2, <1>3 DEF MB!PassOn
  <2> QED
    BY <2>1 DEF MB!MailboxNext, ClockAdvances
<1>4. CASE ins.outcome = "Stored"
  <2>1. MB!Post(id, m)
    BY <1>1, <1>2, <1>4 DEF MB!Post
  <2> QED
    BY <2>1 DEF MB!MailboxNext, ClockAdvances
<1> QED
  BY <1>3, <1>4

\* store.
LEMMA StoreMailbox ==
  ASSUME ListInv, NotGivenYet, ClockAdvances, NEW id \in Ids, NEW m \in Messages,
         home[m] = None, NEW ttl \in Ttls, NEW res, store(id, m, ttl, res)
  PROVE  MB!MailboxNext
<1>1. PICK ins \in insert(entries, id, m, now + ttl) :
        /\ entries' = ins.table
        /\ value' = value \/ \E sent : value' = Given(sent, m)
  BY DEF store
<1>2. home' = [home EXCEPT ![m] = id]
  BY DEF store
<1>3. \E C \in SUBSET Calls : MB!Give(C, m)
  BY <1>1, NothingDelivered, GivenDelivered DEF ListInv
<1> QED
  BY <1>1, <1>2, <1>3, PostMailbox

\* store_and_subscribe_ack.
LEMMA StoreAndSubscribeMailbox ==
  ASSUME ListInv, NotGivenYet, ClockAdvances, NEW c \in Calls, NEW id \in Ids,
         NEW m \in Messages, home[m] = None, NEW ttl \in Ttls, NEW res,
         store_and_subscribe_ack(c, id, m, ttl, res)
  PROVE  MB!MailboxNext
<1>1. CASE UNCHANGED <<entries, now, receiver, value, home, awaits>>
  BY <1>1, QuietMailbox
<1>2. CASE /\ home' = [home EXCEPT ![m] = id]
           /\ \E ins \in insert(entries, id, m, now + ttl) :
                /\ entries' = ins.table
                /\ value' = value \/ \E sent : value' = Given(sent, m)
  <2>1. PICK ins \in insert(entries, id, m, now + ttl) :
          /\ entries' = ins.table
          /\ value' = value \/ \E sent : value' = Given(sent, m)
    BY <1>2
  <2>2. \E C \in SUBSET Calls : MB!Give(C, m)
    BY <2>1, NothingDelivered, GivenDelivered DEF ListInv
  <2> QED
    BY <1>2, <2>1, <2>2, PostMailbox
<1> QED
  BY <1>1, <1>2 DEF store_and_subscribe_ack

\* ack.
LEMMA AckMailbox ==
  ASSUME ListInv, ClockAdvances, NEW id \in Ids, NEW res, ack(id, res)
  PROVE  MB!MailboxNext
<1>1. CASE UNCHANGED list_vars
  BY <1>1, QuietMailbox DEF list_vars
<1>2. CASE /\ Readable(entries, id, now) /\ ~entries[id].acked
           /\ entries' = acknowledged(entries, id)
           /\ UNCHANGED <<now, value, home>>
  <2>1. /\ held(id).state = "pending" /\ now < held(id).until
        /\ held(id)' = MB!Acked(held(id).until)
    <3>1. id \in DOMAIN entries /\ ~(now >= entries[id].expires_at)
      BY <1>2 DEF Readable, is_expired
    <3>2. now \in Int /\ entries[id] \in Entry /\ entries[id].expires_at \in Int
      BY <3>1, InvContext DEF WellFormed, IsTable, Entry
    <3>3. held(id).state = "pending" /\ held(id).until = entries[id].expires_at
      BY <1>2 DEF held
    <3>4. /\ id \in DOMAIN entries'
          /\ entries'[id].acked = TRUE /\ entries'[id].body = None
          /\ entries'[id].expires_at = entries[id].expires_at
      BY <1>2, <3>1, <3>2, InvContext DEF acknowledged, Entry, WellFormed, IsTable
    <3>5. held(id)' = MB!Acked(entries[id].expires_at)
      BY <1>2, <3>1, <3>4 DEF held, Readable, is_expired, MB!Acked
    <3> QED
      BY <3>1, <3>2, <3>3, <3>5
  <2>2. \A j \in Ids \ {id} : held(j)' = held(j)
    BY <1>2 DEF held, Readable, is_expired, acknowledged
  <2>3. [j \in Ids |-> held(j)]' = [[j \in Ids |-> held(j)] EXCEPT ![id] = MB!Acked(held(id).until)]
    BY <2>1, <2>2
  <2>4. deliveries' = deliveries
    BY <1>2, NothingDelivered
  <2>5. MB!Acknowledge(id)
    BY <1>2, <2>1, <2>3, <2>4 DEF MB!Acknowledge
  <2> QED
    BY <2>5 DEF MB!MailboxNext, ClockAdvances
<1> QED
  BY <1>1, <1>2 DEF ack

\* get_or_subscribe.
LEMMA GetMailbox ==
  ASSUME ListInv, NotGivenYet, ClockAdvances, NEW c \in Calls, receiver[c] = "none",
         NEW id \in Ids, NEW res, get_or_subscribe(c, id, res)
  PROVE  MB!MailboxNext
<1>1. CASE UNCHANGED <<entries, value, home>>
  BY <1>1, QuietMailbox
<1>2. CASE /\ Available(id)
           /\ value' = [value EXCEPT ![c] = entries[id].body]
           /\ UNCHANGED <<entries, now, home>>
  <2>1. /\ id \in DOMAIN entries /\ ~(now >= entries[id].expires_at)
        /\ entries[id].body # None /\ entries[id].body \in Messages
        /\ now \in Int /\ entries[id].expires_at \in Int /\ ~entries[id].acked
    BY <1>2, InvContext DEF Available, Readable, is_expired, WellFormed, IsTable, Entry
  <2>2. held(id).state = "pending" /\ held(id).message = entries[id].body /\ now < held(id).until
    BY <2>1 DEF held, Readable, is_expired
  <2>3. deliveries' = deliveries \cup {<<d, entries[id].body>> : d \in {c}}
    <3>1. /\ value[c] = None /\ value'[c] = entries[id].body
          /\ \A d \in Calls : d # c => value'[d] = value[d]
      BY <1>2 DEF NotGivenYet, ListInv
    <3>2. ASSUME NEW d \in deliveries'
          PROVE  d \in deliveries \/ d = <<c, entries[id].body>>
      BY <3>1, <3>2 DEF deliveries
    <3>3. ASSUME NEW d, d \in deliveries \/ d = <<c, entries[id].body>>
          PROVE  d \in deliveries'
      BY <2>1, <3>1, <3>3 DEF deliveries
    <3> QED
      BY <3>2, <3>3
  <2>4. [j \in Ids |-> held(j)]' = [j \in Ids |-> held(j)]
    BY <1>2 DEF held, Readable, is_expired
  <2>5. MB!Deliver(c, id)
    BY <1>2, <2>2, <2>3, <2>4 DEF MB!Deliver, MB!Give
  <2> QED
    BY <2>5 DEF MB!MailboxNext, ClockAdvances
<1> QED
  BY <1>1, <1>2 DEF get_or_subscribe, wait_for_message, give_message
\* cleanup_expired removes expired rows only.
LEMMA CleanupMailbox ==
  ASSUME ListInv, ClockAdvances, cleanup_expired
  PROVE  MB!MailboxNext
<1>1. UNCHANGED <<value, home>> /\ (entries' = delete_expired(entries) \/ entries' = entries)
  BY DEF cleanup_expired
<1>2. \A id \in Ids :
        /\ id \in DOMAIN entries' => id \in DOMAIN entries /\ entries'[id] = entries[id]
        /\ id \in DOMAIN entries \ DOMAIN entries' => entries[id].expires_at < now
  BY <1>1 DEF delete_expired, ExpiredIds, Without, Restrict
<1> QED
  BY <1>1, <1>2, QuietMailbox

\* A restart empties the mailboxes of a store that is not durable.
LEMMA RestartMailbox ==
  ASSUME ListInv, ClockAdvances, Restart
  PROVE  MB!MailboxNext
<1>1. UNCHANGED <<now, value, home>>
  BY DEF Restart, Reopen
<1>2. CASE Durable
  BY <1>1, <1>2, QuietMailbox DEF Restart, Reopen
<1>3. CASE ~Durable
  <2>1. \A id \in Ids : held(id)' = MB!Absent
    BY <1>3 DEF Restart, Reopen, held, Readable, MB!Absent
  <2>2. [id \in Ids |-> held(id)]' = [id \in Ids |-> MB!Absent]
    BY <2>1
  <2>3. deliveries' = deliveries
    BY <1>1, NothingDelivered
  <2>4. MB!Lose
    BY <1>1, <1>3, <2>2, <2>3 DEF MB!Lose
  <2> QED
    BY <2>4 DEF MB!MailboxNext, ClockAdvances
<1> QED
  BY <1>2, <1>3

\* Every step of the list, with a clock that is not set back, is a step of the mailboxes.
LEMMA MailboxStep ==
  ASSUME ~ClockJumps, ListInv, NotGivenYet, [ListNext]_list_vars
  PROVE  MB!MailboxNext
<1>1. ClockAdvances
  <2>1. now \in Nat /\ now' \in Nat
    BY ListInvStep, RepositoryAssumption DEF ListInv, RepoTypeOK
  <2>2. now' = now \/ now' \in LaterReadings
    <3>1. CASE StoreAndSubscribeStep
      BY <3>1 DEF StoreAndSubscribeStep, store_and_subscribe_ack
    <3>2. CASE StoreStep \/ AckStep \/ SubscribeAckStep \/ GetOrSubscribeStep
      BY <3>2 DEF StoreStep, store, AckStep, ack, SubscribeAckStep, subscribe_ack,
                  GetOrSubscribeStep, get_or_subscribe, list_vars
    <3>3. CASE cleanup_expired \/ Restart \/ \E c \in Calls : CloseReceiver(c)
      BY <3>3 DEF cleanup_expired, Restart, Reopen, CloseReceiver
    <3>4. CASE PruneIntervalPasses \/ ClockTick \/ UNCHANGED list_vars
      BY <3>4 DEF PruneIntervalPasses, ClockTick, Tick, list_vars
    <3> QED
      BY <3>1, <3>2, <3>3, <3>4 DEF ListNext
  <2> QED
    BY <2>1, <2>2 DEF LaterReadings, ClockAdvances
<1>2. CASE StoreStep
  BY <1>1, <1>2, StoreMailbox DEF StoreStep, Unposted
<1>3. CASE StoreAndSubscribeStep
  BY <1>1, <1>3, StoreAndSubscribeMailbox DEF StoreAndSubscribeStep, Unposted, Unused
<1>4. CASE AckStep
  BY <1>1, <1>4, AckMailbox DEF AckStep
<1>5. CASE GetOrSubscribeStep
  BY <1>1, <1>5, GetMailbox DEF GetOrSubscribeStep, Unused
<1>6. CASE cleanup_expired
  BY <1>1, <1>6, CleanupMailbox
<1>7. CASE Restart
  BY <1>1, <1>7, RestartMailbox
<1>8. CASE \/ SubscribeAckStep \/ \E c \in Calls : CloseReceiver(c)
           \/ PruneIntervalPasses \/ ClockTick \/ UNCHANGED list_vars
  <2>1. UNCHANGED <<entries, value, home>>
    BY <1>8 DEF SubscribeAckStep, subscribe_ack, CloseReceiver, PruneIntervalPasses,
                ClockTick, Tick, list_vars
  <2> QED
    BY <1>1, <2>1, QuietMailbox
<1> QED
  BY <1>2, <1>3, <1>4, <1>5, <1>6, <1>7, <1>8 DEF ListNext

\* Messages are handed over only to a channel that resolves by it.
LEMMA NotGivenYetStep ==
  ASSUME ListInv, NotGivenYet, [ListNext]_list_vars
  PROVE  NotGivenYet'
<1> SUFFICES ASSUME NEW c \in Calls, receiver'[c] \in {"none", "open"}
             PROVE  value'[c] = None
  BY DEF NotGivenYet
<1>1. receiver \in [Calls -> ReceiverStates] /\ value \in [Calls -> Messages \cup {None}]
  BY InvContext DEF ListInv
<1>2. receiver[c] \in {"none", "open"} => value[c] = None
  BY DEF NotGivenYet
<1>3. ASSUME NEW sent, NEW dropped, NEW m, value' = Given(sent, m),
             \/ receiver' = Signalled(sent, dropped)
             \/ \E d \in Calls : /\ receiver[d] = "none"
                                 /\ receiver' = [Signalled(sent, dropped) EXCEPT ![d] = "open"]
      PROVE  value'[c] = None
  BY <1>1, <1>2, <1>3 DEF Given, Signalled
<1>4. CASE StoreStep
  BY <1>2, <1>3, <1>4 DEF StoreStep, store
<1>5. CASE StoreAndSubscribeStep
  BY <1>2, <1>3, <1>5
  DEF StoreAndSubscribeStep, store_and_subscribe_ack, subscribe_stored, Unused
<1>6. CASE AckStep
  BY <1>1, <1>2, <1>6 DEF AckStep, ack, list_vars, Signalled
<1>7. CASE SubscribeAckStep \/ GetOrSubscribeStep
  BY <1>1, <1>2, <1>7
  DEF SubscribeAckStep, subscribe_ack, GetOrSubscribeStep, get_or_subscribe,
      wait_for_message, give_message, Unused
<1>8. CASE cleanup_expired \/ Restart
  BY <1>1, <1>2, <1>8 DEF cleanup_expired, Restart, Reopen, Signalled
<1>9. CASE \/ \E d \in Calls : CloseReceiver(d)
           \/ PruneIntervalPasses \/ ClockTick \/ UNCHANGED list_vars
  BY <1>1, <1>2, <1>9 DEF CloseReceiver, PruneIntervalPasses, ClockTick, Tick, list_vars
<1> QED
  BY <1>4, <1>5, <1>6, <1>7, <1>8, <1>9 DEF ListNext
(***************************************************************************)
(* Theorems of the specifications.                                         *)
(***************************************************************************)

\* The empty list is a set of empty mailboxes.
LEMMA MailboxStart ==
  ASSUME ListInit
  PROVE  MB!MailboxInit
<1>1. /\ DOMAIN entries = {} /\ now = 0
      /\ \A c \in Calls : value[c] = None
      /\ \A m \in Messages : home[m] = None
  BY DEF ListInit, RepoInit
<1>2. [id \in Ids |-> held(id)] = [id \in Ids |-> MB!Absent]
  BY <1>1 DEF held, Readable, MB!Absent
<1>3. deliveries = {} /\ {m \in Messages : home[m] # None} = {}
  BY <1>1 DEF deliveries
<1> QED
  BY <1>1, <1>2, <1>3 DEF MB!MailboxInit

\* A channel is given a message at most once.
THEOREM GivenAtMostOnce == ListSpec => []NotGivenYet
<1>1. ListInit => NotGivenYet
  BY DEF ListInit, NotGivenYet
<1>2. ListInv /\ NotGivenYet /\ [ListNext]_list_vars => NotGivenYet'
  BY NotGivenYetStep
<1> QED
  BY <1>1, <1>2, ListInvariant, PTL DEF ListSpec

\* The waiting list implements one mailbox per id, if the clock is not set back.
THEOREM ListIsMailbox ==
  ASSUME ~ClockJumps
  PROVE  ListSpec => IsMailbox
<1>1. ListInit => MB!MailboxInit
  BY MailboxStart
<1>2. ListInv /\ NotGivenYet /\ [ListNext]_list_vars => [MB!MailboxNext]_(MB!mailbox_vars)
  BY MailboxStep
<1> QED
  BY <1>1, <1>2, ListInvariant, GivenAtMostOnce, PTL DEF ListSpec, IsMailbox, MB!MailboxSpec

\* So does the relay: its clients see mailboxes, whatever the waiters, the capacity,
\* the storage errors and the restarts do.
THEOREM RelayIsMailbox ==
  ASSUME ~ClockJumps
  PROVE  Spec => IsMailbox
BY RelayIsWaitingList, ListIsMailbox, PTL
==============================================================================
