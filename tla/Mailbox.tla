------------------------------- MODULE Mailbox -------------------------------
(***************************************************************************)
(* What the relay promises its clients: one mailbox per id.  A posted      *)
(* message stays until it is acknowledged, replaced by another message or  *)
(* past its time to live, and consumers are given it only while it is      *)
(* there.  The acknowledgment is remembered as long as there is room.      *)
(* Waiters, capacity, caching and cleanup do not show.                     *)
(***************************************************************************)
EXTENDS Integers

CONSTANTS Ids, Messages, Consumers, None, Ttls,
          Durable   \* whether messages survive a restart

VARIABLES
  box,       \* per id, what the mailbox holds
  clock,
  posted,    \* the messages producers have posted, accepted or not
  received   \* the pairs <<consumer, message>> of the deliveries so far

mailbox_vars == <<box, clock, posted, received>>

Absent == [state |-> "absent", message |-> None, until |-> 0]

Pending(m, until) == [state |-> "pending", message |-> m, until |-> until]

Acked(until) == [state |-> "acked", message |-> None, until |-> until]

MailboxInit ==
  /\ box = [id \in Ids |-> Absent]
  /\ clock \in Nat
  /\ posted = {}
  /\ received = {}

\* A mailbox keeps what it holds, unless that has lapsed or only remembers an
\* acknowledgment.
KeptOrFaded(id) ==
  \/ box'[id] = box[id]
  \/ /\ box[id].state = "acked" \/ box[id].until <= clock'
     /\ box'[id] = Absent

\* Everyone in C is handed m.
Give(C, m) == received' = received \cup {<<c, m>> : c \in C}

Submit(m) ==
  /\ m \notin posted
  /\ posted' = posted \cup {m}

\* A message is accepted; it replaces what the mailbox held, and goes to the
\* consumers waiting for it.  Only a zero or tiny ttl can make it lapse at once.
Post(id, m) ==
  /\ Submit(m)
  /\ \E C \in SUBSET Consumers : Give(C, m)
  /\ \E ttl \in Ttls :
       box'[id] = IF clock + ttl <= clock' THEN Absent ELSE Pending(m, clock + ttl)
  /\ \A other \in Ids \ {id} : KeptOrFaded(other)

\* A message that is not stored: refused, or handed on although storing failed.
PassOn(m) ==
  /\ Submit(m)
  /\ \E C \in SUBSET Consumers : Give(C, m)
  /\ \A id \in Ids : KeptOrFaded(id)

Deliver(c, id) ==
  /\ box[id].state = "pending" /\ clock < box[id].until
  /\ Give({c}, box[id].message)
  /\ UNCHANGED <<box, clock, posted>>

Acknowledge(id) ==
  /\ box[id].state = "pending" /\ clock < box[id].until
  /\ box' = [box EXCEPT ![id] = Acked(box[id].until)]
  /\ UNCHANGED <<clock, posted, received>>

\* Time passes, acknowledgments are forgotten.
Fade ==
  /\ \A id \in Ids : KeptOrFaded(id)
  /\ UNCHANGED <<posted, received>>

Lose ==
  /\ ~Durable
  /\ box' = [id \in Ids |-> Absent]
  /\ UNCHANGED <<clock, posted, received>>

MailboxNext ==
  /\ clock' \in Nat /\ clock' >= clock
  /\ \/ \E id \in Ids, m \in Messages : Post(id, m)
     \/ \E m \in Messages : PassOn(m)
     \/ \E c \in Consumers, id \in Ids : Deliver(c, id)
     \/ \E id \in Ids : Acknowledge(id)
     \/ Fade
     \/ Lose

MailboxSpec == MailboxInit /\ [][MailboxNext]_mailbox_vars
==============================================================================
