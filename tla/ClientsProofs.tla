---------------------------- MODULE ClientsProofs ----------------------------
(***************************************************************************)
(* Theorems about the relay together with its clients, for any number of   *)
(* producers, consumers and requests: what the loops of src/README.md may  *)
(* rely on whatever calls fail, are repeated or come late.  The relay      *)
(* keeps the invariant of its handlers (RelayProofs) although the names of *)
(* finished requests are used again.                                       *)
(***************************************************************************)
EXTENDS Clients, RelayProofs

(***************************************************************************)
(* The inductive invariant.                                                *)
(***************************************************************************)

ClientTypes ==
  /\ at \in [Callers -> {"post", "await", "returned", "get", "delete"}]
  /\ call \in [Callers -> Requests \cup {None}]
  /\ sent \in SUBSET Requests
  /\ author \in [InboxPosts -> Producers \cup {None}]
  /\ sent_at \in [InboxPosts -> 0..MaxTime]
  /\ got \in [Consumers -> Producers \cup {None}]
  /\ consumed \in [Consumers -> SUBSET Producers]

\* The loops: where a client is tells what it calls and whether it holds data.
LoopsOK ==
  /\ \A p \in Producers : at[p] \in {"post", "await", "returned"}
  /\ \A c \in Consumers : at[c] \in {"get", "delete"} /\ (at[c] = "delete" <=> got[c] # None)
  /\ \A x \in Callers : call[x] # None => call[x] \in sent \cap Attempts(at[x])
  /\ \A x, y \in Callers : call[x] = call[y] /\ call[x] # None => x = y

\* The relay has seen nothing of a request that was not sent, and every message it
\* has was posted to the clients' id by one of the producers.
SentOK ==
  /\ sent \subseteq InboxPosts \cup InboxGets \cup InboxDeletes \cup InboxAwaits
  /\ \A r \in Requests \ sent : pc[r] = "arrived"
  /\ \A m \in InboxPosts : author[m] # None <=> m \in sent
  /\ \A m \in InboxPosts : home[m] \in {None, channelId}
  /\ \A c \in Consumers, p \in Producers :
       p \in consumed[c] \cup {got[c]} => \E m \in InboxPosts : author[m] = p

ClientsInv == HandlersInv /\ ClientTypes /\ LoopsOK /\ SentOK

NobodyYet == \A p \in Producers : ~Seen(p)

\* Until a consumer was handed some data nothing is acknowledged, and no producer is
\* told that anything was.
NothingAcked ==
  NobodyYet =>
    /\ acked_messages = {}
    /\ \A id \in DOMAIN entries : ~entries[id].acked
    /\ sent \cap InboxDeletes = {}
    /\ \A w \in InboxAwaits : receiver[w] # "sent" /\ reply[w] # "OK"
    /\ \A p \in Producers : at[p] # "returned"

\* The clients' row outlives every POST that was answered 200 and may still be wanted.
Kept ==
  \A m \in InboxPosts :
    reply[m] = "OK" /\ now < sent_at[m] + InboxTtl =>
      /\ channelId \in DOMAIN entries
      /\ entries[channelId].expires_at >= sent_at[m] + InboxTtl

\* A POST that is served late is stored no earlier than it was sent.
SentBefore == \A m \in InboxPosts : sent_at[m] <= now

\* Until the first delivery, what was stored stays stored.
StillStored == SentBefore /\ (NobodyYet => Kept)

\* The message m is all its producer has posted so far.
OnlyPost(m) == author[m] # None /\ \A q \in InboxPosts : author[q] = author[m] => q = m

\* What consumer c knows of the message m, if it is all its producer has posted: once c
\* has returned it, or has the answer to its DELETE, m cannot be delivered any more.
FinishedOK(c, m) ==
  /\ got[c] = author[m] =>
       /\ home[m] # None
       /\ call[c] # None /\ pc[call[c]] = "done" => Over(m)
  /\ author[m] \in consumed[c] =>
       /\ home[m] # None /\ Over(m)
       /\ got[c] # author[m]
       /\ at[c] = "get" /\ call[c] # None => value[call[c]] # m

NoRedelivery == \A c \in Consumers, m \in InboxPosts : OnlyPost(m) => FinishedOK(c, m)

(***************************************************************************)
(* What the steps do.                                                      *)
(***************************************************************************)

\* The kinds of requests and clients.
LEMMA ClientKinds ==
  /\ channelId \in Ids /\ None # channelId
  /\ None \notin Requests /\ None \notin Producers /\ None \notin Messages
  /\ Producers \cap Consumers = {}
  /\ InboxPosts \cup InboxGets \cup InboxDeletes \cup InboxAwaits \subseteq Requests
  /\ Calls = Requests
  /\ InboxPosts \subseteq Messages
  /\ InboxPosts \cap (InboxGets \cup InboxDeletes \cup InboxAwaits) = {}
  /\ InboxGets \cap (InboxDeletes \cup InboxAwaits) = {}
  /\ InboxDeletes \cap InboxAwaits = {}
  /\ (LinkPosts \cup LinkGets) \cap (InboxPosts \cup InboxGets \cup InboxDeletes \cup InboxAwaits) = {}
  /\ Messages \cap (InboxGets \cup InboxDeletes \cup InboxAwaits) = {}
BY KindsAreApart, ClientsAssumption, RelayAssumption, RepositoryAssumption DEF Requests

\* A step of the clients alone leaves the relay as it is.
LEMMA RelayUntouched ==
  ASSUME HandlersInv, UNCHANGED relay_vars
  PROVE  HandlersInv'
BY HandlersInvStep

\* The relay works on a request that was sent.
LEMMA ServeFacts ==
  ASSUME HandlersInv, NEW r \in Requests, serve(r)
  PROVE  /\ r \in sent /\ pc[r] = "arrived"
         /\ Handled(r) /\ HandlersInv'
         /\ UNCHANGED client_vars
         /\ r \in InboxPosts => home' = [home EXCEPT ![r] = channelId]
<1>1. channelId \in Ids
  BY ClientKinds
<1>2. r \in sent /\ pc[r] = "arrived" /\ UNCHANGED client_vars
  BY DEF serve, inbox_post, inbox_get, inbox_delete, inbox_await, Handle
<1>3. \/ r \in InboxPosts /\ inbox_post(r, channelId)
      \/ r \in InboxGets /\ inbox_get(r, channelId)
      \/ r \in InboxDeletes /\ inbox_delete(r, channelId)
      \/ r \in InboxAwaits /\ inbox_await(r, channelId)
  BY DEF serve
<1>4. Handled(r)
  BY <1>1, <1>3, InboxPostHandled, GetHandled, InboxDeleteHandled, InboxAwaitHandled
<1>5. HandlersInv'
  <2>1. Next
    BY <1>1, <1>3 DEF Next
  <2> QED
    BY <2>1, HandlersInvStep
<1>6. r \in InboxPosts => home' = [home EXCEPT ![r] = channelId]
  BY <1>3, ClientKinds DEF inbox_post, store
<1> QED
  BY <1>2, <1>4, <1>5, <1>6

\* A request that waits ends or goes on to its ACK.
LEMMA SettleFacts ==
  ASSUME HandlersInv, NEW r \in Requests, settle(r)
  PROVE  /\ pc[r] \in {"waiting", "acking"}
         /\ Handled(r) /\ HandlersInv'
         /\ UNCHANGED client_vars
         /\ UNCHANGED <<entries, now, value, home, acked_messages>>
<1>1. wake(r) \/ time_out(r) \/ disconnect(r)
  BY DEF settle
<1>2. /\ pc[r] \in {"waiting", "acking"}
      /\ UNCHANGED <<entries, now, value, home, acked_messages>>
  BY <1>1 DEF wake, time_out, disconnect, CloseReceiver, list_vars
<1>3. Handled(r)
  BY <1>1, WakeHandled, LeaveHandled
<1>4. HandlersInv'
  <2>1. Next
    BY <1>1 DEF Next
  <2> QED
    BY <2>1, HandlersInvStep
<1> QED
  BY <1>2, <1>3, <1>4 DEF settle

\* The relay does something on its own account, or stops and starts again.
LEMMA OwnFacts ==
  ASSUME HandlersInv, OnItsOwn
  PROVE  /\ Idle \/ restart
         /\ HandlersInv'
         /\ UNCHANGED client_vars
         /\ UNCHANGED <<value, home, acked_messages, reply>>
         /\ \A r \in Requests :
              pc'[r] # pc[r] => pc[r] \in {"waiting", "acking"} /\ pc'[r] = "gone"
<1>1. cleanup_task \/ restart \/ Passing
  BY DEF OnItsOwn
<1>2. HandlersInv'
  <2>1. Next
    BY <1>1 DEF Next
  <2> QED
    BY <2>1, HandlersInvStep
<1>3. CASE restart
  BY <1>2, <1>3, RestartFacts DEF OnItsOwn
<1>4. CASE cleanup_task
  <2>1. Idle
    BY <1>4, CleanupEffect DEF HandlersInv, cleanup_task, Idle
  <2> QED
    BY <1>2, <1>4, <2>1 DEF Idle, OnItsOwn, cleanup_task, cleanup_expired
<1>5. CASE Passing
  <2>1. /\ UNCHANGED <<entries, receiver, value, awaits, home, acked_messages, pc, target, reply>>
        /\ now' = now \/ now' \in LaterReadings
    BY <1>5 DEF Passing, ClockTick, Tick, PruneIntervalPasses
  <2>2. Idle
    BY <2>1, StillEffect DEF HandlersInv, Idle
  <2> QED
    BY <1>2, <2>1, <2>2 DEF OnItsOwn
<1> QED
  BY <1>1, <1>3, <1>4, <1>5

\* An abandoned request is lost before the relay has seen it.
LEMMA LoseFacts ==
  ASSUME HandlersInv, NEW r \in Requests, lose(r)
  PROVE  /\ HandlersInv'
         /\ r \in Abandoned /\ pc[r] = "arrived"
         /\ UNCHANGED <<list_vars, target, reply, client_vars>>
         /\ \A c \in Requests : pc'[c] = IF c = r THEN "gone" ELSE pc[c]
<1>1. /\ r \in Abandoned /\ pc[r] = "arrived" /\ pc' = [pc EXCEPT ![r] = "gone"]
      /\ UNCHANGED <<list_vars, target, reply, client_vars>>
  BY DEF lose, Proceed
<1>2. ListInv' /\ Slim(waiters, max_entries)'
  <2>1. ListInv'
    BY <1>1, StutterInv DEF HandlersInv
  <2>2. Slim(waiters', max_entries')
    BY <1>1 DEF HandlersInv, list_vars
  <2> QED
    BY <2>1, <2>2 DEF Slim, IsWaiterMap, Size
<1>3. RelayTypes' /\ \A c \in Requests : pc'[c] = IF c = r THEN "gone" ELSE pc[c]
  BY <1>1 DEF HandlersInv, RelayTypes
<1>4. GivenPosted'
  BY <1>1 DEF HandlersInv, GivenPosted, list_vars
<1>5. \A c \in Requests : RequestOK(c)'
  BY <1>1, <1>3 DEF HandlersInv, RequestOK, list_vars
<1>6. \A c \in Requests : AnswerOK(c)'
  BY <1>1 DEF HandlersInv, AnswerOK, Unseen, list_vars
<1> QED
  BY <1>1, <1>2, <1>3, <1>4, <1>5, <1>6 DEF HandlersInv

\* The name of a finished request is used again.
LEMMA ForgetFacts ==
  ASSUME HandlersInv, sent \in SUBSET Requests, NEW r \in Requests, forget(r),
         r \notin LinkPosts
  PROVE  /\ HandlersInv'
         /\ r \in Abandoned /\ r \notin InboxPosts /\ sent' = sent \ {r}
         /\ UNCHANGED <<entries, now, home, acked_messages, at, call, author, sent_at, got, consumed>>
         /\ \A c \in Requests \ {r} :
              /\ pc'[c] = pc[c] /\ reply'[c] = reply[c]
              /\ receiver'[c] = receiver[c] /\ value'[c] = value[c] /\ awaits'[c] = awaits[c]
         /\ pc'[r] = "arrived" /\ reply'[r] = "none" /\ receiver'[r] = "none"
<1>1. /\ r \in Abandoned /\ r \notin InboxPosts /\ sent' = sent \ {r}
      /\ r \notin Senders(waiters, Ids)
      /\ UNCHANGED <<entries, now, max_entries, waiters, prune_due, home, acked_messages,
                     at, call, author, sent_at, got, consumed>>
  BY DEF forget
<1>2. /\ ListInv /\ RelayTypes /\ Requests = Calls
      /\ receiver \in [Calls -> ReceiverStates] /\ awaits \in [Calls -> Messages \cup {None}]
      /\ value \in [Calls -> Messages \cup {None}]
  BY InvContext, RelayAssumption DEF HandlersInv, ListInv, Meant
<1>3. /\ RelayTypes' /\ receiver' \in [Calls -> ReceiverStates]
      /\ awaits' \in [Calls -> Messages \cup {None}]
      /\ value' \in [Calls -> Messages \cup {None}]
      /\ \A c \in Requests \ {r} :
           /\ pc'[c] = pc[c] /\ reply'[c] = reply[c] /\ target'[c] = target[c]
           /\ receiver'[c] = receiver[c] /\ value'[c] = value[c] /\ awaits'[c] = awaits[c]
      /\ pc'[r] = "arrived" /\ reply'[r] = "none" /\ receiver'[r] = "none"
      /\ value'[r] = None /\ awaits'[r] = None
  BY <1>2 DEF forget, RelayTypes, ReceiverStates
<1>4. \A id \in Ids, kind \in Kinds : ~Waits(waiters, id, kind, r)
  BY <1>1, <1>2, SendersAre DEF ListInv, Wired
<1>5. ListInv'
  <2>1. Wired(waiters, receiver')
    BY <1>2, <1>3, <1>4 DEF ListInv, Wired
  <2>2. Meant(waiters, receiver', entries, home, awaits', acked_messages)
    BY <1>2, <1>3, <1>4 DEF ListInv, Meant, AwaitsRow, Kinds
  <2>3. Wired(waiters', receiver') /\ Meant(waiters', receiver', entries', home', awaits', acked_messages')
    BY <1>1, <2>1, <2>2
  <2> QED
    BY <1>1, <1>2, <1>3, <2>3, InvAfter DEF ListInv, RepoTypeOK
<1>6. Slim(waiters, max_entries)'
  <2>1. Slim(waiters', max_entries')
    BY <1>1 DEF HandlersInv
  <2> QED
    BY <2>1 DEF Slim, IsWaiterMap, Size
<1>7. GivenPosted'
  BY <1>1, <1>2, <1>3 DEF HandlersInv, GivenPosted
<1>8. r \notin Messages
  BY <1>1, RelayAssumption
<1>9. \A c \in Requests : RequestOK(c)'
  BY <1>1, <1>3, <1>8 DEF HandlersInv, RequestOK
<1>10. \A c \in Requests : AnswerOK(c)'
  BY <1>1, <1>3, <1>8, RelayAssumption, RepositoryAssumption DEF HandlersInv, AnswerOK, Unseen
<1> QED
  BY <1>1, <1>3, <1>5, <1>6, <1>7, <1>9, <1>10 DEF HandlersInv

(***************************************************************************)
(* The loops keep to themselves.                                           *)
(***************************************************************************)

\* After a step of the relay.
LEMMA RelayStepKeeps ==
  ASSUME ClientsInv, HandlersInv', UNCHANGED client_vars,
         \A r \in Requests \ sent : pc'[r] = "arrived",
         \A m \in InboxPosts : home'[m] = home[m] \/ home'[m] = channelId
  PROVE  ClientsInv'
<1>1. ClientTypes' /\ LoopsOK'
  BY DEF ClientsInv, ClientTypes, LoopsOK, client_vars
<1>2. SentOK'
  BY DEF ClientsInv, SentOK, client_vars
<1> QED
  BY <1>1, <1>2 DEF ClientsInv

\* A step of one request.
LEMMA RelayKeepsClients ==
  ASSUME ClientsInv, NEW r \in Requests, serve(r) \/ settle(r) \/ lose(r)
  PROVE  ClientsInv'
<1>1. HandlersInv /\ SentOK
  BY DEF ClientsInv
<1>2. CASE serve(r)
  <2>1. /\ HandlersInv' /\ UNCHANGED client_vars /\ r \in sent /\ OnlyMoves(r) /\ Frame(r)
        /\ r \in InboxPosts => home' = [home EXCEPT ![r] = channelId]
    BY <1>1, <1>2, ServeFacts DEF Handled
  <2>2. \A m \in InboxPosts : home'[m] = home[m] \/ home'[m] = channelId
    BY <1>1, <2>1, ClientKinds DEF Frame, HandlersInv, ListInv, Meant
  <2> QED
    BY <1>1, <2>1, <2>2, RelayStepKeeps DEF SentOK, OnlyMoves
<1>3. CASE settle(r)
  <2>1. /\ HandlersInv' /\ UNCHANGED client_vars /\ pc[r] \in {"waiting", "acking"} /\ OnlyMoves(r)
        /\ UNCHANGED home
    BY <1>1, <1>3, SettleFacts DEF Handled
  <2>2. r \in sent
    BY <1>1, <2>1 DEF SentOK
  <2> QED
    BY <1>1, <2>1, <2>2, RelayStepKeeps DEF SentOK, OnlyMoves
<1>4. CASE lose(r)
  <2>1. /\ HandlersInv' /\ UNCHANGED client_vars /\ r \in sent /\ UNCHANGED home
        /\ \A c \in Requests \ {r} : pc'[c] = pc[c]
    BY <1>1, <1>4, LoseFacts DEF Abandoned, list_vars
  <2> QED
    BY <1>1, <2>1, RelayStepKeeps DEF SentOK
<1> QED
  BY <1>2, <1>3, <1>4

\* A finished request is nobody's, so its name can go.
LEMMA ForgetKeepsClients ==
  ASSUME ClientsInv, NEW r \in Requests, forget(r)
  PROVE  ClientsInv'
<1>1. HandlersInv /\ SentOK /\ ClientTypes /\ LoopsOK
  BY DEF ClientsInv
<1>2. r \notin LinkPosts
  BY <1>1, ClientKinds DEF SentOK, forget, Abandoned
<1>3. /\ HandlersInv'
      /\ r \in Abandoned /\ r \notin InboxPosts /\ sent' = sent \ {r}
      /\ UNCHANGED <<home, at, call, author, sent_at, got, consumed>>
      /\ \A c \in Requests \ {r} : pc'[c] = pc[c]
      /\ pc'[r] = "arrived"
  BY <1>1, <1>2, ForgetFacts DEF ClientTypes
<1>4. \A x \in Callers : call[x] # r
  BY <1>3 DEF Abandoned, Called
<1>5. ClientTypes'
  BY <1>1, <1>3 DEF ClientTypes
<1>6. LoopsOK'
  BY <1>1, <1>3, <1>4 DEF LoopsOK
<1>7. SentOK'
  BY <1>1, <1>3 DEF SentOK
<1> QED
  BY <1>3, <1>5, <1>6, <1>7 DEF ClientsInv

\* Whatever the relay has of a message, one of the producers posted it.
LEMMA PostedAuthor ==
  ASSUME ClientsInv, NEW m \in Messages, home[m] # None
  PROVE  m \in InboxPosts /\ m \in sent /\ author[m] \in Producers
<1>1. m \in Requests /\ RequestOK(m)
  BY RelayAssumption DEF ClientsInv, HandlersInv, Requests
<1>2. m \in sent
  BY <1>1 DEF RequestOK, ClientsInv, SentOK
<1>3. m \in InboxPosts
  BY <1>2, ClientKinds DEF ClientsInv, SentOK
<1> QED
  BY <1>2, <1>3 DEF ClientsInv, SentOK, ClientTypes

\* What a GET /inbox answers is a message one of the producers posted.
LEMMA GivenAuthor ==
  ASSUME ClientsInv, NEW g \in InboxGets, reply[g] = "OK"
  PROVE  /\ value[g] \in InboxPosts /\ home[value[g]] # None
         /\ author[value[g]] \in Producers
<1>1. g \in Requests /\ g \in Calls /\ RequestOK(g) /\ GivenPosted
  BY ClientKinds DEF ClientsInv, HandlersInv
<1>2. value[g] \in Messages /\ home[value[g]] # None
  BY <1>1 DEF RequestOK, GivenPosted, ClientsInv, HandlersInv, ListInv
<1> QED
  BY <1>2, PostedAuthor

\* What each kind of client calls.
LEMMA CallKinds ==
  ASSUME ClientTypes, LoopsOK, NEW x \in Callers, NEW r \in Attempts(at[x])
  PROVE  /\ at[x] = "post" => r \in InboxPosts /\ x \in Producers
         /\ at[x] = "await" => r \in InboxAwaits /\ x \in Producers
         /\ at[x] = "get" => r \in InboxGets /\ x \in Consumers
         /\ at[x] = "delete" => r \in InboxDeletes /\ x \in Consumers
         /\ at[x] # "returned"
         /\ x \in Producers => at[x] \in {"post", "await"}
         /\ x \in Consumers => at[x] \in {"get", "delete"}
<1>1. at[x] \in {"post", "await", "returned", "get", "delete"}
  BY DEF ClientTypes
<1>2. x \in Producers \/ x \in Consumers
  BY DEF Callers
<1>3. /\ x \in Producers => at[x] \in {"post", "await", "returned"}
      /\ x \in Consumers => at[x] \in {"get", "delete"}
  BY DEF LoopsOK
<1>4. /\ at[x] = "post" => r \in InboxPosts
      /\ at[x] = "await" => r \in InboxAwaits
      /\ at[x] = "get" => r \in InboxGets
      /\ at[x] = "delete" => r \in InboxDeletes
      /\ at[x] # "returned"
  BY DEF Attempts
<1> QED
  BY <1>1, <1>2, <1>3, <1>4

\* A client sends a request of its own.
LEMMA FetchKeepsClients ==
  ASSUME ClientsInv, NEW x \in Callers, NEW r \in Requests, fetch(x, r)
  PROVE  ClientsInv'
<1>1. ClientTypes /\ LoopsOK /\ SentOK /\ HandlersInv
  BY DEF ClientsInv
<1>2. /\ r \in Attempts(at[x]) /\ r \notin sent /\ call[x] = None
      /\ call' = [call EXCEPT ![x] = r] /\ sent' = sent \cup {r}
      /\ author' = IF r \in InboxPosts THEN [author EXCEPT ![r] = x] ELSE author
      /\ sent_at' = IF r \in InboxPosts THEN [sent_at EXCEPT ![r] = now] ELSE sent_at
      /\ UNCHANGED <<relay_vars, at, got, consumed>>
  BY DEF fetch
<1>3. /\ r \in InboxPosts \cup InboxGets \cup InboxDeletes \cup InboxAwaits
      /\ r \in InboxPosts => x \in Producers
      /\ x \in Producers => x # None
      /\ now \in 0..MaxTime
  BY <1>1, <1>2, CallKinds, ClientKinds
  DEF ClientTypes, HandlersInv, ListInv, RepoTypeOK
<1>4. /\ \A m \in InboxPosts : author'[m] = IF m = r THEN x ELSE author[m]
      /\ \A y \in Callers : call'[y] = IF y = x THEN r ELSE call[y]
  BY <1>1, <1>2 DEF ClientTypes
<1>5. ClientTypes'
  BY <1>1, <1>2, <1>3 DEF ClientTypes
<1>6. LoopsOK'
  <2>1. \A y \in Callers : call[y] # r
    BY <1>1, <1>2, ClientKinds DEF LoopsOK
  <2> QED
    BY <1>1, <1>2, <1>4, <2>1, ClientKinds DEF LoopsOK
<1>7. SentOK'
  <2>1. \A m \in InboxPosts : author'[m] # None <=> m \in sent'
    BY <1>1, <1>2, <1>3, <1>4, ClientKinds DEF SentOK
  <2>2. \A m \in InboxPosts : author[m] # None => author'[m] = author[m]
    BY <1>1, <1>2, <1>4 DEF SentOK
  <2>3. \A c \in Consumers, p \in Producers :
          p \in consumed[c] \cup {got[c]} => \E m \in InboxPosts : author'[m] = p
    BY <1>1, <2>2, ClientKinds DEF SentOK
  <2> QED
    BY <1>1, <1>2, <1>3, <2>1, <2>3 DEF SentOK, relay_vars
<1>8. HandlersInv'
  BY <1>1, <1>2, RelayUntouched
<1> QED
  BY <1>5, <1>6, <1>7, <1>8 DEF ClientsInv

\* A call fails.
LEMMA ErrorKeepsClients ==
  ASSUME ClientsInv, NEW x \in Callers, network_error(x)
  PROVE  ClientsInv'
<1>1. ClientTypes /\ LoopsOK /\ SentOK /\ HandlersInv
  BY DEF ClientsInv
<1>2. /\ call' = [call EXCEPT ![x] = None]
      /\ UNCHANGED <<relay_vars, at, sent, author, sent_at, got, consumed>>
  BY DEF network_error
<1>3. \A y \in Callers : call'[y] = IF y = x THEN None ELSE call[y]
  BY <1>1, <1>2 DEF ClientTypes
<1>4. ClientTypes'
  BY <1>1, <1>2 DEF ClientTypes
<1>5. LoopsOK'
  BY <1>1, <1>2, <1>3 DEF LoopsOK
<1>6. SentOK'
  BY <1>1, <1>2 DEF SentOK, relay_vars
<1>7. HandlersInv'
  BY <1>1, <1>2, RelayUntouched
<1> QED
  BY <1>4, <1>5, <1>6, <1>7 DEF ClientsInv

\* A producer has an answer.
LEMMA ProduceKeepsClients ==
  ASSUME ClientsInv, NEW x \in Callers, produce(x)
  PROVE  ClientsInv'
<1>1. ClientTypes /\ LoopsOK /\ SentOK /\ HandlersInv
  BY DEF ClientsInv
<1>2. /\ x \in Producers /\ call[x] # None
      /\ call' = [call EXCEPT ![x] = None]
      /\ UNCHANGED <<relay_vars, sent, author, sent_at, got, consumed>>
  BY DEF produce, Answered
<1>3. \A y \in Callers : call'[y] = IF y = x THEN None ELSE call[y]
  BY <1>1, <1>2 DEF ClientTypes
<1>4. PICK place \in {"post", "await", "returned"} : at' = [at EXCEPT ![x] = place]
  BY <1>1, <1>2 DEF produce, LoopsOK
<1>5. \A y \in Callers : at'[y] = IF y = x THEN place ELSE at[y]
  BY <1>1, <1>4 DEF ClientTypes
<1>6. ClientTypes'
  BY <1>1, <1>2, <1>4 DEF ClientTypes
<1>7. LoopsOK'
  <2>1. \A p \in Producers : at'[p] \in {"post", "await", "returned"}
    BY <1>1, <1>5 DEF LoopsOK, Callers
  <2>2. \A c \in Consumers : at'[c] = at[c]
    BY <1>2, <1>5, ClientKinds DEF Callers
  <2> QED
    BY <1>1, <1>2, <1>3, <1>5, <2>1, <2>2 DEF LoopsOK
<1>8. SentOK'
  BY <1>1, <1>2 DEF SentOK, relay_vars
<1>9. HandlersInv'
  BY <1>1, <1>2, RelayUntouched
<1> QED
  BY <1>6, <1>7, <1>8, <1>9 DEF ClientsInv

\* How a consumer goes on with an answer.
LEMMA ConsumeFacts ==
  ASSUME ClientsInv, NEW x \in Callers, consume(x)
  PROVE  /\ x \in Consumers /\ call[x] # None /\ pc[call[x]] = "done"
         /\ \A y \in Callers : call'[y] = IF y = x THEN None ELSE call[y]
         /\ \A y \in Callers \ {x} : at'[y] = at[y]
         /\ \A c \in Consumers \ {x} : got'[c] = got[c] /\ consumed'[c] = consumed[c]
         /\ UNCHANGED <<relay_vars, sent, author, sent_at>>
         /\ \/ /\ at[x] = "get" /\ at'[x] = "delete" /\ consumed'[x] = consumed[x]
               /\ call[x] \in InboxGets /\ reply[call[x]] = "OK"
               /\ got[x] = None /\ got'[x] = author[value[call[x]]]
            \/ /\ at[x] = "get" /\ UNCHANGED <<at, got, consumed>>
            \/ /\ at[x] = "delete" /\ at'[x] = "get" /\ got[x] \in Producers
               /\ got'[x] = None /\ consumed'[x] = consumed[x] \cup {got[x]}
<1>1. ClientTypes /\ LoopsOK
  BY DEF ClientsInv
<1>2. /\ x \in Consumers /\ call[x] # None /\ pc[call[x]] = "done"
      /\ call' = [call EXCEPT ![x] = None]
      /\ UNCHANGED <<relay_vars, sent, author, sent_at>>
  BY DEF consume, Answered
<1>3. \A y \in Callers : call'[y] = IF y = x THEN None ELSE call[y]
  BY <1>1, <1>2 DEF ClientTypes
<1>4. /\ call[x] \in Attempts(at[x])
      /\ at[x] = "delete" <=> got[x] # None
      /\ got[x] \in Producers \cup {None}
  BY <1>1, <1>2 DEF LoopsOK, ClientTypes
<1>5. CASE /\ at[x] = "get" /\ reply[call[x]] = "OK"
           /\ at' = [at EXCEPT ![x] = "delete"]
           /\ got' = [got EXCEPT ![x] = author[value[call[x]]]]
           /\ UNCHANGED consumed
  <2>1. call[x] \in InboxGets /\ got[x] = None
    BY <1>1, <1>4, <1>5, CallKinds
  <2>2. /\ \A y \in Callers \ {x} : at'[y] = at[y]
        /\ \A c \in Consumers \ {x} : got'[c] = got[c] /\ consumed'[c] = consumed[c]
        /\ at'[x] = "delete" /\ got'[x] = author[value[call[x]]]
    BY <1>1, <1>2, <1>5 DEF ClientTypes
  <2> QED
    BY <1>2, <1>3, <1>5, <2>1, <2>2
<1>6. CASE at[x] = "get" /\ UNCHANGED <<at, got, consumed>>
  BY <1>2, <1>3, <1>6
<1>7. CASE /\ at[x] = "delete"
           /\ at' = [at EXCEPT ![x] = "get"]
           /\ got' = [got EXCEPT ![x] = None]
           /\ consumed' = [consumed EXCEPT ![x] = @ \cup {got[x]}]
  <2>1. /\ \A y \in Callers \ {x} : at'[y] = at[y]
        /\ \A c \in Consumers \ {x} : got'[c] = got[c] /\ consumed'[c] = consumed[c]
        /\ at'[x] = "get" /\ got'[x] = None /\ consumed'[x] = consumed[x] \cup {got[x]}
    BY <1>1, <1>2, <1>7 DEF ClientTypes
  <2> QED
    BY <1>2, <1>3, <1>4, <1>7, <2>1
<1> QED
  BY <1>5, <1>6, <1>7 DEF consume

\* A consumer has an answer.
LEMMA ConsumeKeepsClients ==
  ASSUME ClientsInv, NEW x \in Callers, consume(x)
  PROVE  ClientsInv'
<1>1. ClientTypes /\ LoopsOK /\ SentOK /\ HandlersInv
  BY DEF ClientsInv
<1>2. /\ x \in Consumers
      /\ \A y \in Callers : call'[y] = IF y = x THEN None ELSE call[y]
      /\ \A y \in Callers \ {x} : at'[y] = at[y]
      /\ \A c \in Consumers \ {x} : got'[c] = got[c] /\ consumed'[c] = consumed[c]
      /\ UNCHANGED <<relay_vars, sent, author, sent_at>>
  BY ConsumeFacts
<1>3. /\ at'[x] \in {"get", "delete"} /\ (at'[x] = "delete" <=> got'[x] # None)
      /\ got'[x] \in Producers \cup {None}
      /\ consumed'[x] \in SUBSET Producers
      /\ \A p \in Producers :
           p \in consumed'[x] \cup {got'[x]} =>
             p \in consumed[x] \cup {got[x]} \/ \E m \in InboxPosts : author[m] = p
  <2>1. /\ at[x] \in {"get", "delete"} /\ (at[x] = "delete" <=> got[x] # None)
        /\ got[x] \in Producers \cup {None}
        /\ consumed[x] \in SUBSET Producers
    BY <1>1, <1>2 DEF LoopsOK, ClientTypes
  <2>2. ASSUME at'[x] = "delete" /\ consumed'[x] = consumed[x],
               call[x] \in InboxGets /\ reply[call[x]] = "OK",
               got'[x] = author[value[call[x]]]
        PROVE  value[call[x]] \in InboxPosts /\ got'[x] \in Producers /\ got'[x] # None
    BY <2>2, GivenAuthor, ClientKinds
  <2>3. \/ /\ at[x] = "get" /\ at'[x] = "delete" /\ consumed'[x] = consumed[x]
           /\ call[x] \in InboxGets /\ reply[call[x]] = "OK"
           /\ got[x] = None /\ got'[x] = author[value[call[x]]]
        \/ /\ at'[x] = at[x] /\ got'[x] = got[x] /\ consumed'[x] = consumed[x]
        \/ /\ at[x] = "delete" /\ at'[x] = "get" /\ got[x] \in Producers
           /\ got'[x] = None /\ consumed'[x] = consumed[x] \cup {got[x]}
    BY ConsumeFacts
  <2>4. \A p \in Producers :
          p = author[value[call[x]]] /\ value[call[x]] \in InboxPosts =>
            \E m \in InboxPosts : author[m] = p
    OBVIOUS
  <2>5. CASE at'[x] = "delete" /\ at[x] = "get"
    BY <2>1, <2>2, <2>3, <2>4, <2>5, ClientKinds
  <2>6. CASE at'[x] = at[x] /\ got'[x] = got[x] /\ consumed'[x] = consumed[x]
    BY <2>1, <2>6
  <2>7. CASE at[x] = "delete" /\ at'[x] = "get"
    BY <2>1, <2>3, <2>7, ClientKinds
  <2> QED
    BY <2>3, <2>5, <2>6, <2>7
<1>4. ClientTypes'
  <2>1. /\ at' = [at EXCEPT ![x] = at'[x]] /\ got' = [got EXCEPT ![x] = got'[x]]
        /\ consumed' = [consumed EXCEPT ![x] = consumed'[x]]
        /\ call' = [call EXCEPT ![x] = None]
    BY <1>1 DEF ClientTypes, consume, Answered
  <2> QED
    BY <1>1, <1>2, <1>3, <2>1 DEF ClientTypes
<1>5. LoopsOK'
  <2>1. \A p \in Producers : at'[p] = at[p]
    BY <1>2, ClientKinds DEF Callers
  <2> QED
    BY <1>1, <1>2, <1>3, <2>1 DEF LoopsOK, Callers
<1>6. SentOK'
  BY <1>1, <1>2, <1>3 DEF SentOK, relay_vars
<1>7. HandlersInv'
  BY <1>1, <1>2, RelayUntouched
<1> QED
  BY <1>4, <1>5, <1>6, <1>7 DEF ClientsInv

\* The kinds of steps.
LEMMA StepsOfClients ==
  ASSUME [ClientsNext]_all_vars
  PROVE  \/ \E x \in Callers : \/ \E r \in Requests : fetch(x, r)
                               \/ network_error(x)
                               \/ produce(x)
                               \/ consume(x)
         \/ \E r \in Requests : serve(r) \/ settle(r) \/ lose(r) \/ forget(r)
         \/ OnItsOwn
         \/ UNCHANGED all_vars
BY DEF ClientsNext

\* A step that changes nothing.
LEMMA StutterKeepsClients ==
  ASSUME ClientsInv, UNCHANGED all_vars
  PROVE  ClientsInv'
<1>1. HandlersInv' /\ UNCHANGED client_vars /\ UNCHANGED <<pc, home>>
  BY RelayUntouched DEF ClientsInv, all_vars, relay_vars
<1> QED
  BY <1>1, RelayStepKeeps DEF ClientsInv, SentOK

\* Something the relay does on its own account.
LEMMA OwnKeepsClients ==
  ASSUME ClientsInv, OnItsOwn
  PROVE  ClientsInv'
<1>1. HandlersInv /\ SentOK
  BY DEF ClientsInv
<1>2. /\ HandlersInv' /\ UNCHANGED client_vars /\ UNCHANGED home
      /\ \A c \in Requests : pc[c] = "arrived" => pc'[c] = "arrived"
  BY <1>1, OwnFacts
<1> QED
  BY <1>1, <1>2, RelayStepKeeps DEF SentOK

\* Every step keeps the invariant.
LEMMA ClientsInvStep ==
  ASSUME ClientsInv, [ClientsNext]_all_vars
  PROVE  ClientsInv'
<1>1. ASSUME NEW x \in Callers, NEW r \in Requests, fetch(x, r)
      PROVE  ClientsInv'
  BY <1>1, FetchKeepsClients
<1>2. ASSUME NEW x \in Callers, network_error(x) \/ produce(x) \/ consume(x)
      PROVE  ClientsInv'
  BY <1>2, ErrorKeepsClients, ProduceKeepsClients, ConsumeKeepsClients
<1>3. ASSUME NEW r \in Requests, serve(r) \/ settle(r) \/ lose(r) \/ forget(r)
      PROVE  ClientsInv'
  BY <1>3, RelayKeepsClients, ForgetKeepsClients
<1> QED
  BY <1>1, <1>2, <1>3, OwnKeepsClients, StutterKeepsClients, StepsOfClients

\* The invariant holds at the start.
LEMMA ClientsInvInit ==
  ASSUME ClientsInit
  PROVE  ClientsInv
<1>1. HandlersInv
  BY RelayInvInit DEF ClientsInit, RelayInv
<1>2. ClientTypes /\ LoopsOK
  BY ClientKinds, RepositoryAssumption DEF ClientsInit, ClientTypes, LoopsOK, Callers
<1>3. SentOK
  <2>1. /\ sent = {} /\ \A r \in Requests : pc[r] = "arrived"
        /\ \A m \in InboxPosts : author[m] = None /\ home[m] = None
        /\ \A c \in Consumers : consumed[c] = {} /\ got[c] = None
    BY ClientKinds DEF ClientsInit, Init, ListInit
  <2> QED
    BY <2>1, ClientKinds DEF SentOK
<1> QED
  BY <1>1, <1>2, <1>3 DEF ClientsInv

(***************************************************************************)
(* Theorems of the specification.                                          *)
(***************************************************************************)

\* The invariant holds in every state of the clients and the relay.
THEOREM ClientsInvariant == ClientsSpec => []ClientsInv
<1>1. ClientsInit => ClientsInv
  BY ClientsInvInit
<1>2. ClientsInv /\ [ClientsNext]_all_vars => ClientsInv'
  BY ClientsInvStep
<1> QED
  BY <1>1, <1>2, PTL DEF ClientsSpec

\* The type invariant of the clients: each call is its client's own, and whatever a
\* consumer holds came from a producer.
THEOREM ClientsTypeCorrect == ClientsSpec => []ClientsTypeOK
<1>1. ClientsInv => ClientsTypeOK
  BY DEF ClientsInv, ClientTypes, LoopsOK, ClientsTypeOK
<1> QED
  BY <1>1, ClientsInvariant, PTL

(***************************************************************************)
(* Nothing is acknowledged until a consumer was handed something.          *)
(***************************************************************************)

\* What a POST leaves of the table.
LEMMA StoredRows ==
  ASSUME ListInv, NEW id \in Ids, NEW m \in Messages, NEW ttl \in Ttls, NEW res,
         store(id, m, ttl, res)
  PROVE  /\ \A j \in DOMAIN entries' :
              \/ j \in DOMAIN entries /\ entries'[j] = entries[j]
              \/ ~entries'[j].acked /\ entries'[j].expires_at = now + ttl
         /\ res = "Stored" => entries'[id].expires_at = now + ttl
         /\ res = "Stored" \/ id \in DOMAIN entries => id \in DOMAIN entries'
         /\ UNCHANGED <<now, acked_messages>>
<1>1. PICK ins \in insert(entries, id, m, now + ttl) : res = ins.outcome /\ entries' = ins.table
  BY DEF store
<1>2. PICK G : /\ id \in DOMAIN entries => G = {}
               /\ \/ /\ ins.outcome \in {"StoreFull", "Error"}
                     /\ ins.table = Without(entries, G)
                  \/ /\ ins.outcome = "Stored"
                     /\ ins.table = Put(Without(entries, G), id, NewEntry(m, now + ttl))
  BY InvContext, InsertShape
<1>3. UNCHANGED <<now, acked_messages>>
  BY DEF store
<1>4. CASE ins.table = Without(entries, G) /\ ins.outcome # "Stored"
  BY <1>1, <1>2, <1>3, <1>4 DEF Without, Restrict
<1>5. CASE ins.table = Put(Without(entries, G), id, NewEntry(m, now + ttl))
  <2> DEFINE rest == Without(entries, G)
  <2>1. \A j \in DOMAIN rest : j \in DOMAIN entries /\ rest[j] = entries[j]
    BY DEF Without, Restrict
  <2>2. /\ DOMAIN entries' = DOMAIN rest \cup {id}
        /\ entries'[id] = NewEntry(m, now + ttl)
        /\ \A j \in DOMAIN rest : j # id => entries'[j] = rest[j]
    BY <1>1, <1>5 DEF Put
  <2> HIDE DEF rest
  <2> QED
    BY <1>3, <2>1, <2>2 DEF NewEntry
<1> QED
  BY <1>2, <1>4, <1>5

\* Serving anything but a DELETE acknowledges nothing, and while nothing is
\* acknowledged no await is told that its message was.
LEMMA QuietServe ==
  ASSUME ClientsInv, NEW r \in Requests, serve(r), r \notin InboxDeletes,
         \A id \in DOMAIN entries : ~entries[id].acked
  PROVE  /\ acked_messages' = acked_messages
         /\ \A id \in DOMAIN entries' : ~entries'[id].acked
         /\ r \in InboxAwaits => reply'[r] # "OK" /\ receiver'[r] # "sent"
         /\ \A c \in Requests \ {r} : reply'[c] = reply[c]
<1>1. /\ HandlersInv /\ ListInv /\ reply \in [Requests -> Replies \cup {"none"}]
      /\ channelId \in Ids /\ r \in Calls
  BY ClientKinds DEF ClientsInv, HandlersInv, RelayTypes
<1>2. \A c \in Requests \ {r} : reply'[c] = reply[c]
  BY <1>1, ServeFacts DEF Handled, OnlyMoves
<1>3. CASE r \in InboxPosts /\ inbox_post(r, channelId)
  <2>1. r \in Messages /\ InboxTtl \in Ttls /\ r \notin InboxAwaits
    BY <1>3, ClientKinds, RelayAssumption
  <2>2. \E res : store(channelId, r, InboxTtl, res)
    BY <1>3 DEF inbox_post
  <2> QED
    BY <1>1, <1>2, <2>1, <2>2, StoredRows
<1>4. CASE r \in InboxGets /\ inbox_get(r, channelId)
  <2>1. \E res : get_or_subscribe(r, channelId, res)
    BY <1>4 DEF inbox_get
  <2>2. UNCHANGED <<entries, acked_messages>>
    BY <2>1 DEF get_or_subscribe, wait_for_message
  <2> QED
    BY <1>2, <1>4, <2>2, ClientKinds
<1>5. CASE r \in InboxAwaits /\ inbox_await(r, channelId)
  <2>1. "true" \notin is_acked(channelId)
    BY DEF is_acked, Readable
  <2>2. /\ \E res : subscribe_ack(r, channelId, res)
        /\ \/ \E code \in {"NotFound", "TooMany"} : Answer(r, code)
           \/ Proceed(r, "waiting")
    BY <1>5, <2>1 DEF inbox_await
  <2>3. UNCHANGED <<entries, acked_messages>>
    BY <2>2 DEF subscribe_ack
  <2>4. reply[r] = "none"
    BY <1>1, <1>5, ArrivedFacts DEF inbox_await
  <2>5. reply'[r] # "OK"
    BY <1>1, <2>2, <2>4 DEF Answer, Proceed
  <2>6. receiver[r] = "none" /\ receiver \in [Calls -> ReceiverStates]
    BY <1>1, <1>5, ArrivedFacts, InvContext DEF inbox_await
  <2>7. receiver'[r] # "sent"
    BY <1>1, <2>2, <2>6 DEF subscribe_ack, Readable
  <2> QED
    BY <1>2, <2>3, <2>5, <2>7
<1> QED
  BY <1>3, <1>4, <1>5 DEF serve

\* An await whose receiver was sent is one whose message was acknowledged, or one that
\* found it so.
LEMMA SentAwaits ==
  ASSUME HandlersInv, NEW r, Frame(r), HandlersInv', acked_messages' = {},
         NEW w \in InboxAwaits, w # r, receiver[w] # "sent"
  PROVE  receiver'[w] # "sent"
<1>1. w \in Requests /\ w \in Calls /\ RequestOK(w)
  BY ClientKinds DEF HandlersInv
<1>2. SUFFICES ASSUME receiver'[w] = "sent"
               PROVE  FALSE
  OBVIOUS
<1>3. receiver[w] = "open" /\ awaits'[w] = awaits[w]
  BY <1>1, <1>2 DEF Frame, Effect
<1>4. awaits'[w] # None
  BY <1>1, <1>3 DEF RequestOK
<1> QED
  BY <1>1, <1>2, <1>4 DEF HandlersInv, ListInv, Meant

\* As long as nobody was handed anything, the consumers get.
LEMMA QuietConsumers ==
  ASSUME ClientTypes, LoopsOK, NobodyYet, NEW c \in Consumers
  PROVE  at[c] = "get" /\ got[c] = None /\ consumed[c] = {}
BY DEF ClientTypes, LoopsOK, NobodyYet, Seen

\* Who has been handed something stays so.
LEMMA QuietBefore ==
  ASSUME ClientsInv, [ClientsNext]_all_vars, NobodyYet'
  PROVE  NobodyYet
<1>1. CASE UNCHANGED <<got, consumed>>
  BY <1>1 DEF NobodyYet, Seen
<1>2. ASSUME NEW x \in Callers, consume(x)
      PROVE  NobodyYet
  <2>1. x \in Consumers /\ \A c \in Consumers \ {x} : got'[c] = got[c] /\ consumed'[c] = consumed[c]
    BY <1>2, ConsumeFacts
  <2>2. \/ got[x] = None /\ consumed'[x] = consumed[x]
        \/ got'[x] = got[x] /\ consumed'[x] = consumed[x]
        \/ consumed'[x] = consumed[x] \cup {got[x]}
    BY <1>2, ConsumeFacts
  <2> QED
    BY <2>1, <2>2, ClientKinds DEF NobodyYet, Seen
<1>3. (\E x \in Callers : consume(x)) \/ UNCHANGED <<got, consumed>>
  BY StepsOfClients
  DEF fetch, network_error, produce, Answered, serve, settle, lose, forget, OnItsOwn, all_vars,
      client_vars
<1> QED
  BY <1>1, <1>2, <1>3

\* A step of the relay.
LEMMA QuietRelay ==
  ASSUME ClientsInv, ClientsInv', NobodyYet, NothingAcked,
         NEW r \in Requests, serve(r) \/ settle(r) \/ lose(r) \/ forget(r)
  PROVE  NothingAcked'
<1>1. /\ HandlersInv /\ HandlersInv' /\ RelayTypes /\ SentOK /\ ClientTypes
      /\ acked_messages = {}
      /\ \A id \in DOMAIN entries : ~entries[id].acked
      /\ sent \cap InboxDeletes = {}
      /\ \A w \in InboxAwaits : receiver[w] # "sent" /\ reply[w] # "OK"
      /\ \A p \in Producers : at[p] # "returned"
  BY DEF ClientsInv, NothingAcked, HandlersInv
<1>2. InboxAwaits \subseteq Requests
  BY ClientKinds
<1>3. SUFFICES /\ acked_messages' = {}
               /\ \A id \in DOMAIN entries' : ~entries'[id].acked
               /\ sent' \cap InboxDeletes = {}
               /\ \A w \in InboxAwaits : receiver'[w] # "sent" /\ reply'[w] # "OK"
               /\ \A p \in Producers : at'[p] # "returned"
  BY DEF NothingAcked
<1>4. CASE serve(r)
  <2>1. Frame(r) /\ UNCHANGED client_vars /\ r \notin InboxDeletes
    BY <1>1, <1>4, ServeFacts DEF Handled
  <2>2. /\ acked_messages' = acked_messages
        /\ \A id \in DOMAIN entries' : ~entries'[id].acked
        /\ r \in InboxAwaits => reply'[r] # "OK" /\ receiver'[r] # "sent"
        /\ \A c \in Requests \ {r} : reply'[c] = reply[c]
    BY <1>1, <1>4, <2>1, QuietServe
  <2>3. \A w \in InboxAwaits : receiver'[w] # "sent"
    BY <1>1, <2>1, <2>2, SentAwaits
  <2> QED
    BY <1>1, <1>2, <2>1, <2>2, <2>3 DEF client_vars
<1>5. CASE settle(r)
  <2>1. Frame(r) /\ UNCHANGED client_vars /\ UNCHANGED <<entries, acked_messages>>
    BY <1>1, <1>5, SettleFacts DEF Handled
  <2>2. \A w \in InboxAwaits : receiver'[w] # "sent"
    <3>1. r \in InboxAwaits => receiver'[r] # "sent"
      BY <1>1, <1>2, <1>5, ClientKinds, InvContext
      DEF settle, wake, time_out, disconnect, CloseReceiver, list_vars, HandlersInv, ReceiverStates
    <3> QED
      BY <1>1, <2>1, <3>1, SentAwaits
  <2>3. \A w \in InboxAwaits : reply'[w] # "OK"
    BY <1>1, <1>2, <1>5 DEF settle, wake, time_out, disconnect, Answer, Proceed, RelayTypes
  <2> QED
    BY <1>1, <2>1, <2>2, <2>3 DEF client_vars
<1>6. CASE lose(r)
  BY <1>1, <1>6, LoseFacts DEF list_vars, client_vars
<1>7. CASE forget(r)
  <2>1. r \notin LinkPosts
    BY <1>1, <1>7, ClientKinds DEF SentOK, forget, Abandoned
  <2> QED
    BY <1>1, <1>2, <1>7, <2>1, ForgetFacts DEF ClientTypes
<1> QED
  BY <1>4, <1>5, <1>6, <1>7

\* Something the relay does on its own account.
LEMMA QuietOwn ==
  ASSUME ClientsInv, ClientsInv', NobodyYet, NothingAcked, OnItsOwn
  PROVE  NothingAcked'
<1>1. /\ HandlersInv /\ HandlersInv'
      /\ acked_messages = {}
      /\ \A id \in DOMAIN entries : ~entries[id].acked
      /\ sent \cap InboxDeletes = {}
      /\ \A w \in InboxAwaits : receiver[w] # "sent" /\ reply[w] # "OK"
      /\ \A p \in Producers : at[p] # "returned"
  BY DEF ClientsInv, NothingAcked
<1>2. /\ Idle \/ restart
      /\ UNCHANGED client_vars /\ UNCHANGED <<reply, acked_messages>>
  BY <1>1, OwnFacts
<1>3. \A id \in DOMAIN entries' : id \in DOMAIN entries /\ entries'[id] = entries[id]
  <2>1. CASE restart
    BY <1>1, <2>1, RestartFacts
  <2>2. CASE cleanup_task
    BY <2>2 DEF cleanup_task, cleanup_expired, delete_expired, Without, Restrict
  <2>3. CASE Passing
    BY <2>3 DEF Passing, ClockTick, Tick, PruneIntervalPasses
  <2> QED
    BY <2>1, <2>2, <2>3 DEF OnItsOwn
<1>4. \A w \in InboxAwaits : receiver'[w] # "sent"
  <2>1. CASE Idle
    BY <1>1, <1>2, <2>1, SentAwaits, ClientKinds DEF Idle
  <2>2. CASE restart
    BY <1>1, <2>2, RestartFacts, ClientKinds
  <2> QED
    BY <1>2, <2>1, <2>2
<1> QED
  BY <1>1, <1>2, <1>3, <1>4 DEF NothingAcked, client_vars

\* A step of a client.
LEMMA QuietClient ==
  ASSUME ClientsInv, NobodyYet, NothingAcked, NEW x \in Callers,
         (\E r \in Requests : fetch(x, r)) \/ network_error(x) \/ produce(x) \/ consume(x)
  PROVE  NothingAcked'
<1>1. /\ ClientTypes /\ LoopsOK
      /\ acked_messages = {}
      /\ \A id \in DOMAIN entries : ~entries[id].acked
      /\ sent \cap InboxDeletes = {}
      /\ \A w \in InboxAwaits : receiver[w] # "sent" /\ reply[w] # "OK"
      /\ \A p \in Producers : at[p] # "returned"
  BY DEF ClientsInv, NothingAcked
<1>2. UNCHANGED <<entries, acked_messages, receiver, reply>>
  BY DEF fetch, network_error, produce, consume, Answered, relay_vars
<1>3. sent' \cap InboxDeletes = {}
  <2>1. ASSUME NEW r \in Requests, fetch(x, r)
        PROVE  r \notin InboxDeletes /\ sent' = sent \cup {r}
    <3>1. r \in Attempts(at[x]) /\ sent' = sent \cup {r}
      BY <2>1 DEF fetch
    <3>2. at[x] # "delete"
      BY <1>1, QuietConsumers DEF Callers, LoopsOK
    <3> QED
      BY <1>1, <3>1, <3>2, CallKinds, ClientKinds DEF Callers
  <2>2. CASE network_error(x) \/ produce(x) \/ consume(x)
    BY <1>1, <2>2 DEF network_error, produce, consume, Answered
  <2> QED
    BY <1>1, <2>1, <2>2
<1>4. \A p \in Producers : at'[p] # "returned"
  <2>1. CASE UNCHANGED at
    BY <1>1, <2>1
  <2>2. CASE produce(x)
    <3>1. /\ x \in Producers /\ call[x] \in Attempts(at[x])
          /\ at' = [at EXCEPT ![x] = IF reply[call[x]] # "OK" THEN @
                                     ELSE IF @ = "post" THEN "await" ELSE "returned"]
      BY <1>1, <2>2 DEF produce, Answered, LoopsOK
    <3>2. reply[call[x]] = "OK" => at[x] = "post"
      BY <1>1, <3>1, CallKinds
    <3> QED
      BY <1>1, <3>1, <3>2 DEF ClientTypes
  <2>3. CASE consume(x)
    <3>1. x \in Consumers /\ \A y \in Callers \ {x} : at'[y] = at[y]
      BY <2>3, ConsumeFacts
    <3> QED
      BY <1>1, <3>1, ClientKinds DEF Callers
  <2> QED
    BY <2>1, <2>2, <2>3 DEF fetch, network_error
<1> QED
  BY <1>1, <1>2, <1>3, <1>4 DEF NothingAcked

\* Nothing is acknowledged before the first delivery, at every step.
LEMMA NothingAckedStep ==
  ASSUME ClientsInv, NothingAcked, [ClientsNext]_all_vars
  PROVE  NothingAcked'
<1> SUFFICES ASSUME NobodyYet'
             PROVE  NothingAcked'
  BY DEF NothingAcked
<1>1. NobodyYet /\ ClientsInv'
  BY QuietBefore, ClientsInvStep
<1>2. CASE UNCHANGED all_vars
  BY <1>1, <1>2 DEF NothingAcked, all_vars, relay_vars, client_vars
<1> QED
  BY <1>1, <1>2, QuietRelay, QuietOwn, QuietClient, StepsOfClients

\* Before the first delivery nothing is acknowledged, no DELETE was sent, and no
\* producer has returned, for any number of producers.
THEOREM NothingAckedBeforeDelivery == ClientsSpec => []NothingAcked
<1>1. ClientsInit => NothingAcked
  BY ClientKinds DEF ClientsInit, Init, ListInit, RepoInit, NothingAcked, Callers
<1>2. ClientsInv /\ NothingAcked /\ [ClientsNext]_all_vars => NothingAcked'
  BY NothingAckedStep
<1> QED
  BY <1>1, <1>2, ClientsInvariant, PTL DEF ClientsSpec

\* "Consumer ACKed - delivery confirmed": with one producer on the id, its call returns
\* only after a consumer was handed its data.
THEOREM ConfirmationMeansReceipt ==
  ASSUME \A p, q \in Producers : p = q
  PROVE  ClientsSpec => []ConfirmedMeansReceived
<1>1. NothingAcked => ConfirmedMeansReceived
  BY DEF NothingAcked, NobodyYet, ConfirmedMeansReceived
<1> QED
  BY <1>1, NothingAckedBeforeDelivery, PTL

(***************************************************************************)
(* What was stored stays stored.                                           *)
(***************************************************************************)

\* The clock, the time to live and the times POSTs were sent at.
LEMMA ClockFacts ==
  ASSUME HandlersInv
  PROVE  now \in Int /\ InboxTtl \in Int /\ now + InboxTtl \in Int
<1>1. now \in 0..MaxTime /\ InboxTtl \in Nat /\ MaxTime \in Nat
  BY RelayAssumption, RepositoryAssumption DEF HandlersInv, ListInv, RepoTypeOK
<1> QED
  BY <1>1

LEMMA SentTimes ==
  ASSUME ClientTypes
  PROVE  \A m \in InboxPosts : sent_at[m] \in Int /\ sent_at[m] + InboxTtl \in Int
<1>1. InboxTtl \in Nat /\ MaxTime \in Nat
  BY RelayAssumption, RepositoryAssumption
<1> QED
  BY <1>1 DEF ClientTypes

\* Rows that stay as they are, while the clock goes on and no POST is answered.
LEMMA KeptRows ==
  ASSUME ClientsInv, HandlersInv', Kept, UNCHANGED <<entries, sent_at>>, now' >= now,
         \A m \in InboxPosts : reply'[m] = "OK" => reply[m] = "OK"
  PROVE  Kept'
<1>1. now \in Int /\ now' \in Int
  <2>1. now' \in 0..MaxTime /\ MaxTime \in Nat
    BY RepositoryAssumption DEF HandlersInv, ListInv, RepoTypeOK
  <2> QED
    BY <2>1, ClockFacts DEF ClientsInv
<1>2. \A m \in InboxPosts : sent_at[m] + InboxTtl \in Int
  BY SentTimes DEF ClientsInv
<1> QED
  BY <1>1, <1>2 DEF Kept

\* A POST that is served: its row, or the one that stays, lives long enough for every
\* POST that was sent before.
LEMMA PostKeeps ==
  ASSUME ClientsInv, SentBefore, Kept, NEW r \in InboxPosts, serve(r)
  PROVE  Kept'
<1>1. /\ HandlersInv /\ ListInv /\ channelId \in Ids /\ RelayTypes /\ r \in Requests
      /\ now \in Int /\ InboxTtl \in Int /\ UNCHANGED sent_at
  BY ClientKinds, ClockFacts DEF ClientsInv, HandlersInv, serve, client_vars
<1>2. OnlyMoves(r)
  BY <1>1, ServeFacts DEF Handled
<1>3. r \in Messages /\ InboxTtl \in Ttls /\ inbox_post(r, channelId)
  BY ClientKinds, RelayAssumption DEF serve
<1>4. PICK res : /\ store(channelId, r, InboxTtl, res)
                 /\ reply'[r] = "OK" => res = "Stored"
  BY <1>1, <1>3 DEF inbox_post, Answer, RelayTypes
<1>5. /\ channelId \in DOMAIN entries' =>
           \/ channelId \in DOMAIN entries /\ entries'[channelId] = entries[channelId]
           \/ entries'[channelId].expires_at = now + InboxTtl
      /\ res = "Stored" => entries'[channelId].expires_at = now + InboxTtl
      /\ res = "Stored" \/ channelId \in DOMAIN entries => channelId \in DOMAIN entries'
      /\ now' = now
  BY <1>1, <1>3, <1>4, StoredRows
<1>6. ASSUME NEW m \in InboxPosts, reply'[m] = "OK", now' < sent_at'[m] + InboxTtl
      PROVE  /\ channelId \in DOMAIN entries'
             /\ entries'[channelId].expires_at >= sent_at'[m] + InboxTtl
  <2>1. /\ sent_at'[m] = sent_at[m] /\ sent_at[m] \in Int
        /\ now + InboxTtl >= sent_at[m] + InboxTtl
    BY <1>1, SentTimes DEF ClientsInv, SentBefore
  <2>2. CASE m = r
    BY <1>4, <1>5, <1>6, <2>1, <2>2
  <2>3. CASE m # r
    <3>1. reply[m] = "OK"
      BY <1>2, <1>6, <2>3, ClientKinds DEF OnlyMoves
    <3>2. channelId \in DOMAIN entries /\ entries[channelId].expires_at >= sent_at[m] + InboxTtl
      BY <1>5, <1>6, <2>1, <3>1 DEF Kept
    <3> QED
      BY <1>5, <2>1, <3>2
  <2> QED
    BY <2>2, <2>3
<1> QED
  BY <1>6 DEF Kept

\* A step of one request.
LEMMA RequestsKeep ==
  ASSUME ClientsInv, SentBefore, Kept, NobodyYet, NothingAcked,
         NEW r \in Requests, serve(r) \/ settle(r) \/ lose(r) \/ forget(r)
  PROVE  Kept'
<1>1. HandlersInv /\ SentOK /\ ClientTypes /\ now \in Int
  BY ClockFacts DEF ClientsInv
<1>2. CASE serve(r) /\ r \notin InboxPosts
  <2>1. /\ HandlersInv' /\ OnlyMoves(r) /\ UNCHANGED sent_at
        /\ r \notin InboxDeletes
    BY <1>1, <1>2, ServeFacts DEF Handled, NothingAcked, client_vars
  <2>2. \/ \E res : get_or_subscribe(r, channelId, res)
        \/ \E res : subscribe_ack(r, channelId, res)
        \/ UNCHANGED list_vars
    BY <1>2, <2>1 DEF serve, inbox_get, inbox_await
  <2>3. UNCHANGED <<entries, now>>
    BY <2>2 DEF get_or_subscribe, wait_for_message, subscribe_ack, list_vars
  <2>4. \A m \in InboxPosts : reply'[m] = reply[m]
    BY <1>2, <2>1, ClientKinds DEF OnlyMoves
  <2> QED
    BY <1>1, <2>1, <2>3, <2>4, KeptRows
<1>3. CASE settle(r)
  <2>1. /\ HandlersInv' /\ UNCHANGED <<entries, now, sent_at>>
        /\ OnlyMoves(r) /\ pc[r] \in {"waiting", "acking"}
    BY <1>1, <1>3, SettleFacts DEF Handled, client_vars
  <2>2. r \notin InboxPosts
    BY <1>1, <2>1, ClientKinds DEF HandlersInv, RequestOK
  <2>3. \A m \in InboxPosts : reply'[m] = reply[m]
    BY <2>1, <2>2, ClientKinds DEF OnlyMoves
  <2> QED
    BY <1>1, <2>1, <2>3, KeptRows
<1>4. CASE lose(r)
  <2>1. HandlersInv' /\ UNCHANGED <<entries, now, sent_at, reply>>
    BY <1>1, <1>4, LoseFacts DEF list_vars, client_vars
  <2> QED
    BY <1>1, <2>1, KeptRows
<1>5. CASE forget(r)
  <2>1. r \notin LinkPosts
    BY <1>1, <1>5, ClientKinds DEF SentOK, forget, Abandoned
  <2>2. /\ HandlersInv' /\ UNCHANGED <<entries, now, sent_at>>
        /\ \A m \in InboxPosts : reply'[m] = reply[m]
    BY <1>1, <1>5, <2>1, ForgetFacts, ClientKinds DEF ClientTypes
  <2> QED
    BY <1>1, <2>2, KeptRows
<1> QED
  BY <1>2, <1>3, <1>4, <1>5, PostKeeps

\* Something the relay does on its own account: a cleanup leaves what may still be
\* wanted, and a durable store outlives the process.
LEMMA OwnKeeps ==
  ASSUME Durable, ClientsInv, Kept, OnItsOwn, now' >= now
  PROVE  Kept'
<1>1. /\ HandlersInv /\ WellFormed(entries) /\ now \in Int
      /\ HandlersInv' /\ UNCHANGED <<sent_at, reply>>
  BY ClockFacts, InvContext, OwnFacts DEF ClientsInv, HandlersInv, client_vars
<1>2. CASE restart \/ Passing
  <2>1. UNCHANGED entries
    BY <1>2 DEF restart, Restart, Reopen, Passing, ClockTick, Tick, PruneIntervalPasses
  <2> QED
    BY <1>1, <2>1, KeptRows
<1>3. CASE cleanup_task
  <2>1. UNCHANGED now /\ entries' \in {entries, delete_expired(entries)}
    BY <1>3 DEF cleanup_task, cleanup_expired
  <2>2. ASSUME NEW m \in InboxPosts, reply'[m] = "OK", now' < sent_at'[m] + InboxTtl
        PROVE  /\ channelId \in DOMAIN entries'
               /\ entries'[channelId].expires_at >= sent_at'[m] + InboxTtl
    <3>1. /\ channelId \in DOMAIN entries
          /\ entries[channelId].expires_at >= sent_at[m] + InboxTtl
          /\ now < sent_at[m] + InboxTtl /\ sent_at[m] + InboxTtl \in Int
      BY <1>1, <2>1, <2>2, SentTimes DEF ClientsInv, Kept
    <3>2. entries[channelId].expires_at \in Int
      BY <1>1, <3>1 DEF WellFormed, IsTable, Entry
    <3>3. channelId \notin ExpiredIds(entries)
      BY <1>1, <3>1, <3>2 DEF ExpiredIds
    <3>4. channelId \in DOMAIN entries' /\ entries'[channelId] = entries[channelId]
      BY <2>1, <3>1, <3>3 DEF delete_expired, Without, Restrict
    <3> QED
      BY <1>1, <3>1, <3>4
  <2> QED
    BY <2>2 DEF Kept
<1> QED
  BY <1>2, <1>3 DEF OnItsOwn

\* The clock is not set back.
LEMMA ClockKeeps ==
  ASSUME ~ClockJumps, ClientsInv, [ClientsNext]_all_vars
  PROVE  now' >= now
<1>1. HandlersInv /\ SentOK /\ ClientTypes /\ now \in Int
  BY ClockFacts DEF ClientsInv
<1>2. ASSUME NEW r \in Requests, serve(r) \/ settle(r)
      PROVE  now' >= now
  BY <1>1, <1>2, ServeFacts, SettleFacts DEF Handled, Frame
<1>3. ASSUME NEW r \in Requests, lose(r) \/ forget(r)
      PROVE  now' >= now
  BY <1>1, <1>3 DEF lose, forget, list_vars
<1>4. CASE OnItsOwn
  BY <1>1, <1>4, OwnFacts, RestartFacts DEF Idle, Frame
<1>5. ASSUME NEW x \in Callers,
             (\E r \in Requests : fetch(x, r)) \/ network_error(x) \/ produce(x) \/ consume(x)
      PROVE  now' >= now
  BY <1>1, <1>5 DEF fetch, network_error, produce, consume, Answered, relay_vars
<1>6. CASE UNCHANGED all_vars
  BY <1>1, <1>6 DEF all_vars, relay_vars
<1> QED
  BY <1>2, <1>3, <1>4, <1>5, <1>6, StepsOfClients

\* A call of a client: a POST that is being sent has no answer yet.
LEMMA ClientsKeep ==
  ASSUME ClientsInv, Kept, NEW x \in Callers,
         (\E r \in Requests : fetch(x, r)) \/ network_error(x) \/ produce(x) \/ consume(x)
  PROVE  Kept'
<1>1. HandlersInv /\ SentOK /\ ClientTypes
  BY DEF ClientsInv
<1>2. UNCHANGED <<entries, now, reply>>
  BY DEF fetch, network_error, produce, consume, Answered, relay_vars
<1>3. CASE UNCHANGED sent_at
  BY <1>2, <1>3 DEF Kept
<1>4. ASSUME NEW r \in Requests, fetch(x, r)
      PROVE  Kept'
  <2>1. r \notin sent /\ pc[r] = "arrived" /\ reply[r] # "OK"
    BY <1>1, <1>4 DEF fetch, SentOK, HandlersInv, RequestOK
  <2>2. \A m \in InboxPosts \ {r} : sent_at'[m] = sent_at[m]
    BY <1>1, <1>4 DEF fetch, ClientTypes
  <2> QED
    BY <1>2, <2>1, <2>2 DEF Kept
<1> QED
  BY <1>3, <1>4 DEF network_error, produce, consume, Answered

\* No POST was sent later than now.
LEMMA SentBeforeStep ==
  ASSUME ~ClockJumps, ClientsInv, SentBefore, [ClientsNext]_all_vars
  PROVE  SentBefore'
<1>1. /\ ClientTypes /\ now' >= now /\ now \in Int
      /\ \A m \in InboxPosts : sent_at[m] \in Int
  BY ClockKeeps, ClockFacts, SentTimes DEF ClientsInv
<1>2. now' \in Int
  <2>1. HandlersInv'
    BY ClientsInvStep DEF ClientsInv
  <2> QED
    BY <2>1, RepositoryAssumption DEF HandlersInv, ListInv, RepoTypeOK
<1>3. CASE UNCHANGED sent_at
  BY <1>1, <1>2, <1>3 DEF SentBefore
<1>4. ASSUME NEW x \in Callers, NEW r \in Requests, fetch(x, r)
      PROVE  SentBefore'
  <2>1. \A m \in InboxPosts : sent_at'[m] \in {sent_at[m], now}
    BY <1>1, <1>4 DEF fetch, ClientTypes
  <2> QED
    BY <1>1, <1>2, <2>1 DEF SentBefore
<1>5. (\E x \in Callers, r \in Requests : fetch(x, r)) \/ UNCHANGED sent_at
  BY StepsOfClients
  DEF network_error, produce, consume, Answered, serve, settle, lose, forget, OnItsOwn,
      all_vars, client_vars
<1> QED
  BY <1>3, <1>4, <1>5

\* Every step keeps what was stored.
LEMMA StillStoredStep ==
  ASSUME Durable, ~ClockJumps, ClientsInv, NothingAcked, StillStored, [ClientsNext]_all_vars
  PROVE  StillStored'
<1>1. SentBefore'
  BY SentBeforeStep DEF StillStored
<1>2. ASSUME NobodyYet'
      PROVE  Kept'
  <2>1. NobodyYet /\ Kept /\ SentBefore /\ now' >= now
    BY <1>2, QuietBefore, ClockKeeps DEF StillStored
  <2>2. CASE UNCHANGED all_vars
    BY <2>1, <2>2 DEF Kept, all_vars, relay_vars, client_vars
  <2> QED
    BY <2>1, <2>2, RequestsKeep, OwnKeeps, ClientsKeep, StepsOfClients
<1> QED
  BY <1>1, <1>2 DEF StillStored

\* Whatever was answered 200, some producer's data is there for the next GET until one
\* has been answered.
StoredForFirst ==
  NobodyYet =>
    \A m \in InboxPosts :
      reply[m] = "OK" /\ now < sent_at[m] + InboxTtl =>
        Available(channelId) /\ author[entries[channelId].body] \in Producers

\* "Message is still safe on the relay", for any number of producers on the id: with a
\* store in a file and a clock that is not set back, after a POST was answered 200 there
\* is data for the next GET until a consumer was handed some, for a time to live from
\* when it was sent; through errors of the network and of the store, late POSTs of this
\* and of other producers, cleanups and restarts.
THEOREM StoredIsKeptForFirst ==
  ASSUME Durable, ~ClockJumps
  PROVE  ClientsSpec => []StoredForFirst
<1>1. ClientsInit => StillStored
  <2> SUFFICES ASSUME ClientsInit PROVE StillStored
    OBVIOUS
  <2>1. \A m \in InboxPosts : reply[m] # "OK" /\ sent_at[m] <= now
    BY ClientKinds DEF ClientsInit, Init, ListInit, RepoInit
  <2> QED
    BY <2>1 DEF StillStored, Kept, SentBefore
<1>2. ClientsInv /\ NothingAcked /\ StillStored /\ [ClientsNext]_all_vars => StillStored'
  BY StillStoredStep
<1>3. ASSUME ClientsInv, NothingAcked, StillStored
      PROVE  StoredForFirst
  <2> SUFFICES ASSUME NobodyYet, NEW m \in InboxPosts, reply[m] = "OK",
                      now < sent_at[m] + InboxTtl
               PROVE  /\ Available(channelId)
                      /\ author[entries[channelId].body] \in Producers
    BY DEF StoredForFirst
  <2>1. /\ channelId \in DOMAIN entries
        /\ entries[channelId].expires_at >= sent_at[m] + InboxTtl /\ ~entries[channelId].acked
    BY <1>3 DEF StillStored, Kept, NothingAcked
  <2>2. /\ HandlersInv /\ WellFormed(entries) /\ now \in Int /\ sent_at[m] + InboxTtl \in Int
    BY <1>3, ClockFacts, SentTimes, InvContext DEF ClientsInv, HandlersInv
  <2>3. /\ entries[channelId].expires_at \in Int
        /\ entries[channelId].body \in Messages /\ entries[channelId].body # None
    BY <2>1, <2>2 DEF WellFormed, IsTable, Entry
  <2>4. Available(channelId)
    BY <2>1, <2>2, <2>3 DEF Available, Readable, is_expired
  <2>5. home[entries[channelId].body] # None
    BY <2>1, <2>2, <2>3, ClientKinds DEF HandlersInv, ListInv, Meant
  <2> QED
    BY <1>3, <2>3, <2>4, <2>5, PostedAuthor
<1>4. ClientsInv /\ NothingAcked /\ StillStored => StoredForFirst
  BY <1>3
<1> QED
  BY <1>1, <1>2, <1>4, ClientsInvariant, NothingAckedBeforeDelivery, PTL DEF ClientsSpec

\* The same for one producer on the id: what was answered 200 is its data, and is kept
\* until a consumer was handed it.
THEOREM StoredIsKeptUntilReceived ==
  ASSUME Durable, ~ClockJumps, \A p, q \in Producers : p = q
  PROVE  ClientsSpec => []StoredUntilReceived
<1>1. ASSUME ClientsInv, StoredForFirst
      PROVE  StoredUntilReceived
  <2> SUFFICES ASSUME NEW m \in InboxPosts, reply[m] = "OK", ~Seen(author[m]),
                      now < sent_at[m] + InboxTtl
               PROVE  Available(channelId) /\ author[entries[channelId].body] = author[m]
    BY DEF StoredUntilReceived
  <2>1. author[m] \in Producers
    BY <1>1, ClientKinds DEF ClientsInv, SentOK, HandlersInv, RequestOK, ClientTypes
  <2>2. NobodyYet
    BY <2>1 DEF NobodyYet
  <2>3. Available(channelId) /\ author[entries[channelId].body] \in Producers
    BY <1>1, <2>2 DEF StoredForFirst
  <2> QED
    BY <2>1, <2>3
<1>2. ClientsInv /\ StoredForFirst => StoredUntilReceived
  BY <1>1
<1> QED
  BY <1>2, ClientsInvariant, StoredIsKeptForFirst, PTL

(***************************************************************************)
(* Why a stored message leaves the relay.                                  *)
(***************************************************************************)

\* What the clients and the network do touches no row, and what the relay does is a
\* step of Relay.
LEMMA ClientsLeaveForCauseStep ==
  ASSUME ClientsInv, [ClientsNext]_all_vars
  PROVE  LeavesForCause
<1>1. CASE UNCHANGED entries
  BY <1>1 DEF LeavesForCause
<1>2. CASE [Next]_relay_vars
  BY <1>2, LeavesForCauseStep DEF ClientsInv
<1>3. ASSUME NEW r \in Requests, serve(r)
      PROVE  Next
  BY <1>3, ClientKinds DEF serve, Next
<1>4. ASSUME NEW r \in Requests, settle(r) \/ lose(r) \/ forget(r)
      PROVE  UNCHANGED entries
  BY <1>4, SettleFacts DEF ClientsInv, lose, forget, list_vars
<1>5. ASSUME NEW x \in Callers,
             (\E r \in Requests : fetch(x, r)) \/ network_error(x) \/ produce(x) \/ consume(x)
      PROVE  UNCHANGED entries
  BY <1>5 DEF fetch, network_error, produce, consume, Answered, relay_vars, list_vars
<1>6. CASE OnItsOwn
  BY <1>2, <1>6 DEF OnItsOwn, Next
<1>7. CASE UNCHANGED all_vars
  BY <1>1, <1>7 DEF all_vars, relay_vars, list_vars
<1> QED
  BY <1>1, <1>2, <1>3, <1>4, <1>5, <1>6, <1>7, StepsOfClients

\* With clients that try again, whose attempts get lost or arrive late, a message that has
\* not expired still leaves only for a newer POST or in the step that answers a DELETE;
\* for any number of producers and consumers.
THEOREM ClientsStoredLeaves == ClientsSpec => StoredLeavesForCause
<1>1. ClientsInv /\ [ClientsNext]_all_vars => [LeavesForCause]_relay_vars
  BY ClientsLeaveForCauseStep
<1> QED
  BY <1>1, ClientsInvariant, PTL DEF ClientsSpec, StoredLeavesForCause

(***************************************************************************)
(* What a consumer has finished with is not delivered again.               *)
(***************************************************************************)

\* A message that can no longer be delivered stays so.
LEMMA OverFramed ==
  ASSUME ~ClockJumps, HandlersInv, HandlersInv', NEW r, Frame(r),
         NEW m \in Messages, home[m] # None, Over(m)
  PROVE  Over(m)' /\ home'[m] # None
<1>1. home'[m] # None /\ m # None /\ now' >= now
  BY RepositoryAssumption DEF Frame
<1>2. now \in Int /\ now' \in Int /\ WellFormed(entries)
  BY InvContext DEF HandlersInv, ListInv, RepoTypeOK
<1>3. ASSUME NEW id \in DOMAIN entries', entries'[id].body = m
      PROVE  entries'[id].expires_at <= now'
  <2>1. id \in DOMAIN entries /\ entries'[id] = entries[id]
    BY <1>1, <1>3 DEF Frame, Effect
  <2>2. entries[id].expires_at \in Int /\ entries[id].expires_at <= now
    BY <1>2, <1>3, <2>1 DEF Over, WellFormed, IsTable, Entry
  <2> QED
    BY <1>1, <1>2, <2>1, <2>2
<1> QED
  BY <1>1, <1>3 DEF Over

\* So at every step of the relay.
LEMMA OverKept ==
  ASSUME ~ClockJumps, ClientsInv, NEW m \in InboxPosts, home[m] # None, Over(m),
         \/ \E r \in Requests : serve(r) \/ settle(r) \/ lose(r) \/ forget(r)
         \/ OnItsOwn
  PROVE  Over(m)' /\ home'[m] # None
<1>1. HandlersInv /\ SentOK /\ ClientTypes /\ m \in Messages
  BY ClientKinds DEF ClientsInv
<1>2. ASSUME NEW r \in Requests, serve(r) \/ settle(r)
      PROVE  Over(m)' /\ home'[m] # None
  <2>1. HandlersInv' /\ Frame(r)
    BY <1>1, <1>2, ServeFacts, SettleFacts DEF Handled
  <2> QED
    BY <1>1, <2>1, OverFramed
<1>3. ASSUME NEW r \in Requests, lose(r) \/ forget(r)
      PROVE  Over(m)' /\ home'[m] # None
  BY <1>3 DEF lose, forget, list_vars, Over
<1>4. CASE OnItsOwn
  <2>1. HandlersInv' /\ (Idle \/ restart)
    BY <1>1, <1>4, OwnFacts
  <2>2. CASE Idle
    BY <1>1, <2>1, <2>2, OverFramed DEF Idle
  <2>3. CASE restart
    BY <1>1, <2>3, RestartFacts DEF Over
  <2> QED
    BY <2>1, <2>2, <2>3
<1> QED
  BY <1>2, <1>3, <1>4

\* Nobody is handed it any more.
LEMMA OverNotGiven ==
  ASSUME ClientsInv, NEW m \in InboxPosts, home[m] # None, Over(m),
         \/ \E r \in Requests : serve(r) \/ settle(r) \/ lose(r) \/ forget(r)
         \/ OnItsOwn,
         NEW g \in Requests, value[g] # m
  PROVE  value'[g] # m
<1>1. HandlersInv /\ SentOK /\ ClientTypes /\ m \in Messages /\ m # None /\ g \in Calls
  BY ClientKinds DEF ClientsInv
<1>2. ASSUME NEW r \in Requests, serve(r)
      PROVE  value'[g] # m
  <2>1. SUFFICES ASSUME value'[g] = m
                 PROVE  FALSE
    OBVIOUS
  <2>2. Frame(r) /\ pc[r] = "arrived"
    BY <1>1, <1>2, ServeFacts DEF Handled
  <2>3. m # r
    BY <1>1, <2>2 DEF HandlersInv, RequestOK
  <2>4. PICK id \in DOMAIN entries : Available(id) /\ entries[id].body = m
    BY <1>1, <2>1, <2>2, <2>3 DEF Frame, Effect
  <2>5. now \in Int /\ entries[id].expires_at \in Int
    BY <1>1, <2>4, InvContext DEF HandlersInv, WellFormed, IsTable, Entry
  <2> QED
    BY <2>4, <2>5 DEF Over, Available, Readable, is_expired
<1>3. ASSUME NEW r \in Requests, settle(r)
      PROVE  value'[g] # m
  BY <1>1, <1>3, SettleFacts
<1>4. ASSUME NEW r \in Requests, lose(r)
      PROVE  value'[g] # m
  BY <1>4 DEF lose, list_vars
<1>5. ASSUME NEW r \in Requests, forget(r)
      PROVE  value'[g] # m
  BY <1>1, <1>5 DEF forget, HandlersInv, ListInv
<1>6. CASE OnItsOwn
  BY <1>1, <1>6, OwnFacts
<1> QED
  BY <1>2, <1>3, <1>4, <1>5, <1>6

\* Once a DELETE was handled, nothing that was posted before it can be delivered.
LEMMA DeleteEnds ==
  ASSUME ~StorageErrors, ClientsInv, NEW d \in InboxDeletes, serve(d),
         NEW m \in InboxPosts, home[m] # None
  PROVE  Over(m)'
<1>1. HandlersInv /\ SentOK /\ ListInv /\ m \in Messages /\ m # None
  BY ClientKinds DEF ClientsInv, HandlersInv
<1>2. /\ now \in Int /\ now' = now /\ WellFormed(entries)
      /\ \E res : ack(channelId, res)
  BY <1>1, InvContext, ClientKinds DEF serve, inbox_delete, ack, list_vars
<1>3. \A id \in DOMAIN entries : entries[id].body = m => id = channelId
  BY <1>1 DEF ListInv, Meant, SentOK
<1>4. CASE ~Readable(entries, channelId, now) /\ UNCHANGED entries
  <2>1. \A id \in DOMAIN entries : entries[id].body = m => entries[id].expires_at <= now
    BY <1>2, <1>3, <1>4 DEF Readable, is_expired, WellFormed, IsTable, Entry
  <2> QED
    BY <1>2, <1>4, <2>1 DEF Over
<1>5. CASE /\ Readable(entries, channelId, now) /\ entries[channelId].acked
           /\ UNCHANGED entries
  <2>1. entries[channelId].body = None
    BY <1>2, <1>5 DEF Readable, WellFormed
  <2> QED
    BY <1>1, <1>3, <1>5, <2>1 DEF Over
<1>6. CASE /\ Readable(entries, channelId, now)
           /\ entries' = acknowledged(entries, channelId)
  <2>1. \A id \in DOMAIN entries' :
          entries'[id].body # None => id \in DOMAIN entries /\ id # channelId /\ entries'[id] = entries[id]
    BY <1>2, <1>6 DEF acknowledged, WellFormed, IsTable, Entry
  <2> QED
    BY <1>1, <1>3, <2>1 DEF Over
<1> QED
  BY <1>2, <1>4, <1>5, <1>6 DEF ack, ReadFaults, list_vars

\* After a step of the relay.
LEMMA FinishedAfterRelay ==
  ASSUME ~StorageErrors, ~ClockJumps, ClientsInv,
         \/ \E r \in Requests : serve(r) \/ settle(r) \/ lose(r) \/ forget(r)
         \/ OnItsOwn,
         NEW c \in Consumers, NEW m \in InboxPosts, author[m] # None, FinishedOK(c, m)
  PROVE  FinishedOK(c, m)'
<1>1. /\ HandlersInv /\ SentOK /\ ClientTypes /\ LoopsOK /\ c \in Callers
      /\ call[c] # None => call[c] \in Requests /\ call[c] \in Attempts(at[c])
      /\ at[c] = "delete" <=> got[c] # None
  BY ClientKinds DEF ClientsInv, Callers, LoopsOK, ClientTypes
<1>2. UNCHANGED <<at, call, got, consumed, author>>
  BY <1>1, OwnFacts DEF serve, settle, lose, forget, client_vars
<1>3. home[m] # None => home'[m] # None
  <2>1. ASSUME NEW r \in Requests, serve(r) \/ settle(r), home[m] # None
        PROVE  home'[m] # None
    BY <1>1, <2>1, ServeFacts, SettleFacts, ClientKinds DEF Handled, Frame
  <2>2. ASSUME NEW r \in Requests, lose(r) \/ forget(r)
        PROVE  home' = home
    BY <2>2 DEF lose, forget, list_vars
  <2> QED
    BY <1>1, <2>1, <2>2, OwnFacts
<1>4. ASSUME got[c] = author[m]
      PROVE  home'[m] # None /\ (call[c] # None /\ pc'[call[c]] = "done" => Over(m)')
  <2>1. home[m] # None /\ (call[c] # None /\ pc[call[c]] = "done" => Over(m))
    BY <1>4 DEF FinishedOK
  <2> SUFFICES ASSUME call[c] # None, pc'[call[c]] = "done", pc[call[c]] # "done"
               PROVE  Over(m)'
    BY <1>3, <2>1, OverKept
  <2> DEFINE d == call[c]
  <2>2. d \in InboxDeletes /\ d \in Requests /\ RequestOK(d) /\ d \in Called
    BY <1>1, <1>4, CallKinds DEF HandlersInv, Called
  <2> HIDE DEF d
  <2>3. ASSUME NEW r \in Requests, settle(r) \/ lose(r) \/ forget(r)
        PROVE  FALSE
    <3>1. r \notin LinkPosts \/ ~forget(r)
      BY <1>1, ClientKinds DEF SentOK, forget, Abandoned
    <3>2. settle(r) => r # d
      <4>1. settle(r) => pc[r] \in {"waiting", "acking"}
        BY <1>1, SettleFacts
      <4> QED
        BY <2>2, <4>1, ClientKinds DEF RequestOK
    <3>3. pc'[d] = pc[d]
      BY <1>1, <2>2, <2>3, <3>1, <3>2, SettleFacts, LoseFacts, ForgetFacts
      DEF Handled, OnlyMoves, Abandoned, ClientTypes
    <3> QED
      BY <3>3 DEF d
  <2>4. ASSUME NEW r \in Requests, serve(r)
        PROVE  Over(m)'
    <3>1. r = d
      BY <1>1, <2>2, <2>4, ServeFacts DEF Handled, OnlyMoves, d
    <3> QED
      BY <2>1, <2>2, <2>4, <3>1, DeleteEnds
  <2>5. ~OnItsOwn
    BY <1>1, <2>2, OwnFacts DEF d
  <2> QED
    BY <2>3, <2>4, <2>5
<1>5. ASSUME author[m] \in consumed[c]
      PROVE  /\ home'[m] # None /\ Over(m)'
             /\ got[c] # author[m]
             /\ at[c] = "get" /\ call[c] # None => value'[call[c]] # m
  <2>1. /\ home[m] # None /\ Over(m)
        /\ got[c] # author[m]
        /\ at[c] = "get" /\ call[c] # None => value[call[c]] # m
    BY <1>5 DEF FinishedOK
  <2> QED
    BY <1>1, <2>1, OverKept, OverNotGiven
<1> QED
  BY <1>2, <1>4, <1>5 DEF FinishedOK

\* After a client has sent a request.  A producer that posts again has posted more than
\* one message, and one that posts for the first time was not heard of before.
LEMMA FinishedAfterFetch ==
  ASSUME ClientsInv, NEW x \in Callers, NEW r \in Requests, fetch(x, r),
         NEW c \in Consumers, NEW m \in InboxPosts, OnlyPost(m)',
         OnlyPost(m) => FinishedOK(c, m)
  PROVE  FinishedOK(c, m)'
<1>1. HandlersInv /\ SentOK /\ ClientTypes /\ LoopsOK /\ c \in Callers
  BY DEF ClientsInv, Callers
<1>2. /\ r \in Attempts(at[x]) /\ r \notin sent /\ call[x] = None
      /\ call' = [call EXCEPT ![x] = r]
      /\ author' = IF r \in InboxPosts THEN [author EXCEPT ![r] = x] ELSE author
      /\ UNCHANGED <<relay_vars, at, got, consumed>>
  BY DEF fetch
<1>3. /\ \A q \in InboxPosts : author'[q] = IF q = r THEN x ELSE author[q]
      /\ \A y \in Callers : call'[y] = IF y = x THEN r ELSE call[y]
  BY <1>1, <1>2 DEF ClientTypes
<1>4. \A q \in InboxPosts : author[q] # None => author'[q] = author[q]
  BY <1>1, <1>2, <1>3 DEF SentOK
<1>5. pc[r] = "arrived" /\ value[r] = None /\ m # None
  BY <1>1, <1>2, ClientKinds DEF SentOK, HandlersInv, RequestOK
<1>6. CASE m = r
  <2>1. x \in Producers /\ author'[m] = x
    <3>1. /\ at[x] = "await" => r \in InboxAwaits
          /\ at[x] = "get" => r \in InboxGets
          /\ at[x] = "delete" => r \in InboxDeletes
          /\ at[x] # "returned"
          /\ at[x] = "post" => x \in Producers
      BY <1>1, <1>2, CallKinds
    <3>2. at[x] \in {"post", "await", "returned", "get", "delete"}
      BY <1>1 DEF ClientTypes
    <3> QED
      BY <1>3, <1>6, <3>1, <3>2, ClientKinds
  <2>2. \A q \in InboxPosts : author[q] # x
    BY <1>1, <1>2, <1>4, <1>6, <2>1, ClientKinds DEF OnlyPost, SentOK
  <2>3. x \notin consumed[c] \cup {got[c]}
    BY <1>1, <2>1, <2>2 DEF SentOK
  <2> QED
    BY <1>2, <2>1, <2>3 DEF FinishedOK
<1>7. CASE m # r
  <2>1. author'[m] = author[m] /\ author[m] # None
    BY <1>3, <1>7 DEF OnlyPost
  <2>2. OnlyPost(m)
    BY <1>4, <2>1 DEF OnlyPost
  <2>3. UNCHANGED <<entries, now, home, pc, value, at, got, consumed>>
    BY <1>2 DEF relay_vars
  <2>4. Over(m) => Over(m)'
    BY <2>3 DEF Over
  <2>5. FinishedOK(c, m)
    BY <2>2
  <2>6. call'[c] = call[c] \/ call'[c] = r
    BY <1>1, <1>3
  <2> QED
    BY <1>5, <2>1, <2>3, <2>4, <2>5, <2>6 DEF FinishedOK
<1> QED
  BY <1>6, <1>7

\* After a call of a client has failed, or has its answer.
LEMMA FinishedAfterAnswer ==
  ASSUME ClientsInv, NEW x \in Callers, network_error(x) \/ produce(x) \/ consume(x),
         NEW c \in Consumers, NEW m \in InboxPosts, OnlyPost(m), FinishedOK(c, m)
  PROVE  FinishedOK(c, m)'
<1>1. HandlersInv /\ SentOK /\ ClientTypes /\ LoopsOK /\ c \in Callers
  BY DEF ClientsInv, Callers
<1>2. UNCHANGED <<entries, now, home, pc, value, author>>
  BY DEF network_error, produce, consume, Answered, relay_vars
<1>3. Over(m) => Over(m)'
  BY <1>2 DEF Over
<1>4. \A y \in Callers : call'[y] = IF y = x THEN None ELSE call[y]
  BY <1>1 DEF network_error, produce, consume, Answered, ClientTypes
<1>5. CASE at'[c] = at[c] /\ got'[c] = got[c] /\ consumed'[c] = consumed[c]
  <2>1. call'[c] = call[c] \/ call'[c] = None
    BY <1>1, <1>4
  <2> QED
    BY <1>2, <1>3, <1>5, <2>1 DEF FinishedOK
<1>6. CASE network_error(x)
  BY <1>5, <1>6 DEF network_error
<1>7. CASE produce(x)
  <2>1. x \in Producers /\ UNCHANGED <<got, consumed>>
    BY <1>7 DEF produce
  <2>2. at'[c] = at[c]
    BY <1>1, <1>7, <2>1, ClientKinds DEF produce, ClientTypes
  <2> QED
    BY <1>5, <2>1, <2>2
<1>8. CASE consume(x) /\ c # x
  <2>1. /\ \A y \in Callers \ {x} : at'[y] = at[y]
        /\ \A b \in Consumers \ {x} : got'[b] = got[b] /\ consumed'[b] = consumed[b]
    BY <1>8, ConsumeFacts
  <2> QED
    BY <1>1, <1>5, <1>8, <2>1
<1>9. CASE consume(x) /\ c = x
  <2>1. /\ call[c] # None /\ pc[call[c]] = "done" /\ call'[c] = None
        /\ \/ /\ at[c] = "get" /\ consumed'[c] = consumed[c]
              /\ call[c] \in InboxGets /\ reply[call[c]] = "OK"
              /\ got'[c] = author[value[call[c]]]
           \/ at'[c] = at[c] /\ got'[c] = got[c] /\ consumed'[c] = consumed[c]
           \/ got'[c] = None /\ consumed'[c] = consumed[c] \cup {got[c]}
    BY <1>1, <1>9, ConsumeFacts
  <2>2. ASSUME at[c] = "get", consumed'[c] = consumed[c],
               call[c] \in InboxGets, reply[call[c]] = "OK", got'[c] = author[value[call[c]]]
        PROVE  FinishedOK(c, m)'
    <3>1. value[call[c]] \in InboxPosts /\ home[value[call[c]]] # None
      BY <2>2, GivenAuthor
    <3>2. got'[c] = author[m] => value[call[c]] = m
      BY <2>2, <3>1 DEF OnlyPost
    <3> QED
      BY <1>2, <1>3, <2>1, <2>2, <3>1, <3>2 DEF FinishedOK
  <2>3. ASSUME got'[c] = None, consumed'[c] = consumed[c] \cup {got[c]}
        PROVE  FinishedOK(c, m)'
    BY <1>2, <1>3, <2>1, <2>3 DEF FinishedOK, OnlyPost
  <2> QED
    BY <1>5, <2>1, <2>2, <2>3
<1> QED
  BY <1>6, <1>7, <1>8, <1>9

\* Every step keeps what the consumers have finished with from being delivered again.
LEMMA NoRedeliveryStep ==
  ASSUME ~StorageErrors, ~ClockJumps, ClientsInv, NoRedelivery, [ClientsNext]_all_vars
  PROVE  NoRedelivery'
<1> SUFFICES ASSUME NEW c \in Consumers, NEW m \in InboxPosts, OnlyPost(m)'
             PROVE  FinishedOK(c, m)'
  BY DEF NoRedelivery
<1>1. OnlyPost(m) => FinishedOK(c, m)
  BY DEF NoRedelivery
<1>2. ASSUME NEW x \in Callers, NEW r \in Requests, fetch(x, r)
      PROVE  FinishedOK(c, m)'
  BY <1>1, <1>2, FinishedAfterFetch
<1>3. UNCHANGED author => OnlyPost(m) /\ author[m] # None
  BY DEF OnlyPost
<1>4. ASSUME NEW x \in Callers, network_error(x) \/ produce(x) \/ consume(x)
      PROVE  FinishedOK(c, m)'
  <2>1. UNCHANGED author
    BY <1>4 DEF network_error, produce, consume, Answered
  <2> QED
    BY <1>1, <1>3, <1>4, <2>1, FinishedAfterAnswer
<1>5. ASSUME \/ \E r \in Requests : serve(r) \/ settle(r) \/ lose(r) \/ forget(r)
             \/ OnItsOwn
      PROVE  FinishedOK(c, m)'
  <2>1. UNCHANGED author
    BY <1>5 DEF serve, settle, lose, forget, OnItsOwn, client_vars
  <2> QED
    BY <1>1, <1>3, <1>5, <2>1, FinishedAfterRelay
<1>6. CASE UNCHANGED all_vars
  <2>1. UNCHANGED <<entries, now, home, pc, value, at, call, got, consumed, author>>
    BY <1>6 DEF all_vars, relay_vars, client_vars
  <2>2. FinishedOK(c, m) /\ (Over(m) => Over(m)')
    BY <1>1, <1>3, <2>1 DEF Over
  <2> QED
    BY <2>1, <2>2 DEF FinishedOK
<1> QED
  BY <1>2, <1>4, <1>5, <1>6, StepsOfClients

\* What a consumer has returned, or holds with its DELETE answered, is not delivered to
\* anybody again, if it is all its producer has posted.
THEOREM FinishedIsNotRedelivered ==
  ASSUME ~StorageErrors, ~ClockJumps
  PROVE  ClientsSpec => []NoRedelivery
<1>1. ClientsInit => NoRedelivery
  BY ClientKinds DEF ClientsInit, NoRedelivery, OnlyPost
<1>2. ClientsInv /\ NoRedelivery /\ [ClientsNext]_all_vars => NoRedelivery'
  BY NoRedeliveryStep
<1> QED
  BY <1>1, <1>2, ClientsInvariant, PTL DEF ClientsSpec

\* "Message won't be re-delivered after success": with a store that does not fail and a
\* clock that is not set back, a consumer is given what it has returned again only if
\* its producer has posted it twice; for any number of producers and consumers.
THEOREM RedeliveryIsRepost ==
  ASSUME ~StorageErrors, ~ClockJumps
  PROVE  ClientsSpec => []RedeliveredOnlyIfReposted
<1>1. ASSUME ClientsInv, NoRedelivery
      PROVE  RedeliveredOnlyIfReposted
  <2> SUFFICES ASSUME NEW c \in Consumers, got[c] \in consumed[c],
                      \A p, q \in InboxPosts : author[p] = got[c] /\ author[q] = got[c] => p = q
               PROVE  FALSE
    BY DEF RedeliveredOnlyIfReposted
  <2>1. got[c] \in Producers /\ got[c] # None
    BY <1>1, ClientKinds DEF ClientsInv, ClientTypes
  <2>2. PICK m \in InboxPosts : author[m] = got[c]
    BY <1>1, <2>1 DEF ClientsInv, SentOK
  <2>3. OnlyPost(m)
    BY <2>1, <2>2 DEF OnlyPost
  <2> QED
    BY <1>1, <2>2, <2>3 DEF NoRedelivery, FinishedOK
<1>2. ClientsInv /\ NoRedelivery => RedeliveredOnlyIfReposted
  BY <1>1
<1> QED
  BY <1>2, ClientsInvariant, FinishedIsNotRedelivered, PTL
==============================================================================
