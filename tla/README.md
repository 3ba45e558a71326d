# http-relay: a TLA+ model

http-relay passes messages between a producer and a consumer that know a common
id. The producer posts, the consumer fetches, possibly before anything was
posted, and acknowledges; the producer can wait for the acknowledgment (ACK).
These modules model the relay from its entry store up to its HTTP handlers, the
life of its server, the identification of clients behind proxies, and the client
loops its README recommends. TLC checks them on small instances, and TLAPS proves
their safety properties for every instance.

Line numbers refer to the files under `src/http_relay/` of the repository.

## The system

| Component | State it keeps | Operations | Modelled in |
|---|---|---|---|
| Entry store, SQLite (`persistence.rs`) or in memory (`storage_memory.rs`) | one row per id: body, acked, expires_at, created_at; the limit `max_entries` | insert (with `make_room`), get, ack, delete, cleanup_expired, open | `EntryRepository` |
| Waiting list (`waiting_list.rs`) | the store; per id, the one-shot senders of the requests waiting for a message or an ACK; when the map was last pruned | store, ack, is_acked, subscribe_ack, store_and_subscribe_ack, get_or_subscribe, cleanup_expired | `WaitingList` |
| Inbox handlers (`inbox_handler.rs`) | a receiver and a timer per waiting request | POST, GET, DELETE `/inbox/{id}`, GET `/ack`, GET `/await` | `Relay` |
| Link handlers (`link_handler.rs`) | as above, and a message held but not yet acknowledged | POST, GET `/link/{id}` | `Relay` |
| Server (`server.rs`, `main.rs`) | the lock around the waiting list; the server task with its handle, listener and connections; the cleanup task | start, cleanup every 15 s, shutdown, Drop | `Server`; cleanup and restarts also in `Relay` |
| Client identification (`client_ip.rs`) | the trusted networks | `identify_client`, `client_ip` | `ClientIp` |
| Client loops (the README's `produceToRelay`, `consumeFromRelay`) | where each loop is, what it holds | POST until 200, `/await` until 200; GET until 200, DELETE until answered | `Clients` |
| Ids (`response.rs`) | none | refuse one that is too long | `Relay` (`refuse`) |
| Response headers, arguments other than `--trusted-proxy`, demo, API description | none | | no |

A handler takes the lock (`AppState::pending_list`, a tokio mutex), makes one
call on the waiting list, two for `/await`, gives the lock back and answers, or
awaits its receiver together with a timer. Another request's call sends into that
channel, or drops the sender, which the waiting handler sees as "entry expired".
GET `/link` takes the lock a second time, to acknowledge. The cleanup task takes
the same lock. The store has a mutex of its own, always taken inside that lock.

What is hard about it:

* what happens between two sections of one handler: the second lock of GET
  `/link`, the wait, the timer that races the sender, a client that disconnects;
* entries that expire, are overwritten or are evicted while somebody waits on
  their id, and the waiters this must or must not wake;
* the limits, of rows in the store and of ids and waiters in the map, which must
  not be used up by what is dead, nor cost an undelivered message;
* SQL statements that fail in the middle of a call, each committed on its own;
* restarts, which lose the waiters, keep the rows of a file, and may change the
  limit;
* relays started and stopped one after the other in a process, whose tasks and
  connections outlive the value that stands for them;
* clients that repeat a call without knowing whether the last one arrived;
* a header that several parties wrote, only some of whom are trusted.

What makes each component correct:

* *Store*: it never drops an undelivered message to make room; it evicts the
  oldest acknowledged rows first; it refuses a new id only when nothing could go;
  it stays within its limit; both backends follow the same rules.
* *Waiting list*: nobody waits for a message that is there, or for an ACK that
  has happened; an ACK wakes only those who waited for that message; dead waiters
  do not keep ids out; seen from outside there is one plain mailbox per id.
* *Handlers*: an answer is true when it is given: 200 to a producer means its
  message was acknowledged, 503 that it was not seen, 404 that it is gone; every
  request ends.
* *Server*: a failed start leaves nothing behind; a dropped relay ends, and takes
  up nothing beside its successor.
* *Client identification*: a request is attributed to the nearest host nobody
  vouches for, whatever else the header holds.
* *Clients and relay together*: a message confirmed to its producer was received,
  one that was not received is still there, and the producer's call returns.

## Modules

```
Mailbox                     abstract: what clients are promised
   ^  refined by (IsMailbox)
EntryRepository  <-  WaitingList  <-  Relay  <-  Clients     (EXTENDS)
   ^                    ^               ^          ^
MCRepository        MCWaitingList    MCRelay    MCClients    (for TLC)

EntryRepositoryProofs  <-  WaitingListProofs  <-  WaiterMapProofs      (TLAPS)
  <-  RelayProofs  <-  MailboxProofs, ClientsProofs

Server  <-  ServerProofs          ClientIp  <-  MCClientIp, ClientIpProofs
```

### EntryRepository

`entries` is the table, a function from the stored ids to their rows; `now` is
what `unix_timestamp_millis()` returns; `max_entries` the limit of this run of the
process. A message is a name; body and content type are not looked into. The
statements are functions of the table (`delete_expired`, `OldestAcked` and
`evict_acked`, `make_room_sqlite`, `make_room_memory`, `insert`, `acknowledged`), so
the waiting list uses the same ones. `insert` returns the set of results it may
have: creation times tie, and with `StorageErrors` any statement may fail after the
ones before it were committed (`AfterFailedInsert`). `Reopen` is a process start:
a file keeps its rows, the limit may be another one.

A call reads the clock once. The code reads it up to three times in a call, but
only in `store_and_subscribe_ack` does a later reading change what the caller
sees; there the clock may move between the insert and the subscription.

### WaitingList

One action per operation of `waiting_list.rs`; the lock makes each of them one
step, and its parameter `res` is what it returns. `waiters` is the map of senders.
A channel is named by the call that made it: `receiver[c]` is the state of the
receiving half, `value[c]` the message sent into it. `prune_due` says whether
`FULL_MAP_PRUNE_INTERVAL` has passed since the last prune. A read that fails is
treated as the code treats it, as a missing row (`ReadFaults`).

Three history variables record what no single state shows: the id each message
was posted to (`home`), the message a call waits to see acknowledged (`awaits`)
and the messages that were acknowledged (`acked_messages`). No guard of an
operation depends on them, except that each message is posted once so that it can
be told from the others.

### Relay

A request is a process with a program counter: `arrived`, `waiting`, `acking`
(GET `/link` between its two locks), `done`, `gone`. One action per section under
the lock (`inbox_post`, `link_get`, `link_auto_ack`, ...), `wake` when its receiver
resolves, `time_out` when its timer fires. tokio's `timeout` polls the receiver
first and the timer second; the sender may act between the two polls, so a request
whose receiver has just resolved may still time out. `disconnect` drops a handler's
future wherever it awaits, `restart` stops and starts the process, `cleanup_task`
is the background task, `refuse` whatever is answered before the lock is taken: a
client that cannot be told, a body or an id that is too long.

### Clients

The relay of module `Relay`, whose requests are now sent by clients. `fetch` sends
one, `produce` and `consume` are the loops' reactions to an answer, `network_error`
is a call that failed: the request it sent stays, unanswered, handled or still on
its way, and may be served later (`serve`), get lost (`lose`) or be noticed to be
abandoned (`disconnect`, in `settle`). Whatever answer does not end a step of a
loop sends the client round again, as the code does: its `throw` is caught by the
`catch` that follows. Once nothing is left of an abandoned request, `forget` frees
its name, so that a few names are enough for any number of retries; the name of a
POST stays that of its message, and the number of POSTs is bounded. `author` says
which producer's data a POST carried, `sent_at` when it was sent, `consumed` what a
consumer has returned. All clients share one id, which is where they can get into
each other's way.

### Server

`stage` is where the application is with each relay: the steps of `start`, each of
which may fail, `shutdown`, the drop. `server`, `cleanup` and `listening` are the
two tasks and the port; the handle is the flags `graceful` and `stopped`. A
connection is queued in the backlog, idle, or has a request in flight. axum-server
is modelled from the way `server.rs` uses it: a task looks at the flags at the start
of a poll, an immediate stop drops connections, a graceful one lets requests
finish and turns into an immediate one after the grace period. `exit` ends the
process.

`main` runs on tokio's multi-threaded runtime (`main.rs:73`), so a worker may be
polling a connection while the application drops the relay. Checking the flag (`poll`)
and what the poll then does (`request`, `answer`, until `pending`) are therefore
separate steps, and `polled` is the set of connections in between. A handler that is
being polled when `Drop` runs may finish and answer from the old store after the
server task has closed the listener and even after the next relay has bound the port;
what it cannot do is begin a poll (`SuccessorTakesOver`). Likewise a poll of the server
task may accept connections after the stop, which are then cut.

### ClientIp

A request starts at a client, with a header of its own or none, and passes
proxies, each of which adds the address it was connected from: to the last line,
on a line of its own, or, the first one, instead of what the client sent. Then
`identify_client` decides by the peer, and the two loops of `client_ip` are steps:
`next_line` from the right, `next_entry` within a line. An address is a host and
the form it is written in, since an IPv4 address may come IPv4-mapped; a network
is a set of addresses. Text is abstracted to what the code tells apart: an
address, nothing, junk, bytes that are not ASCII.

### Mailbox

The abstract specification: per id, a mailbox that is absent, pending or acked.
Posting replaces what it holds, a delivery takes nothing out, an ACK clears the
message, and only what has lapsed or is acknowledged may disappear, in any step.
Capacity, waiters, caching, cleanup and failing statements do not occur in it.
`IsMailbox` says that the waiting list implements it: `held(id)` maps the row of an
id to its mailbox (a row that reads as expired is absent) and `deliveries` the
channels to what consumers were handed.

### Mutants

Definitions named `Bug_...` are versions of a definition with a plausible mistake.
No specification uses them; PROJECT.json lists the property each one breaks.

## What the runs check

| Run | Instance | Question |
|---|---|---|
| `repository` | SQLite; 4 ids, limits 1 and 3, clock to 3 and set back, failing statements, a file that is reopened | what is evicted, kept, refused; would the in-memory store do the same |
| `waiting_list` | SQLite; 2 ids, limits 1 and 2, 2 messages, 3 channels, 2 waiters per id, failing statements, restarts | are ACKs neither missed nor invented, is the map kept clean, is it a mailbox |
| `relay_mixed` | in memory; a producer and a consumer of `/link`, an inbox producer and an `/await` on 2 ids, 1 row, 1 waiter, fairness | what the answers mean, is it a mailbox, is a message missed, does every request end, are dead slots freed |
| `relay_faults` | SQLite; every `/inbox` request and a `/link` producer on 1 id, failing statements, crashes, limits 0 and 1, clock set back | what producers are told, and why a message leaves the store, with everything failing |
| `clients_retry` | SQLite; a producer that may POST twice, a consumer, a GET, a DELETE and 2 `/await`s at a time, all lossy; restarts, fairness | is a confirmed message received, an unconfirmed one still there, anything delivered again; does the producer's call return |
| `server_lifecycle` | 2 relays, 3 connections, fairness | does a failed start clean up; what may the old one do beside its successor; does a dropped relay end |
| `client_ip_walk` | 4 hosts, 2 of them proxies; an address and a network, trusted or not; headers of up to 2 entries in up to 2 lines; up to 2 proxies on the way | is the entry found the one described, and the nearest untrusted host |
| `link_stale_ack`, `inbox_cleanup_404`, `link_read_error`, `server_graceful`, `clients_delete_retry` | small | violated: see below |

The backend is a constant of the store: most runs choose SQLite, `relay_mixed` the
in-memory store, and the proofs below hold for both.

Properties of the store: `RejectedOnlyWhenFull`, `BackendsAgree` (invariants),
`UndeliveredKept`, `OldestEvictedFirst`, `GrowthWithinLimit` (action properties).
Of the waiting list: `AckNotMissed`, `AckSignalTruthful`, `MessageNotMissed`,
`EmptyIdsReleased`, `WaitersWithinLimits`, `NewIdsKeptOutByOpenOnly` (invariants),
`AckedNeverRedelivered`, `AckWaiterDroppedForCause` (action properties),
`IsMailbox` (refinement). Of the relay: `RejectedNeverSeen`, `ProducerConfirmed`,
`AckedAwaitNotLost`, `NotFoundMeansGone`, `AckHasConsumer` (invariants),
`StoredLeavesForCause` (action property),
`EveryRequestEnds`, `ClosedSendersReleased` (liveness). Of clients and relay:
`ConfirmedMeansReceived`, `StoredUntilReceived`, `RedeliveredOnlyIfReposted`
(invariants), `ProducerReturns` (liveness). Of the server: `StartIsAllOrNothing` (invariant),
`SuccessorTakesOver` (action property), `DroppedRelayEnds` (liveness). Of the
identification: `WalkFindsClient`, `NearestUntrustedIdentified` (invariants). Each
is stated in words above its definition.

### Bounds, and why they are enough

* *Store*: four ids and a limit of three allow rows that are expired, acknowledged
  and undelivered at once in a full store, ties and differences in age, and,
  reopened with limit one, a store two rows over its limit, where freeing one row
  is not enough. Four clock readings let a row be fresh, at its expiry (where reads
  and deletion disagree) and past it.
* *Waiting list*: two ids with room for one make every insert of the other id
  compete for the row and every waiter for the map. Two messages are an overwrite,
  three channels one more than the two places of a list.
* *Relay*: two producers are an overwrite or a stale ACK; limits of one row and one
  waiter make every refusal reachable, and in `relay_faults` a limit of none refuses
  also what could be stored. A failing insert under the id of a stored message is what
  `StoredLeavesForCause` meets there. Each request runs once: in `Relay`, a client that
  retries is another request.
* *Clients*: one id, one producer and one consumer are all it takes for a retry to
  meet what it repeats. Two POSTs are a POST and its retry, two `/await`s an
  abandoned one that still waits beside its successor. The clock stands still in
  `clients_retry`, whose liveness is costly. What the clock adds was checked apart,
  without fairness: one `/await`, times to live of 2, a clock that runs to 4 and
  statements that fail (`StoredUntilReceived`, 1.3 million states); the theorem covers
  every clock that is not set back.
* *Server*: two relays are one that failed or was dropped and whose connections
  linger, and one that starts beside it; three connections can be in three different
  states.
* *ClientIp*: two entries in a client's header and the proxies' after them are enough
  for a skip, a stop and something left of it, within a line and across lines;
  two proxies for one that is trusted behind one that is not.
* `MaxTime` bounds the clock in every run. A time to live of one makes every
  expiry happen within it.
* Symmetry is used over ids, messages, channels, requests of one kind and producers,
  and in no run that checks liveness.
* Deadlock: no cfg turns the check off. Restarts are always possible.

### Fairness

`FairSpec` assumes that `wake`, `time_out`, `link_auto_ack` and `cleanup_task` are
each taken if they stay enabled (weak fairness). tokio runs every task that is
ready and its mutex is handed out first come, first served, so a handler whose
receiver has resolved, or that waits for the lock to acknowledge, does run; timers
fire; the cleanup task loops for as long as the process lives. Nothing is assumed
of the clients, of the clock or of the prune interval.

`FairServerSpec` assumes the same of the server task and the connection tasks: a
task whose handle has been stopped is polled, and a poll comes to its end, since a
handler that has to wait awaits and gives its worker back. Handlers and clients owe
nothing: a request may stay in flight for ever.

`FairClientsSpec` assumes, besides the relay's fairness, that the network is not
broken for ever: if a client sends again and again, some attempt arrives
(`arrives`), and if answers are there again and again, one comes back (strong
fairness, since every single attempt may fail). The clients' loops go on, as they
do in the code, a request that was given up is lost or ends, and a connection to a
process that is gone fails.

### What the violated runs show

* `link_stale_ack` (`LinkPostDelivered`): GET `/link` takes a message, releases the
  lock, and later acknowledges its id. If a second producer overwrites the message
  in between, the second message is cleared, and its producer is told 200, though
  nobody ever received it.
* `inbox_cleanup_404` (`InboxGetWaitsItsTimeout`): a message expires, and before
  the cleanup task has removed its entry, a consumer asks for it. The entry reads as
  missing, so the consumer waits for a new message. Then cleanup removes the entry and
  drops all waiters of its id, and the consumer gets 404 instead of waiting until its
  timeout.
* `link_read_error` (`NotFoundMeansGone`): if the read after a successful store
  fails, POST `/link` answers "Entry expired" for a message consumers still get.
* `server_graceful` (`ShutdownIsGraceful`): `shutdown` returns at once and drops the
  relay, whose `Drop` stops the server at once: the grace period it asked for never
  starts to count.
* `clients_delete_retry` (`ConfirmedMeansReceived`): a consumer's DELETE breaks off and
  is sent again, and the relay handles both. One acknowledges the message that was
  read; its producer's call returns, and only then the next producer posts. The other
  DELETE comes after that, clears the new message, and its producer is told that it was
  received. In this run producers take turns (`TurnsSpec` of `MCClients`: none begins
  before the call of the other has returned); if moreover no DELETE breaks off
  (`LossyCalls` empty), TLC finds no violation. Where producers do not take turns, even
  the first and only DELETE of a consumer may clear a message posted since its GET, for
  the same reason: it names only the id.

`ConfirmedMeansReceived` holds in `clients_retry`, where an id serves one producer: a
fresh id per message avoids what `clients_delete_retry` shows.

Some properties are checked only where they hold. With storage errors, a read that
fails makes a consumer wait beside a message (`MessageNotMissed`), and an insert that
fails drops the senders of a message that stays (`AckedAwaitNotLost`), so those two
and `NotFoundMeansGone` are checked without. A clock set back revives entries that
were treated as expired, which `MessageNotMissed` and `IsMailbox` rule out.

Four more things differ from what the documentation says. No run shows them, since
each is plain from the code:

* `persistence.rs:188` deletes rows with `expires_at < now`, reads reject if
  `now >= expires_at`: in that millisecond a full store refuses a new id although
  not "every entry still holds an undelivered, unexpired message" (`types.rs:23-24`).
  `RejectedOnlyWhenFull` goes by the statement's notion.
* `client_ip.rs:76` converts a whole line, so bytes that are not ASCII left of the
  client's entry, which is "never parsed" (`client_ip.rs:71-72`), get the request
  refused. `NearestUntrustedIdentified` allows it.
* `--trusted-proxy ::ffff:127.0.0.1` becomes an IPv6 network no canonical address is
  in, so it does not mean "just that address" (`main.rs:116`).
* A POST that is sent again because its answer was lost puts a message back that was
  acknowledged meanwhile, in spite of "message won't be re-delivered after success"
  (`README.md:312`). `RedeliveredOnlyIfReposted` says that there is no other way.

## What is proved

`EntryRepositoryProofs` proves, for every finite set of ids, every set of messages,
limits and times to live, both backends, with or without failing statements and
clock jumps, under `RepositoryAssumption`:

* `RepoTypeCorrect`: `RepoSpec => []RepoTypeOK`. A row holds a body exactly when it is
  unacknowledged, so that reads that go by the body and reads that go by the flag
  agree. `RepoTypeOK` is inductive as it stands.
* `UndeliveredIsKept`, `OldestIsEvictedFirst`, `GrowthIsWithinLimit`: the three action
  properties of the store.
* `RejectionIsJustified`: `[]RejectedOnlyWhenFull`. Needs one more invariant,
  `MemoryWithinLimit`: the in-memory store, which evicts one row at a time, is never
  more than full. An SQLite file may be, after its limit was lowered.
* `BackendsAlwaysAgree`: `[]BackendsAgree`.

The argument: `MakeRoomDisposes` says that whatever make_room does, in either
backend, it removes a set of expired or acknowledged rows whose unexpired members
are the oldest acknowledged ones (`Evictable`); `InsertShape` says that an insert,
succeeding, refused or failing half-way, removes such a set and then puts its row,
if at all, into a free slot. The action properties follow from that and from a look
at the other actions. `NoRoomLeft` counts the rows: what an eviction leaves is
either below the limit or without an acknowledged row. All this is stated of a step
that calls the store (`StoreCalled`), whoever makes it, so that the components above
inherit it.

`WaitingListProofs` proves, under `WaitingListAssumption` as well, for every set of
calls and every limit on waiters:

* `ListTypeCorrect` (`[]ListTypeOK`), `AckIsNotMissed` (`[]AckNotMissed`),
  `AckSignalIsTruthful` (`[]AckSignalTruthful`), and the action properties
  `AckedNeverRedelivered` and `AckWaiterDroppedForCause`.

None of them is inductive. The invariant that is, `ListInv` (`ListInvariant`), adds
two things to the types. `Wired`: a channel has its sender in one list of one id, and
only while it has not resolved. `Meant`: whoever waits at an id for an ACK waits for
a message that was posted to that id and is not acknowledged, and if the id still has
a row, for the message in it; a row is never left with a message that was
acknowledged, or belongs to another id. That is what makes the ACK of a row, which
knows only the id, the ACK of the message its waiters mean: an overwrite drops them
in the step that replaces the row. The lemmas first say which senders each operation
on the map keeps (`PruneWaits`, `AddWaits`, `NotifyMessageWaits`, ...), then that it
keeps `Wired` and `Meant`; `StoreStepInv`, `AckStepInv` and so on put them together,
one per operation.

`WaiterMapProofs` proves of the same specification what bounds the map:
`WaitersAreWithinLimits`, `EmptyIdsAreReleased`, `NewIdsAreKeptOutByOpenOnly`. The
invariant is `Slim`: the map has at most `max_entries` ids, none with two empty
lists, and no list is longer than its limit. That a prune leaves only ids with an
open receiver needs the types as well, which say that a sender in the map is open or
closed. `MessageIsNotMissed` assumes `~StorageErrors` and `~ClockJumps`, as the run
does: a failing read, or a clock set back, does make a consumer wait beside a
message.

`RelayProofs` proves, for every set of requests of each kind, under
`RelayAssumption`:

* `RelayIsWaitingList` (`Spec => ListSpec`): a handler calls the list only with a
  channel and a message that are still unused, so what is proved of the list holds
  of the relay.
* `RelayKeepsStorePromises`: `UndeliveredKept`, `OldestEvictedFirst`,
  `GrowthWithinLimit` and `[]RejectedOnlyWhenFull`, which `EntryRepositoryProofs` proves
  of the store by itself, hold of the relay (`ListCallsStore`: a step of the list is one
  call of the store; POST `/link`, in whose step the clock may move as well, writes once).
* `StoredLeaves` (`StoredLeavesForCause`), without further hypotheses: a message that has
  not expired leaves its id only in the step in which a newer POST takes its place, a
  DELETE is answered 200, or a GET `/link` with a message in hand acknowledges; or at a
  restart, if the store is not a file. With several producers and consumers on an id
  this is what remains of "safe on the relay".
* `RelayTypeCorrect` (`[]TypeOK`), `RejectedIsNeverSeen`, `ProducerIsConfirmed`,
  `EveryAckHasConsumer`, without further hypotheses: statements may fail, the clock may
  be set back, the process may restart at any point.
* `AckedAwaitIsNotLost`, if no statement fails (a failing insert drops the senders of
  a message that stays); `NotFoundReallyMeansGone` and `RelayMessageIsNotMissed`, if
  also the clock is not set back. Those are the conditions the run has, and
  `link_read_error` shows what happens without.

`HandlersInv` adds to the invariants of the list what the place of a handler says of
its channel (`RequestOK`), what its answer says of the message (`AnswerOK`), and that
only posted messages are handed over. `RelayInv` is `HandlersInv` with `AckHasConsumer`,
which the clients, who use the names of requests again, cannot keep. The proof treats
a handler in two parts. `Frame(r)` is all the others see of a step of the list that
`r` makes: receivers that were open may resolve, by a message just stored, by an ACK,
or by being dropped; the table gets no message but that of `r`. One lemma per operation of the list shows it
(`StoreEffect`, `AckEffect`, `PostAwaitEffect`, ...), and `OthersKeep` that it is enough
for the other requests. `Handled(r)`, one lemma per handler, adds what becomes of `r`.
`NoFaultInv` is the second invariant, for the two properties about 404: a dropped
sender means that the message is gone.

`MailboxProofs` proves the refinement, `ListIsMailbox` (`ListSpec => IsMailbox`) and
`RelayIsMailbox` (`Spec => IsMailbox`), if the clock is not set back. The mapping is the
one of `WaitingList` (`held`, `deliveries`). A call on the list is a post, an
acknowledgment or deliveries of the mailboxes, together with any number that lapse
(`RowsFade`): what the store evicts or cleans up was acknowledged or had expired. One
more invariant of the list is needed, `GivenAtMostOnce`: a channel that has not
resolved holds no message, so that a delivery is never taken back.

`ClientsProofs` proves, for any number of clients and requests:

* `ClientsTypeCorrect` (`[]ClientsTypeOK`), without further hypotheses.
* `ConfirmationMeansReceipt` (`[]ConfirmedMeansReceived`), if the id serves one
  producer; `clients_delete_retry` shows what happens with two. Statements may fail,
  the clock may be set back and the process may restart.
* `StoredIsKeptUntilReceived` (`[]StoredUntilReceived`), if also the store is a file
  (a restart empties the other one) and the clock is not set back. Statements may
  fail, and POSTs may come late.
* `StoredIsKeptForFirst`, the same for any number of producers on the id: until a consumer
  was handed somebody's data, there is data for the next GET. After that
  `ClientsStoredLeaves` says what may become of a message: it is `StoredLeavesForCause`
  for clients that repeat what got lost or comes late.
* `RedeliveryIsRepost` (`[]RedeliveredOnlyIfReposted`), for any number of producers, if
  no statement fails and the clock is not set back: a consumer takes a DELETE that
  failed with 500 for done, and the message stays.

`ClientsInv` is `HandlersInv` with what the loops keep: where a client is says what it
calls and whether it holds data, no two wait for the same request, and the relay has
seen nothing of a request that was not sent. The lemmas of `RelayProofs` about the
handlers are used as they are; `ForgetFacts` shows that freeing the name of a finished
request keeps `HandlersInv`. None of the three properties is inductive:

* `NothingAcked`: until some consumer is handed data, no message is acknowledged, no
  DELETE was sent and no `/await` was answered 200. So the first ACK comes after the
  first delivery (`NothingAckedBeforeDelivery`, for any number of producers), and if
  there is one producer, it was its data.
* `StillStored`: until then, once a POST was answered 200, the id has a row that
  outlives it, since only a POST that is served later replaces that row, and no POST
  is served before it was sent (`SentBefore`).
* `NoRedelivery`: while a message is all its producer has posted, and a consumer has
  returned its data, or holds it and has been answered its DELETE, the message is in
  no row that can be read and on its way to nobody.

`ServerProofs` proves `ServerTypeCorrect`, `StartLeavesAllOrNothing` and
`SuccessorHasTakenOver`, for any number of relays and connections. `ServerInv` says
what each stage of a relay means for its tasks, that the application is busy with one
relay at a time, and that the relay it has bound is the only one that listens. So if
another relay has the port, an earlier one was dropped, which stopped its handle, and a
poll that finds the handle stopped takes up nothing. That an earlier relay answers
nothing at all is not true and not claimed: a poll that began before the drop goes on.

`ClientIpProofs` proves, for every set of hosts, networks and proxies, every header
and any number of hops:

* `IpTypeCorrect`, and `WalkFindsTheClient` (`[]WalkFindsClient`). The loop invariant,
  `Searched`, is that no place the walk has passed ends the search, and that
  `leftmost_proxy_ip` is the leftmost address among those places.
* `NearestIsIdentified` (`[]NearestUntrustedIdentified`), if no network is written in
  the IPv4-mapped form, which would contain nobody. `Traced` is what the header says of
  the way: its rightmost places name the hosts before the peer, in order, whatever
  the client sent and whether proxies append or add lines. So between the nearest
  untrusted host and the relay there are only entries the walk passes over.

## Model-checked only, and not modelled

Liveness and fairness are out of reach of the proof system, and stay with TLC:
`EveryRequestEnds`, `ClosedSendersReleased`, `ProducerReturns`, `DroppedRelayEnds`.
All the other properties of the passing runs are proved above, under the hypotheses
named there. What the violated runs check is of course not proved.

Not modelled: SQLite's own durability, WAL mode and secure deletion (a committed
statement is taken to survive a crash); a panic that poisons the store's mutex;
which text parses as an
address; the headers of answers, CORS, tracing and most of the command line; two
relays in one process on one database file, where the cleanup task of the dropped
one goes on; the web demo, whose calls are made by hand and not repeated.

## Plan

Done: the store, the waiting list, the handlers, the mailbox refinement, the
lifecycle of the server, client identification, the clients' loops, and the proofs
listed above.

What is left:
1. Clients on several ids, which compete for the rows of the store and the places in
   the map of waiters; `Relay` has that competition, without the loops.
2. Two relays in one process on one file, with the cleanup task of the dropped one
   still at work.
