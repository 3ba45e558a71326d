CONSTANTS
  Ids = {i1}
  Messages = {p1, p2}
  Calls = {p1, p2, g1, d1, w1, w2}
  InboxPosts = {p1, p2}
  InboxGets = {g1}
  InboxDeletes = {d1}
  InboxAcks = {}
  InboxAwaits = {w1, w2}
  LinkPosts = {}
  LinkGets = {}
  InboxTtl = 1
  LinkTimeout = 1
  Ttls = {1}
  None = None
  Backend = "sqlite"
  Durable = TRUE
  StorageErrors = FALSE
  Limits = {1}
  ClockJumps = FALSE
  MaxTime = 0
  MaxWaitersPerEntry = 1
  Producers = {a}
  Consumers = {c1}
  channelId = i1
  LossyCalls = {"post", "await", "get", "delete"}
SPECIFICATION FairClientsSpec
INVARIANTS ClientsTypeOK ConfirmedMeansReceived StoredUntilReceived RedeliveredOnlyIfReposted
PROPERTIES ProducerReturns
