CONSTANTS
  Ids = {i1}
  Messages = {p1, p2}
  Calls = {p1, p2, g1, d1, d2, w1}
  InboxPosts = {p1, p2}
  InboxGets = {g1}
  InboxDeletes = {d1, d2}
  InboxAcks = {}
  InboxAwaits = {w1}
  LinkPosts = {}
  LinkGets = {}
  InboxTtl = 1
  LinkTimeout = 1
  Ttls = {1}
  None = None
  Backend = "sqlite"
  Durable = TRUE
  StorageErrors = FALSE
  Limits = {1}
  ClockJumps = FALSE
  MaxTime = 0
  MaxWaitersPerEntry = 1
  Producers = {a, b}
  Consumers = {c1}
  channelId = i1
  LossyCalls = {"delete"}
SYMMETRY Symmetry
SPECIFICATION TurnsSpec
INVARIANTS ConfirmedMeansReceived
