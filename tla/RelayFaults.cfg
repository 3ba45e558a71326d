CONSTANTS
  Ids = {i1}
  Messages = {p1, p2}
  Calls = {p1, p2, g1, d1, a1, w1}
  InboxPosts = {p2}
  InboxGets = {g1}
  InboxDeletes = {d1}
  InboxAcks = {a1}
  InboxAwaits = {w1}
  LinkPosts = {p1}
  LinkGets = {}
  InboxTtl = 1
  LinkTimeout = 1
  Ttls = {1}
  None = None
  Backend = "sqlite"
  Durable = TRUE
  StorageErrors = TRUE
  Limits = {0, 1}
  ClockJumps = TRUE
  MaxTime = 2
  MaxWaitersPerEntry = 1
SYMMETRY Symmetry
SPECIFICATION Spec
INVARIANTS RejectedNeverSeen ProducerConfirmed AckHasConsumer
PROPERTIES StoredLeavesForCause
