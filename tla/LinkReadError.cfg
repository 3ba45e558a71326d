CONSTANTS
  Ids = {i1}
  Messages = {p1}
  Calls = {p1, g1}
  InboxPosts = {}
  InboxGets = {}
  InboxDeletes = {}
  InboxAcks = {}
  InboxAwaits = {}
  LinkPosts = {p1}
  LinkGets = {g1}
  InboxTtl = 1
  LinkTimeout = 1
  Ttls = {1}
  None = None
  Backend = "sqlite"
  Durable = TRUE
  StorageErrors = TRUE
  Limits = {1}
  ClockJumps = FALSE
  MaxTime = 2
  MaxWaitersPerEntry = 1
SYMMETRY Symmetry
SPECIFICATION Spec
INVARIANT NotFoundMeansGone
