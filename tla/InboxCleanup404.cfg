CONSTANTS
  Ids = {i1}
  Messages = {p1}
  Calls = {p1, g1}
  InboxPosts = {p1}
  InboxGets = {g1}
  InboxDeletes = {}
  InboxAcks = {}
  InboxAwaits = {}
  LinkPosts = {}
  LinkGets = {}
  InboxTtl = 1
  LinkTimeout = 1
  Ttls = {1}
  None = None
  Backend = "memory"
  Durable = FALSE
  StorageErrors = FALSE
  Limits = {1}
  ClockJumps = FALSE
  MaxTime = 2
  MaxWaitersPerEntry = 1
SYMMETRY Symmetry
SPECIFICATION Spec
INVARIANT InboxGetWaitsItsTimeout
