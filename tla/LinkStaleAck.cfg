CONSTANTS
  Ids = {i1}
  Messages = {p1, p2}
  Calls = {p1, p2, g1}
  InboxPosts = {}
  InboxGets = {}
  InboxDeletes = {}
  InboxAcks = {}
  InboxAwaits = {}
  LinkPosts = {p1, p2}
  LinkGets = {g1}
  InboxTtl = 1
  LinkTimeout = 1
  Ttls = {1}
  None = None
  Backend = "memory"
  Durable = FALSE
  StorageErrors = FALSE
  Limits = {2}
  ClockJumps = FALSE
  MaxTime = 2
  MaxWaitersPerEntry = 2
SYMMETRY Symmetry
SPECIFICATION Spec
INVARIANT LinkPostDelivered
