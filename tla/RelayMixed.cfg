CONSTANTS
  Ids = {i1, i2}
  Messages = {p1, p2}
  Calls = {p1, p2, g1, w1}
  InboxPosts = {p2}
  InboxGets = {}
  InboxDeletes = {}
  InboxAcks = {}
  InboxAwaits = {w1}
  LinkPosts = {p1}
  LinkGets = {g1}
  InboxTtl = 1
  LinkTimeout = 1
  Ttls = {1}
  None = None
  Backend = "memory"
  Durable = FALSE
  StorageErrors = FALSE
  Limits = {1}
  ClockJumps = FALSE
  MaxTime = 2
  MaxWaitersPerEntry = 1
SPECIFICATION FairSpec
INVARIANTS TypeOK RejectedNeverSeen AckedAwaitNotLost NotFoundMeansGone AckHasConsumer MessageNotMissed
PROPERTIES IsMailbox EveryRequestEnds ClosedSendersReleased
