CONSTANTS
  Ids = {i1, i2}
  Messages = {m1, m2}
  Calls = {c1, c2, c3}
  None = None
  Backend = "sqlite"
  Durable = TRUE
  StorageErrors = TRUE
  Limits = {1, 2}
  Ttls = {1}
  ClockJumps = FALSE
  MaxTime = 2
  MaxWaitersPerEntry = 2
SYMMETRY Symmetry
SPECIFICATION ListSpec
INVARIANTS ListTypeOK AckNotMissed AckSignalTruthful WaitersWithinLimits EmptyIdsReleased NewIdsKeptOutByOpenOnly
PROPERTIES IsMailbox AckedNeverRedelivered AckWaiterDroppedForCause
